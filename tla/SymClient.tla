----------------------------- MODULE SymClient -----------------------------
(***************************************************************************)
(* e4symclient.c on the in-memory store: protect_message and               *)
(* unprotect_message of one client, between an application, a network that *)
(* loses, delays, repeats and reorders, and the C2 server that manages the *)
(* client's keys.  The server is not in the repository; it is modelled by  *)
(* what unprotect_message expects of it.                                   *)
(*                                                                         *)
(* A protected message is a record of the topic it travels on, its         *)
(* timestamp, the key it is protected under and its plaintext.  AES-SIV is *)
(* taken to do its job: unprotecting gives the plaintext under the same    *)
(* key and fails under another.                                            *)
(*                                                                         *)
(* The C2 and the client have a clock each, now and secs1970, and nothing  *)
(* keeps the two together.  In a build with a clock secs1970 is what       *)
(* time(NULL) returns: it can start at any date, run fast or slow and be   *)
(* set.  In an AVR build it counts seconds from 0, below the first date    *)
(* the code takes for a real one, until a control message sets it.         *)
(***************************************************************************)
EXTENDS SymStore, FiniteSets

CONSTANTS
    Client,            \* the client's id
    IdKeys,            \* keys the C2 gives the client, one after the other
    FirstIdKey,        \* the one it is provisioned with
    AppKey,            \* a key the C2 never issues
    Builds,            \* values of HasRTC, which is FALSE for AVR
    Options,           \* values of "proto_opts has E4_OPTION_IGNORE_TIMESTAMP"
    RealTime,          \* the date 946684800 the clock is compared with
    RTCDates,          \* dates a clock can show at first, or be set to
    E4C_TIME_FUTURE,   \* how far ahead a timestamp may be
    E4C_TIME_TOO_OLD,  \* how far behind
    MaxTime,           \* bound on the time of both clocks
    MaxMsgs            \* bound on the messages ever sent

ASSUME ClientAssumption ==
    /\ Client \in Ids
    /\ IdKeys \subseteq Keys
    /\ FirstIdKey \in IdKeys
    /\ AppKey \in Keys \ IdKeys
ASSUME TimeAssumption ==
    /\ Builds \subseteq BOOLEAN
    /\ {RealTime, E4C_TIME_FUTURE, E4C_TIME_TOO_OLD, MaxTime, MaxMsgs} \subseteq Nat
    /\ RTCDates \subseteq Nat

VARIABLES
    HasRTC,    \* the build, which never changes
    id, key, ctrltopic, topics, ret,  \* the store, as in SymMemStore
    now,       \* the C2's clock
    secs1970,  \* the client's clock
    net,       \* messages sent; any of them can arrive, any number of times
    c2key,     \* the id key the C2 uses for the client
    issued,    \* the id keys it has used
    res,       \* result of the client's last call
    accepted,  \* history: messages unprotected with success
    repeated,  \* history: those of them accepted again later
    latest,    \* history: latest timestamp of a command executed while
               \* the clock knew the date, since it was last set back
    slack      \* history: how far a later command was behind it, at most

Mem == INSTANCE SymMemStore

stored  == <<id, key, ctrltopic, topics, ret>>
c2      == <<c2key, issued>>
history == <<accepted, repeated, latest, slack>>
vars    == <<HasRTC, stored, now, secs1970, net, c2, res, history>>

ctrl == ControlTopic(Client)

-----------------------------------------------------------------------------
(* Plaintexts: a payload that is no command, or one of the commands.       *)

Body(cmd, h, k) == [cmd |-> cmd, hash |-> h, key |-> k]

Data == Body("Data", Zero, Zero)

(* The control topic is not one of the ordinary topics.                    *)
ASSUME TopicsAssumption == ctrl \notin Topics

OrdinaryHashes == {TopicHash(t) : t \in Topics}

(* Commands that change the table, well-formed or, for RemoveTopic, with   *)
(* the hash cut off; Malformed has an unknown code or a wrong length.      *)
TopicCommands ==
    {Body("RemoveTopic", h, Zero) : h \in OrdinaryHashes \cup {Zero}}
      \cup {Body("SetTopicKey", h, k) : h \in OrdinaryHashes, k \in Keys \ (IdKeys \cup {AppKey})}
      \cup {Body("ResetTopics", Zero, Zero), Body("Malformed", Zero, Zero)}

(* An application's payload that reads like a command.                     *)
Lookalikes == {Body("SetTopicKey", h, AppKey) : h \in OrdinaryHashes}

Msg(t, k, b, time) == [topic |-> t, ts |-> time, key |-> k, body |-> b]

-----------------------------------------------------------------------------

Init ==
    /\ HasRTC \in Builds
    /\ id = Client
    /\ key = FirstIdKey
    /\ ctrltopic = TopicHash(ctrl)
    /\ topics = EmptyTable
    /\ ret = E4_RESULT_OK
    /\ now = RealTime
    /\ secs1970 \in IF HasRTC THEN RTCDates ELSE {0}
    /\ net = {}
    /\ c2key = FirstIdKey
    /\ issued = {FirstIdKey}
    /\ res = E4_RESULT_OK
    /\ accepted = {}
    /\ repeated = {}
    /\ latest = 0
    /\ slack = 0

(* A second passes on the C2's clock, or on the client's.                  *)
Tick ==
    /\ now < MaxTime
    /\ now' = now + 1
    /\ UNCHANGED <<secs1970, stored, net, c2, res, history>>

ClockTick ==
    /\ secs1970 < MaxTime
    /\ secs1970' = secs1970 + 1
    /\ UNCHANGED <<now, stored, net, c2, res, history>>

(* The clock of a device that has one is set, forward or back.             *)
SetClock(t) ==
    /\ HasRTC
    /\ secs1970' = t
    /\ latest' = IF t < secs1970 THEN 0 ELSE latest
    /\ UNCHANGED <<now, stored, net, c2, res, accepted, repeated, slack>>

Send(m) ==
    /\ Cardinality(net) < MaxMsgs
    /\ net' = net \cup {m}

(* The C2 sends a command about topics.                                    *)
C2Topic(b) ==
    /\ Send(Msg(ctrl, c2key, b, now))
    /\ UNCHANGED <<stored, now, secs1970, c2, res, history>>

(* The C2 replaces the client's id key: it sends the new key under the old *)
(* one and uses the new one from then on.                                  *)
C2Rotate(k) ==
    /\ k \notin issued
    /\ Send(Msg(ctrl, c2key, Body("SetIdKey", Zero, k), now))
    /\ c2key' = k
    /\ issued' = issued \cup {k}
    /\ UNCHANGED <<stored, now, secs1970, res, history>>

-----------------------------------------------------------------------------
(* The client.                                                             *)

(* The clock knows the date.                                               *)
Calibrated == secs1970 >= RealTime

HasTopic(t) == TopicHash(t) \in Names(topics)

(* The key for a topic: the table comes before the control topic.          *)
KeyFor(t) == IF HasTopic(t) THEN Mem!TopicKey(t) ELSE key

(* e4c_symkey_protect_message: the timestamp is the client's clock.        *)
Protect(t, b) ==
    /\ IF HasTopic(t) \/ Mem!IsDeviceCtrlTopic(t)
       THEN /\ Send(Msg(t, KeyFor(t), b, secs1970))
            /\ res' = E4_RESULT_OK
       ELSE /\ res' = E4_ERROR_TOPICKEY_MISSING
            /\ UNCHANGED net
    /\ UNCHANGED <<stored, now, secs1970, c2, history>>

(* A call with a NULL pointer, or with a buffer the result or the header   *)
(* does not fit in, returns before it does anything.                       *)
RefuseCall ==
    /\ res' \in {E4_ERROR_CIPHERTEXT_TOO_SHORT, E4_ERROR_PARAMETER_OVERFLOW,
                 E4_ERROR_PARAMETER_INVALID}
    /\ UNCHANGED <<stored, now, secs1970, net, c2, history>>

(* Without the lower end of the window.                                    *)
VerdictNoOld(m, ignore) ==
    CASE ~HasTopic(m.topic) /\ ~Mem!IsDeviceCtrlTopic(m.topic) -> E4_ERROR_TOPICKEY_MISSING
      [] m.key # KeyFor(m.topic) -> E4_ERROR_INVALID_TAG
      [] Calibrated /\ ~ignore /\ m.ts > secs1970 + E4C_TIME_FUTURE -> E4_ERROR_TIMESTAMP_IN_FUTURE
      [] OTHER -> E4_RESULT_OK

(* Without the check of the tag.                                           *)
VerdictNoTag(m, ignore) ==
    CASE ~HasTopic(m.topic) /\ ~Mem!IsDeviceCtrlTopic(m.topic) -> E4_ERROR_TOPICKEY_MISSING
      [] Calibrated /\ ~ignore /\ m.ts > secs1970 + E4C_TIME_FUTURE -> E4_ERROR_TIMESTAMP_IN_FUTURE
      [] Calibrated /\ ~ignore /\ m.ts + E4C_TIME_TOO_OLD < secs1970 -> E4_ERROR_TIMESTAMP_TOO_OLD
      [] OTHER -> E4_RESULT_OK

(* What unprotect_message finds before it looks at the plaintext.          *)
Verdict(m, ignore) ==
    CASE ~HasTopic(m.topic) /\ ~Mem!IsDeviceCtrlTopic(m.topic) -> E4_ERROR_TOPICKEY_MISSING
      [] m.key # KeyFor(m.topic) -> E4_ERROR_INVALID_TAG
      [] Calibrated /\ ~ignore /\ m.ts > secs1970 + E4C_TIME_FUTURE -> E4_ERROR_TIMESTAMP_IN_FUTURE
      [] Calibrated /\ ~ignore /\ m.ts + E4C_TIME_TOO_OLD < secs1970 -> E4_ERROR_TIMESTAMP_TOO_OLD
      [] OTHER -> E4_RESULT_OK


(* Taking every message for a control message.                             *)
IsControlAlways(t) == TRUE

(* The control flag: the topic is not in the table, so the verdict allows  *)
(* only the control topic.                                                 *)
IsControl(t) == ~HasTopic(t)

(* Setting the clock from every control message.                           *)
ClockAfterAlways(m) == IF HasRTC THEN secs1970 ELSE m.ts

(* A control message sets a clock that does not know the date; in a build  *)
(* with a clock the variable is local and the value is lost.               *)
ClockAfter(m) == IF HasRTC \/ Calibrated THEN secs1970 ELSE m.ts

(* The switch on the command code.                                         *)
Execute(b) ==
    \/ /\ b.cmd \in {"Data", "Malformed"}
       /\ res' = E4_ERROR_INVALID_COMMAND
       /\ UNCHANGED stored
    \/ /\ \/ /\ b.cmd = "RemoveTopic"
             /\ \E h \in Hashes :
                  /\ b.hash # Zero => h = b.hash  \* else bytes left in the buffer
                  /\ Mem!RemoveTopic(h)
          \/ b.cmd = "ResetTopics" /\ Mem!ResetTopics
          \/ b.cmd = "SetIdKey" /\ Mem!SetIdKey(b.key)
          \/ b.cmd = "SetTopicKey" /\ Mem!SetTopicKey(b.hash, b.key)
       /\ res' = IF ret' = E4_RESULT_OK THEN E4_RESULT_OK_CONTROL ELSE ret'

(* Bookkeeping for the properties, for calls that return success.  A       *)
(* command is dated by its timestamp when it was held against the window,  *)
(* or has just set the clock of an AVR build to a real date.               *)
Record(m, ignore) ==
    IF res' \notin {E4_RESULT_OK, E4_RESULT_OK_CONTROL}
    THEN UNCHANGED history
    ELSE /\ accepted' = accepted \cup {m}
         /\ repeated' = IF m \in accepted THEN repeated \cup {m} ELSE repeated
         /\ IF IsControl(m.topic) /\ ~ignore /\ (Calibrated \/ (~HasRTC /\ m.ts >= RealTime))
            THEN /\ latest' = IF m.ts > latest THEN m.ts ELSE latest
                 /\ slack' = IF latest - m.ts > slack THEN latest - m.ts ELSE slack
            ELSE UNCHANGED <<latest, slack>>

(* e4c_symkey_unprotect_message                                            *)
Unprotect(m, ignore) ==
    LET v == Verdict(m, ignore)
    IN  /\ UNCHANGED <<now, net, c2>>
        /\ \/ /\ v # E4_RESULT_OK
              /\ res' = v
              /\ UNCHANGED <<stored, secs1970, history>>
           \/ /\ v = E4_RESULT_OK
              /\ ~IsControl(m.topic)
              /\ res' = E4_RESULT_OK
              /\ Record(m, ignore)
              /\ UNCHANGED <<stored, secs1970>>
           \/ /\ v = E4_RESULT_OK
              /\ IsControl(m.topic)
              /\ secs1970' = ClockAfter(m)
              /\ Execute(m.body)
              /\ Record(m, ignore)

Step ==
    \/ Tick \/ ClockTick
    \/ \E t \in RTCDates : SetClock(t)
    \/ \E b \in TopicCommands : C2Topic(b)
    \/ \E k \in IdKeys : C2Rotate(k)
    \/ \E t \in Topics, b \in {Data} \cup Lookalikes : Protect(t, b)
    \/ Protect(ctrl, Data)
    \/ RefuseCall
    \/ \E m \in net, ignore \in Options : Unprotect(m, ignore)

Next == Step /\ UNCHANGED HasRTC

Spec == Init /\ [][Next]_vars

-----------------------------------------------------------------------------
(* Properties.                                                             *)

(* Every key in the topic table came from the C2 in a SetTopicKey command: *)
(* what applications send on ordinary topics is never executed, even when  *)
(* it reads like a command and the client has a key for the topic.         *)
KeysFromC2 ==
    \A i \in LiveSlots(topics) :
       \E m \in net : /\ m.topic = ctrl
                      /\ m.body = Body("SetTopicKey", topics.slot[i].name, topics.slot[i].key)

(* The chain of rotations does not break: for a client that is behind the  *)
(* C2 there is a rotation under the very key it has, not carried out yet,  *)
(* that no check of unprotect_message except the one of the timestamp      *)
(* refuses, whatever was delayed, repeated or reordered before and         *)
(* whatever rows the table has.                                            *)
(* It is no promise that the rotation arrives: the network may lose it,    *)
(* and one that is older than the window is refused for good unless the    *)
(* application ignores timestamps.                                         *)
RotationChain ==
    key # c2key =>
       \E m \in net \ accepted : /\ m.key = key
                                 /\ m.body.cmd = "SetIdKey"
                                 /\ Verdict(m, TRUE) = E4_RESULT_OK
                                 /\ IsControl(m.topic)

(* Although messages are accepted any number of times, a rotation is not:  *)
(* the new key is protected by the old one, which the first delivery       *)
(* removes.                                                                *)
RotationOnce == \A m \in repeated : m.body.cmd # "SetIdKey"

(* A command that arrives late can undo only commands sent shortly after   *)
(* it: as long as the clock is not set back, executed commands go back in  *)
(* time by at most the width of the window, on a clock that lags or leads  *)
(* and on one that is set by the messages.                                 *)
RollbackBounded == slack <= E4C_TIME_TOO_OLD + E4C_TIME_FUTURE

(* An AVR build's clock that was set once is never set back, by an old     *)
(* control message that is delivered again in particular.                  *)
ClockNeverBack ==
    [][~HasRTC /\ Calibrated => secs1970' >= secs1970]_vars

-----------------------------------------------------------------------------
(* Statements the code does not live up to.                                *)

(* No message is accepted twice.                                           *)
ReplayDefense == repeated = {}

=============================================================================

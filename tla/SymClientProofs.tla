-------------------------- MODULE SymClientProofs --------------------------
(***************************************************************************)
(* The symmetric client between its C2 and a network that loses, delays,   *)
(* repeats and reorders: where its keys come from, how it follows a chain  *)
(* of rotations, and how far back in time a command can take it.  For any  *)
(* number of messages, keys, topics and rotations, any table size, any     *)
(* window, both builds, and clocks that show any date and are set to any.  *)
(***************************************************************************)
EXTENDS SymClient, KeyTableProofs

(* What travels on the control topic.                                      *)
Commands == TopicCommands \cup {Data} \cup {Body("SetIdKey", Zero, k) : k \in IdKeys}

ClientType ==
    /\ HasRTC \in BOOLEAN
    /\ ctrltopic = TopicHash(ctrl)
    /\ topics \in Tables(E4_TOPICS_MAX, Entry)
    /\ {now, secs1970, latest, slack} \subseteq Nat
    /\ accepted \subseteq net

(* Commands come from the C2 on the control topic; on ordinary topics      *)
(* there is nothing but what applications send.                            *)
NetInv ==
    \A m \in net :
       /\ m.ts \in Nat
       /\ \/ m.topic = ctrl /\ m.body \in Commands
          \/ m.topic \in Topics /\ m.body \in {Data} \cup Lookalikes

(* The rotations that were sent.                                           *)
Rotations == {m \in net : m.topic = ctrl /\ m.body.cmd = "SetIdKey"}

(* The C2's keys form a chain: one rotation leads on from every key but    *)
(* the last, and no two lead to the same.                                  *)
C2Chain ==
    /\ c2key \in issued
    /\ issued \subseteq IdKeys
    /\ \A m \in Rotations : m.key \in issued \ {c2key} /\ m.body.key \in issued
    /\ \A m, n \in Rotations : m.key = n.key \/ m.body.key = n.body.key => m = n
    /\ \A k \in issued \ {c2key} : \E m \in Rotations : m.key = k

(* The client's place on the chain: the rotations behind it are the        *)
(* accepted ones, and no other leads to its key or to one behind it.       *)
Position ==
    /\ key \in issued
    /\ \A m \in Rotations \cap accepted : m.key # key
    /\ \A m \in Rotations \ accepted :
          /\ m.body.key # key
          /\ \A n \in Rotations \cap accepted : m.body.key # n.key

(* The latest command executed is not further ahead of the clock than the  *)
(* window allows, and a clock without the date has dated none.             *)
Dates ==
    /\ ~Calibrated => latest = 0
    /\ Calibrated => latest <= secs1970 + E4C_TIME_FUTURE

ClientInv ==
    ClientType /\ NetInv /\ KeysFromC2 /\ C2Chain /\ Position /\ RotationOnce
      /\ Dates /\ RollbackBounded

-----------------------------------------------------------------------------
(* The client reaches the store through an instance of SymMemStore; the    *)
(* operators of that instance are those the lemmas are about.  The scan:   *)
LEMMA MemScan ==
    ASSUME NEW t, NEW n
    PROVE  Mem!FirstSlot(t, n) = FirstSlot(t, n)
  BY DEF Mem!FirstSlot, FirstSlot, Mem!LiveSlots, LiveSlots

(* The write.                                                              *)
LEMMA MemPut ==
    ASSUME NEW t, NEW i, NEW n, NEW k
    PROVE  Mem!PutAt(t, i, n, k) = PutAt(t, i, n, k)
  BY DEF Mem!PutAt, PutAt

(* The removal.                                                            *)
LEMMA MemGap ==
    ASSUME NEW t, NEW i
    PROVE  Mem!CloseGap(t, i, t.count, Mem!ZeroEntry) = CloseGap(t, i, t.count, ZeroEntry)
  BY DEF Mem!CloseGap, CloseGap, Mem!ZeroEntry, ZeroEntry

(* The test for the control topic.                                         *)
LEMMA MemHash ==
    ASSUME NEW t
    PROVE  Mem!IsDeviceCtrlTopic(t) <=> ctrltopic = TopicHash(t)
  BY DEF Mem!IsDeviceCtrlTopic, Mem!TopicHash, TopicHash

(* The result of a call.                                                   *)
LEMMA MemOk == Mem!E4_RESULT_OK = E4_RESULT_OK
  BY DEF Mem!E4_RESULT_OK, E4_RESULT_OK

-----------------------------------------------------------------------------
(* Messages.                                                               *)

(* The arguments of a command.                                             *)
LEMMA CommandKinds ==
    ASSUME NEW b \in Commands
    PROVE  /\ b.cmd = "SetIdKey" => b.key \in IdKeys
           /\ b.cmd = "SetTopicKey" => /\ b = Body("SetTopicKey", b.hash, b.key)
                                       /\ b.hash \in OrdinaryHashes
                                       /\ b.key \in Keys
<1>1. \/ \E h \in OrdinaryHashes, k \in Keys : b = Body("SetTopicKey", h, k)
      \/ \E h \in OrdinaryHashes \cup {Zero} : b = Body("RemoveTopic", h, Zero)
      \/ b = Body("ResetTopics", Zero, Zero)
      \/ b = Body("Malformed", Zero, Zero)
      \/ b = Body("Data", Zero, Zero)
      \/ \E k \in IdKeys : b = Body("SetIdKey", Zero, k)
  BY DEF Commands, TopicCommands, Data
<1>2. ASSUME NEW h \in OrdinaryHashes, NEW k \in Keys, b = Body("SetTopicKey", h, k)
      PROVE  b.cmd = "SetTopicKey" /\ b.hash = h /\ b.key = k
  BY <1>2 DEF Body
<1>3. ASSUME NEW h, b = Body("RemoveTopic", h, Zero) PROVE b.cmd = "RemoveTopic"
  BY <1>3 DEF Body
<1>4. /\ b = Body("ResetTopics", Zero, Zero) => b.cmd = "ResetTopics"
      /\ b = Body("Malformed", Zero, Zero) => b.cmd = "Malformed"
      /\ b = Body("Data", Zero, Zero) => b.cmd = "Data"
  BY DEF Body
<1>5. ASSUME NEW k \in IdKeys, b = Body("SetIdKey", Zero, k)
      PROVE  b.cmd = "SetIdKey" /\ b.key = k
  BY <1>5 DEF Body
<1> QED
  BY <1>1, <1>2, <1>3, <1>4, <1>5

(* What applications send is no rotation, even when it reads like a        *)
(* command.                                                                *)
LEMMA PayloadKinds ==
    ASSUME NEW b \in {Data} \cup Lookalikes
    PROVE  b.cmd # "SetIdKey"
  BY DEF Data, Lookalikes, Body

(* Different topics have different hashes.                                 *)
LEMMA HashInjective ==
    ASSUME NEW s, NEW t, TopicHash(s) = TopicHash(t)
    PROVE  s = t
<1>1. TopicHash(s).topichash = s /\ TopicHash(t).topichash = t
  BY DEF TopicHash
<1> QED
  BY <1>1

(* No row of the table is that of the control topic, which the scan of     *)
(* unprotect_message would find first.                                     *)
LEMMA NoCtrlRow ==
    ASSUME NetInv, KeysFromC2
    PROVE  ~HasTopic(ctrl)
<1> SUFFICES ASSUME HasTopic(ctrl) PROVE FALSE
  OBVIOUS
<1>1. PICK i \in LiveSlots(topics) : topics.slot[i].name = TopicHash(ctrl)
  BY DEF HasTopic, Names
<1>2. PICK m \in net : /\ m.topic = ctrl
                       /\ m.body = Body("SetTopicKey", topics.slot[i].name, topics.slot[i].key)
  BY DEF KeysFromC2
<1>3. m.body \in Commands
  BY <1>2, TopicsAssumption DEF NetInv
<1>4. m.body.cmd = "SetTopicKey" /\ m.body.hash = TopicHash(ctrl)
  BY <1>1, <1>2 DEF Body
<1>5. TopicHash(ctrl) \in OrdinaryHashes
  BY <1>3, <1>4, CommandKinds
<1>6. PICK t \in Topics : TopicHash(ctrl) = TopicHash(t)
  BY <1>5 DEF OrdinaryHashes
<1> QED
  BY <1>6, HashInjective, TopicsAssumption

(* What a message has passed that unprotect_message takes.                 *)
LEMMA VerdictOk ==
    ASSUME NEW m, NEW ignore, Verdict(m, ignore) = E4_RESULT_OK
    PROVE  /\ HasTopic(m.topic) \/ ctrltopic = TopicHash(m.topic)
           /\ m.key = KeyFor(m.topic)
           /\ Calibrated /\ ~ignore => /\ ~(m.ts > secs1970 + E4C_TIME_FUTURE)
                                       /\ ~(m.ts + E4C_TIME_TOO_OLD < secs1970)
  BY MemHash DEF Verdict, E4_RESULT_OK, E4_ERROR_TOPICKEY_MISSING,
         E4_ERROR_INVALID_TAG, E4_ERROR_TIMESTAMP_IN_FUTURE, E4_ERROR_TIMESTAMP_TOO_OLD

(* A message is refused, taken for data, or carried out as a command.      *)
LEMMA UnprotectKinds ==
    ASSUME ClientInv, NEW m \in net, NEW ignore, Unprotect(m, ignore)
    PROVE  /\ UNCHANGED <<now, net, c2key, issued>>
           /\ \/ UNCHANGED <<ctrltopic, key, topics, secs1970, accepted, repeated, latest, slack>>
              \/ /\ m.topic # ctrl
                 /\ m.body.cmd # "SetIdKey"
                 /\ UNCHANGED <<ctrltopic, key, topics, secs1970, latest, slack>>
                 /\ accepted' = accepted \cup {m}
                 /\ repeated' \subseteq repeated \cup {m}
              \/ /\ m.topic = ctrl
                 /\ IsControl(m.topic)
                 /\ m.body \in Commands
                 /\ m.key = key
                 /\ Calibrated /\ ~ignore => /\ ~(m.ts > secs1970 + E4C_TIME_FUTURE)
                                             /\ ~(m.ts + E4C_TIME_TOO_OLD < secs1970)
                 /\ secs1970' = ClockAfter(m)
                 /\ Execute(m.body)
                 /\ Record(m, ignore)
<1>1. UNCHANGED <<now, net, c2key, issued>>
  BY DEF Unprotect, c2
<1>2. ~HasTopic(ctrl)
  BY NoCtrlRow DEF ClientInv
<1>3. CASE /\ Verdict(m, ignore) # E4_RESULT_OK
           /\ UNCHANGED <<stored, secs1970, history>>
  BY <1>1, <1>3 DEF stored, history
<1>4. CASE /\ Verdict(m, ignore) = E4_RESULT_OK
           /\ ~IsControl(m.topic)
           /\ res' = E4_RESULT_OK
           /\ Record(m, ignore)
           /\ UNCHANGED <<stored, secs1970>>
  <2>1. m.topic # ctrl
    BY <1>2, <1>4 DEF IsControl
  <2>2. m.body.cmd # "SetIdKey"
    BY <2>1, PayloadKinds DEF ClientInv, NetInv
  <2>3. /\ accepted' = accepted \cup {m}
        /\ repeated' \subseteq repeated \cup {m}
        /\ UNCHANGED <<latest, slack>>
    BY <1>4 DEF Record
  <2> QED
    BY <1>1, <1>4, <2>1, <2>2, <2>3 DEF stored
<1>5. CASE /\ Verdict(m, ignore) = E4_RESULT_OK
           /\ IsControl(m.topic)
           /\ secs1970' = ClockAfter(m)
           /\ Execute(m.body)
           /\ Record(m, ignore)
  <2>1. ctrltopic = TopicHash(m.topic) /\ ctrltopic = TopicHash(ctrl)
    BY <1>5, VerdictOk DEF IsControl, ClientInv, ClientType
  <2>2. m.topic = ctrl
    BY <2>1, HashInjective
  <2>3. m.key = key
    BY <1>2, <1>5, <2>2, VerdictOk DEF KeyFor
  <2>4. m.body \in Commands
    BY <2>2, TopicsAssumption DEF ClientInv, NetInv
  <2>5. Calibrated /\ ~ignore => /\ ~(m.ts > secs1970 + E4C_TIME_FUTURE)
                                 /\ ~(m.ts + E4C_TIME_TOO_OLD < secs1970)
    BY <1>5, VerdictOk
  <2> QED
    BY <1>1, <1>5, <2>2, <2>3, <2>4, <2>5
<1> QED
  BY <1>3, <1>4, <1>5 DEF Unprotect

(* What a command does: only SetIdKey changes the id key, and is accepted  *)
(* when it does; only SetTopicKey brings in a row, its own.                *)
LEMMA ExecuteKinds ==
    ASSUME ClientType, NEW b \in Commands, Execute(b)
    PROVE  /\ UNCHANGED ctrltopic
           /\ b.cmd = "SetIdKey" => key' = b.key /\ res' = E4_RESULT_OK_CONTROL
           /\ b.cmd # "SetIdKey" => key' = key
           /\ topics' \in Tables(E4_TOPICS_MAX, Entry)
           /\ \A j \in LiveSlots(topics') :
                 \/ \E l \in LiveSlots(topics) : topics'.slot[j] = topics.slot[l]
                 \/ /\ b.cmd = "SetTopicKey"
                    /\ topics'.slot[j] = [name |-> b.hash, key |-> b.key]
<1>0. topics \in Tables(E4_TOPICS_MAX, Entry) /\ E4_TOPICS_MAX \in Nat
  BY MaxAssumption DEF ClientType
<1>1. CASE b.cmd \in {"Data", "Malformed"} /\ UNCHANGED stored
  BY <1>0, <1>1 DEF stored
<1>2. ASSUME NEW h \in Hashes, b.cmd = "RemoveTopic", Mem!RemoveTopic(h)
      PROVE  /\ UNCHANGED <<ctrltopic, key>>
             /\ topics' \in Tables(E4_TOPICS_MAX, Entry)
             /\ \A j \in LiveSlots(topics') :
                   \E l \in LiveSlots(topics) : topics'.slot[j] = topics.slot[l]
  <2>1. UNCHANGED <<ctrltopic, key>>
    BY <1>2 DEF Mem!RemoveTopic
  <2>2. CASE FirstSlot(topics, h) < topics.count
    <3>1. topics' = CloseGap(topics, FirstSlot(topics, h), topics.count, ZeroEntry)
      BY <1>2, <2>2, MemScan, MemGap DEF Mem!RemoveTopic
    <3>2. ZeroEntry \in Entry
      BY DEF ZeroEntry, Entry
    <3> QED
      BY <1>0, <2>1, <2>2, <3>1, <3>2, GapRows
  <2>3. CASE ~(FirstSlot(topics, h) < topics.count)
    BY <1>0, <1>2, <2>1, <2>3, MemScan DEF Mem!RemoveTopic
  <2> QED
    BY <2>2, <2>3
<1>3. CASE b.cmd = "ResetTopics" /\ Mem!ResetTopics
  <2>1. UNCHANGED <<ctrltopic, key>> /\ topics' = [topics EXCEPT !.count = 0]
    BY <1>3 DEF Mem!ResetTopics
  <2>2. topics' \in Tables(E4_TOPICS_MAX, Entry) /\ topics'.count = 0
    BY <1>0, <2>1 DEF Tables
  <2>3. LiveSlots(topics') = {}
    BY <2>2 DEF LiveSlots
  <2> QED
    BY <1>3, <2>1, <2>2, <2>3
<1>4. CASE /\ b.cmd = "SetIdKey" /\ Mem!SetIdKey(b.key)
           /\ res' = IF ret' = E4_RESULT_OK THEN E4_RESULT_OK_CONTROL ELSE ret'
  BY <1>0, <1>4, MemOk DEF Mem!SetIdKey
<1>5. CASE b.cmd = "SetTopicKey" /\ Mem!SetTopicKey(b.hash, b.key)
  <2> DEFINE i == FirstSlot(topics, b.hash)
  <2>1. UNCHANGED <<ctrltopic, key>>
    BY <1>5 DEF Mem!SetTopicKey
  <2>2. CASE i >= E4_TOPICS_MAX
    BY <1>0, <1>5, <2>1, <2>2, MemScan DEF Mem!SetTopicKey
  <2>3. CASE ~(i >= E4_TOPICS_MAX)
    <3>1. topics' = PutAt(topics, i, b.hash, b.key)
      BY <1>5, <2>3, MemScan, MemPut DEF Mem!SetTopicKey
    <3>2. i \in 0 .. topics.count /\ topics.count \in Nat
      BY <1>0, ScanFirst DEF Tables
    <3>3. i < E4_TOPICS_MAX
      BY <1>0, <2>3, <3>2
    <3>4. b.hash \in Hashes /\ b.key \in Keys
      BY <1>5, CommandKinds DEF OrdinaryHashes, Hashes
    <3>5. [name |-> b.hash, key |-> b.key] \in Entry
      BY <3>4 DEF Entry
    <3>6. /\ topics' \in Tables(E4_TOPICS_MAX, Entry)
          /\ \A j \in LiveSlots(topics') :
                \/ topics'.slot[j] = [name |-> b.hash, key |-> b.key]
                \/ \E l \in LiveSlots(topics) : topics'.slot[j] = topics.slot[l]
      BY <1>0, <3>1, <3>3, <3>5, PutRows
    <3> QED
      BY <1>5, <2>1, <3>6
  <2> QED
    BY <2>2, <2>3
<1> QED
  BY <1>1, <1>2, <1>3, <1>4, <1>5 DEF Execute

-----------------------------------------------------------------------------
(* The steps, by what they do to the invariant.                            *)

(* Nothing happens to the client's store, nor to what it has accepted.     *)
StoreStays == UNCHANGED <<ctrltopic, key, topics, accepted, repeated, slack>>

ClientStays == StoreStays /\ UNCHANGED latest

(* A message that is not a rotation is sent.                               *)
Sends(m) ==
    /\ net' = net \cup {m}
    /\ m.ts \in Nat
    /\ \/ m.topic = ctrl /\ m.body \in Commands /\ m.body.cmd # "SetIdKey"
       \/ m.topic \in Topics /\ m.body \in {Data} \cup Lookalikes
    /\ ClientStays /\ UNCHANGED <<now, secs1970, c2key, issued>>

(* The C2 moves on to key k.                                               *)
Rotates(k) ==
    /\ k \in IdKeys \ issued
    /\ net' = net \cup {Msg(ctrl, c2key, Body("SetIdKey", Zero, k), now)}
    /\ c2key' = k
    /\ issued' = issued \cup {k}
    /\ ClientStays /\ UNCHANGED <<now, secs1970>>

(* One of the clocks moves on, or the client's is set.                     *)
Ticks ==
    /\ UNCHANGED <<net, c2key, issued>>
    /\ \/ now' = now + 1 /\ UNCHANGED secs1970 /\ ClientStays
       \/ secs1970' = secs1970 + 1 /\ UNCHANGED now /\ ClientStays
       \/ /\ HasRTC /\ secs1970' \in Nat /\ UNCHANGED now /\ StoreStays
          /\ latest' = IF secs1970' < secs1970 THEN 0 ELSE latest

(* Every step is one of a clock, a message, a rotation, a call without     *)
(* effect on the invariant, or a delivery.                                 *)
LEMMA StepKinds ==
    ASSUME ClientInv, [Next]_vars
    PROVE  /\ UNCHANGED HasRTC
           /\ \/ Ticks
              \/ \E m : Sends(m)
              \/ \E k : Rotates(k)
              \/ ClientStays /\ UNCHANGED <<now, secs1970, net, c2key, issued>>
              \/ \E m \in net, ignore \in Options : Unprotect(m, ignore)
<1>0. /\ HasRTC \in BOOLEAN /\ now \in Nat /\ secs1970 \in Nat
  BY DEF ClientInv, ClientType
<1>1. UNCHANGED HasRTC
  BY DEF Next, vars
<1>2. RTCDates \subseteq Nat
  BY TimeAssumption
<1>3. CASE Tick \/ ClockTick \/ \E t \in RTCDates : SetClock(t)
  BY <1>1, <1>2, <1>3 DEF Tick, ClockTick, SetClock, Ticks, ClientStays, StoreStays, stored, c2, history
<1>4. ASSUME NEW b \in TopicCommands, C2Topic(b) PROVE \E m : Sends(m)
  <2> DEFINE m == Msg(ctrl, c2key, b, now)
  <2>1. m.topic = ctrl /\ m.ts = now /\ m.body = b
    BY DEF Msg
  <2>2. b \in Commands /\ b.cmd # "SetIdKey"
    BY DEF Commands, TopicCommands, Body
  <2>3. net' = net \cup {m} /\ ClientStays /\ UNCHANGED <<now, secs1970, c2key, issued>>
    BY <1>4 DEF C2Topic, Send, ClientStays, StoreStays, stored, c2, history
  <2> HIDE DEF m
  <2>4. Sends(m)
    BY <1>0, <2>1, <2>2, <2>3 DEF Sends
  <2> QED
    BY <2>4
<1>5. ASSUME NEW k \in IdKeys, C2Rotate(k) PROVE Rotates(k)
  BY <1>5 DEF C2Rotate, Rotates, Send, ClientStays, StoreStays, stored, history
<1>6. ASSUME NEW t \in Topics \cup {ctrl}, NEW b \in {Data} \cup Lookalikes,
             t = ctrl => b = Data, Protect(t, b)
      PROVE  \/ \E m : Sends(m)
             \/ ClientStays /\ UNCHANGED <<now, secs1970, net, c2key, issued>>
  <2> DEFINE m == Msg(t, KeyFor(t), b, secs1970)
  <2>1. m.topic = t /\ m.ts = secs1970 /\ m.body = b
    BY DEF Msg
  <2>2. Data \in Commands /\ Data.cmd # "SetIdKey"
    BY DEF Commands, Data, Body
  <2>3. /\ ClientStays /\ UNCHANGED <<now, secs1970, c2key, issued>>
        /\ net' = net \/ net' = net \cup {m}
    BY <1>6 DEF Protect, Send, ClientStays, StoreStays, stored, c2, history
  <2> HIDE DEF m
  <2>4. net' = net \cup {m} => Sends(m)
    BY <1>0, <1>6, <2>1, <2>2, <2>3 DEF Sends
  <2> QED
    BY <2>3, <2>4
<1>7. CASE RefuseCall
  BY <1>1, <1>7 DEF RefuseCall, ClientStays, StoreStays, stored, c2, history
<1>8. CASE UNCHANGED vars
  BY <1>1, <1>8 DEF vars, ClientStays, StoreStays, stored, c2, history
<1>9. CASE \E t \in Topics, b \in {Data} \cup Lookalikes : Protect(t, b)
  <2>1. PICK t \in Topics, b \in {Data} \cup Lookalikes : Protect(t, b)
    BY <1>9
  <2>2. \/ \E m : Sends(m)
        \/ ClientStays /\ UNCHANGED <<now, secs1970, net, c2key, issued>>
    BY <1>6, <2>1, TopicsAssumption
  <2> QED
    BY <1>1, <2>2
<1>10. CASE Protect(ctrl, Data)
  BY <1>1, <1>6, <1>10
<1>11. CASE \E m \in net, ignore \in Options : Unprotect(m, ignore)
  BY <1>1, <1>11
<1>12. CASE (\E b \in TopicCommands : C2Topic(b)) \/ (\E k \in IdKeys : C2Rotate(k))
  BY <1>1, <1>4, <1>5, <1>12
<1> QED
  BY <1>3, <1>7, <1>8, <1>9, <1>10, <1>11, <1>12 DEF Next, Step

(* The rotations after a message is sent that is none.                     *)
LEMMA SameRotations ==
    ASSUME NEW m, Sends(m)
    PROVE  Rotations' = Rotations
<1>1. ~(m.topic = ctrl /\ m.body.cmd = "SetIdKey")
  BY PayloadKinds DEF Sends
<1> QED
  BY <1>1 DEF Rotations, Sends

-----------------------------------------------------------------------------
(* Types, messages and the table.                                          *)

(* What the bookkeeping of a command adds to the histories.                *)
LEMMA RecordKinds ==
    ASSUME ClientInv, NEW m \in net, NEW ignore, IsControl(m.topic), Record(m, ignore)
    PROVE  /\ \/ UNCHANGED <<accepted, repeated>> /\ res' # E4_RESULT_OK_CONTROL
              \/ /\ accepted' = accepted \cup {m}
                 /\ repeated' = IF m \in accepted THEN repeated \cup {m} ELSE repeated
           /\ \/ UNCHANGED <<latest, slack>>
              \/ /\ ~ignore /\ (Calibrated \/ (~HasRTC /\ m.ts >= RealTime))
                 /\ latest' = IF m.ts > latest THEN m.ts ELSE latest
                 /\ slack' = IF latest - m.ts > slack THEN latest - m.ts ELSE slack
  BY DEF Record, history

(* Types are kept.                                                         *)
LEMMA TypeNext ==
    ASSUME ClientInv, [Next]_vars
    PROVE  ClientType'
<1>0. /\ ClientType /\ UNCHANGED HasRTC
      /\ {now, secs1970, latest, slack} \subseteq Nat
      /\ accepted \subseteq net
  BY StepKinds DEF ClientInv, ClientType
<1>1. CASE Ticks
  <2>1. now' \in Nat /\ secs1970' \in Nat
    BY <1>0, <1>1 DEF Ticks
  <2>2. latest' \in Nat /\ StoreStays /\ UNCHANGED net
    BY <1>0, <1>1 DEF Ticks, ClientStays
  <2> QED
    BY <1>0, <2>1, <2>2 DEF ClientType, StoreStays
<1>2. ASSUME NEW m, Sends(m) PROVE ClientType'
  BY <1>0, <1>2 DEF ClientType, Sends, ClientStays, StoreStays
<1>3. ASSUME NEW k, Rotates(k) PROVE ClientType'
  BY <1>0, <1>3 DEF ClientType, Rotates, ClientStays, StoreStays
<1>4. CASE ClientStays /\ UNCHANGED <<now, secs1970, net, c2key, issued>>
  BY <1>0, <1>4 DEF ClientType, ClientStays, StoreStays
<1>5. ASSUME NEW m \in net, NEW ignore \in Options, Unprotect(m, ignore) PROVE ClientType'
  <2>0. m.ts \in Nat
    BY DEF ClientInv, NetInv
  <2>1. UNCHANGED <<now, net>>
    BY <1>5, UnprotectKinds
  <2>2. CASE UNCHANGED <<ctrltopic, topics, secs1970, accepted, latest, slack>>
    BY <1>0, <2>1, <2>2 DEF ClientType
  <2>3. CASE /\ UNCHANGED <<ctrltopic, topics, secs1970, latest, slack>>
             /\ accepted' = accepted \cup {m}
    BY <1>0, <2>1, <2>3 DEF ClientType
  <2>4. CASE /\ IsControl(m.topic) /\ m.body \in Commands
             /\ secs1970' = ClockAfter(m)
             /\ Execute(m.body)
             /\ Record(m, ignore)
    <3>1. UNCHANGED ctrltopic /\ topics' \in Tables(E4_TOPICS_MAX, Entry)
      BY <1>0, <2>4, ExecuteKinds
    <3>2. secs1970' \in Nat
      BY <1>0, <2>0, <2>4 DEF ClockAfter
    <3>3. accepted' \subseteq net
      BY <1>0, <2>4, RecordKinds
    <3>4. latest' \in Nat /\ slack' \in Nat
      <4>1. latest' = latest \/ latest' = m.ts
        BY <2>4, RecordKinds
      <4>2. slack' = slack \/ (slack' = latest - m.ts /\ latest - m.ts > slack)
        BY <2>4, RecordKinds
      <4> QED
        BY <1>0, <2>0, <4>1, <4>2
    <3> QED
      BY <1>0, <2>1, <3>1, <3>2, <3>3, <3>4 DEF ClientType
  <2> QED
    BY <1>5, <2>2, <2>3, <2>4, UnprotectKinds
<1> QED
  BY <1>1, <1>2, <1>3, <1>4, <1>5, StepKinds

(* Only the C2's commands travel on the control topic.                     *)
LEMMA NetNext ==
    ASSUME ClientInv, [Next]_vars
    PROVE  NetInv'
<1>0. NetInv /\ now \in Nat
  BY DEF ClientInv, ClientType
<1>1. CASE UNCHANGED net
  BY <1>0, <1>1 DEF NetInv
<1>2. ASSUME NEW m, Sends(m) PROVE NetInv'
  <2>1. \A n \in net' : n \in net \/ n = m
    BY <1>2 DEF Sends
  <2> QED
    BY <1>0, <1>2, <2>1 DEF NetInv, Sends
<1>3. ASSUME NEW k, Rotates(k) PROVE NetInv'
  <2> DEFINE m == Msg(ctrl, c2key, Body("SetIdKey", Zero, k), now)
  <2>1. m.topic = ctrl /\ m.ts = now /\ m.body = Body("SetIdKey", Zero, k)
    BY DEF Msg
  <2>2. m.body \in Commands
    BY <1>3, <2>1 DEF Commands, Rotates
  <2>3. net' = net \cup {m}
    BY <1>3 DEF Rotates
  <2> HIDE DEF m
  <2> QED
    BY <1>0, <2>1, <2>2, <2>3 DEF NetInv
<1> QED
  BY <1>1, <1>2, <1>3, StepKinds, UnprotectKinds DEF Ticks

(* A row of the table stays one that the C2 sent.                          *)
LEMMA KeysNext ==
    ASSUME ClientInv, [Next]_vars
    PROVE  KeysFromC2'
<1>0. KeysFromC2
  BY DEF ClientInv
<1>1. CASE net \subseteq net' /\ UNCHANGED topics
  BY <1>0, <1>1 DEF KeysFromC2
<1>2. (\E m : Sends(m)) \/ (\E k : Rotates(k)) => net \subseteq net' /\ UNCHANGED topics
  BY DEF Sends, Rotates, ClientStays, StoreStays
<1>3. ASSUME NEW m \in net, NEW ignore \in Options, Unprotect(m, ignore), topics' # topics
      PROVE  KeysFromC2'
  <2>1. /\ m.topic = ctrl /\ m.body \in Commands /\ Execute(m.body) /\ net' = net
    BY <1>3, UnprotectKinds
  <2> SUFFICES ASSUME NEW j \in LiveSlots(topics')
               PROVE  \E n \in net : /\ n.topic = ctrl
                                     /\ n.body = Body("SetTopicKey", topics'.slot[j].name,
                                                                     topics'.slot[j].key)
    BY <2>1 DEF KeysFromC2
  <2>2. \/ \E l \in LiveSlots(topics) : topics'.slot[j] = topics.slot[l]
        \/ /\ m.body.cmd = "SetTopicKey"
           /\ topics'.slot[j] = [name |-> m.body.hash, key |-> m.body.key]
    BY <2>1, ExecuteKinds DEF ClientInv
  <2>3. CASE \E l \in LiveSlots(topics) : topics'.slot[j] = topics.slot[l]
    <3>1. PICK l \in LiveSlots(topics) : topics'.slot[j] = topics.slot[l]
      BY <2>3
    <3> QED
      BY <1>0, <3>1 DEF KeysFromC2
  <2>4. CASE /\ m.body.cmd = "SetTopicKey"
             /\ topics'.slot[j] = [name |-> m.body.hash, key |-> m.body.key]
    <3>1. topics'.slot[j].name = m.body.hash /\ topics'.slot[j].key = m.body.key
      BY <2>4
    <3>2. m.body = Body("SetTopicKey", m.body.hash, m.body.key)
      BY <2>1, <2>4, CommandKinds
    <3> QED
      BY <2>1, <3>1, <3>2
  <2> QED
    BY <2>2, <2>3, <2>4
<1>4. ASSUME NEW m \in net, NEW ignore \in Options, Unprotect(m, ignore)
      PROVE  net \subseteq net'
  BY <1>4, UnprotectKinds
<1> QED
  BY <1>1, <1>2, <1>3, <1>4, StepKinds DEF Ticks, ClientStays, StoreStays

-----------------------------------------------------------------------------
(* The chain of id keys.                                                   *)

(* The message of a rotation, and the rotations after it.                  *)
LEMMA RotatesKinds ==
    ASSUME ClientInv, NEW k, Rotates(k)
    PROVE  \E r : /\ r.topic = ctrl /\ r.body.cmd = "SetIdKey"
                  /\ r.key = c2key /\ r.body.key = k
                  /\ Rotations' = Rotations \cup {r}
                  /\ r \notin Rotations
<1> DEFINE r == Msg(ctrl, c2key, Body("SetIdKey", Zero, k), now)
<1>1. /\ r.topic = ctrl /\ r.body.cmd = "SetIdKey"
      /\ r.key = c2key /\ r.body.key = k
  BY DEF Msg, Body
<1>2. net' = net \cup {r}
  BY DEF Rotates
<1> HIDE DEF r
<1>3. Rotations' = Rotations \cup {r}
  BY <1>1, <1>2 DEF Rotations
<1>4. r \notin Rotations
  BY <1>1 DEF Rotates, ClientInv, C2Chain
<1> QED
  BY <1>1, <1>3, <1>4

(* A delivery leaves the C2 and the rotations alone.                       *)
LEMMA RotationsStay ==
    ASSUME net' = net
    PROVE  Rotations' = Rotations
  BY DEF Rotations

(* The C2's keys stay a chain: a rotation starts from the last key and     *)
(* leads to one that was never used.                                       *)
LEMMA ChainNext ==
    ASSUME ClientInv, [Next]_vars
    PROVE  C2Chain'
<1>0. C2Chain
  BY DEF ClientInv
<1>1. CASE Rotations' = Rotations /\ UNCHANGED <<c2key, issued>>
  BY <1>0, <1>1 DEF C2Chain
<1>2. ASSUME NEW k, Rotates(k) PROVE C2Chain'
  <2>1. PICK r : /\ r.topic = ctrl /\ r.body.cmd = "SetIdKey"
                 /\ r.key = c2key /\ r.body.key = k
                 /\ Rotations' = Rotations \cup {r}
                 /\ r \notin Rotations
    BY <1>2, RotatesKinds
  <2>2. k \in IdKeys \ issued /\ c2key' = k /\ issued' = issued \cup {k}
    BY <1>2 DEF Rotates
  <2>3. c2key' \in issued' /\ issued' \subseteq IdKeys
    BY <1>0, <2>2 DEF C2Chain
  <2>4. \A m \in Rotations' : m.key \in issued' \ {c2key'} /\ m.body.key \in issued'
    BY <1>0, <2>1, <2>2 DEF C2Chain
  <2>5. \A m, n \in Rotations' : m.key = n.key \/ m.body.key = n.body.key => m = n
    BY <1>0, <2>1, <2>2 DEF C2Chain
  <2>6. \A j \in issued' \ {c2key'} : \E m \in Rotations' : m.key = j
    BY <1>0, <2>1, <2>2 DEF C2Chain
  <2> QED
    BY <2>3, <2>4, <2>5, <2>6 DEF C2Chain
<1>3. ASSUME NEW m, Sends(m) PROVE Rotations' = Rotations /\ UNCHANGED <<c2key, issued>>
  BY <1>3, SameRotations DEF Sends
<1>4. ASSUME NEW m \in net, NEW ignore \in Options, Unprotect(m, ignore)
      PROVE  Rotations' = Rotations /\ UNCHANGED <<c2key, issued>>
  BY <1>4, UnprotectKinds, RotationsStay
<1> QED
  BY <1>1, <1>2, <1>3, <1>4, StepKinds, RotationsStay DEF Ticks

(* The client stays on the chain: a rotation it carries out is the next    *)
(* one, never one it has carried out before.                               *)
LEMMA PositionNext ==
    ASSUME ClientInv, [Next]_vars
    PROVE  Position' /\ RotationOnce'
<1>0. C2Chain /\ Position /\ RotationOnce /\ accepted \subseteq net
  BY DEF ClientInv, ClientType
<1>1. CASE /\ Rotations' = Rotations /\ UNCHANGED <<issued, key, repeated>>
           /\ Rotations \cap accepted' = Rotations \cap accepted
  <2>1. Rotations \ accepted' = Rotations \ accepted
    BY <1>1
  <2> QED
    BY <1>0, <1>1, <2>1 DEF Position, RotationOnce
<1>2. ASSUME NEW k, Rotates(k) PROVE Position' /\ RotationOnce'
  <2>1. PICK r : /\ r.topic = ctrl /\ r.body.cmd = "SetIdKey"
                 /\ r.key = c2key /\ r.body.key = k
                 /\ Rotations' = Rotations \cup {r}
                 /\ r \notin Rotations
    BY <1>2, RotatesKinds
  <2>2. k \notin issued /\ issued' = issued \cup {k} /\ UNCHANGED <<key, accepted, repeated>>
    BY <1>2 DEF Rotates, ClientStays, StoreStays
  <2>3. r \notin accepted
    BY <1>0, <2>1 DEF Rotations
  <2>4. /\ Rotations' \cap accepted' = Rotations \cap accepted
        /\ Rotations' \ accepted' = (Rotations \ accepted) \cup {r}
    BY <2>1, <2>2, <2>3
  <2>5. key' \in issued' /\ \A m \in Rotations' \cap accepted' : m.key # key'
    BY <1>0, <2>2, <2>4 DEF Position
  <2>6. ASSUME NEW m \in Rotations' \ accepted'
        PROVE  m.body.key # key' /\ \A n \in Rotations' \cap accepted' : m.body.key # n.key
    <3>1. CASE m \in Rotations \ accepted
      BY <1>0, <2>2, <2>4, <3>1 DEF Position
    <3>2. CASE m = r
      BY <1>0, <2>1, <2>2, <2>4, <3>2 DEF Position, C2Chain
    <3> QED
      BY <2>4, <3>1, <3>2
  <2> QED
    BY <1>0, <2>2, <2>5, <2>6 DEF Position, RotationOnce
<1>3. ASSUME NEW m \in net, NEW ignore \in Options, Unprotect(m, ignore)
      PROVE  Position' /\ RotationOnce'
  <2>0. Rotations' = Rotations /\ UNCHANGED issued
    BY <1>3, UnprotectKinds, RotationsStay
  <2>1. CASE UNCHANGED <<key, accepted, repeated>>
    BY <1>1, <2>0, <2>1
  <2>2. CASE /\ m.body.cmd # "SetIdKey" /\ key' = key
             /\ accepted' \subseteq accepted \cup {m} /\ accepted \subseteq accepted'
             /\ repeated' \subseteq repeated \cup {m}
    <3>1. m \notin Rotations
      BY <2>2 DEF Rotations
    <3>2. Rotations \cap accepted' = Rotations \cap accepted
      BY <2>2, <3>1
    <3>3. Rotations \ accepted' = Rotations \ accepted
      BY <3>2
    <3>4. Position'
      BY <1>0, <2>0, <2>2, <3>2, <3>3 DEF Position
    <3>5. RotationOnce'
      BY <1>0, <2>2 DEF RotationOnce
    <3> QED
      BY <3>4, <3>5
  <2>3. CASE /\ m.body.cmd = "SetIdKey" /\ m.topic = ctrl /\ m.key = key
             /\ key' = m.body.key
             /\ accepted' = accepted \cup {m}
             /\ repeated' = IF m \in accepted THEN repeated \cup {m} ELSE repeated
    <3>1. m \in Rotations
      BY <2>3 DEF Rotations
    <3>2. m \notin accepted
      BY <1>0, <2>3, <3>1 DEF Position
    <3>3. /\ Rotations \cap accepted' = (Rotations \cap accepted) \cup {m}
          /\ Rotations \ accepted' = (Rotations \ accepted) \ {m}
      BY <2>3, <3>1
    <3>4. key' \in issued'
      BY <1>0, <2>0, <2>3, <3>1 DEF C2Chain
    <3>5. \A n \in Rotations \cap accepted' : n.key # key'
      BY <1>0, <2>3, <3>1, <3>2, <3>3 DEF Position
    <3>6. ASSUME NEW n \in Rotations \ accepted'
          PROVE  /\ n.body.key # key'
                 /\ \A a \in Rotations \cap accepted' : n.body.key # a.key
      <4>1. n \in Rotations \ accepted /\ n # m
        BY <3>3
      <4>2. n.body.key # key'
        BY <1>0, <2>3, <3>1, <4>1 DEF C2Chain
      <4>3. n.body.key # m.key
        BY <1>0, <2>3, <4>1 DEF Position
      <4> QED
        BY <1>0, <3>3, <4>1, <4>2, <4>3 DEF Position
    <3> QED
      BY <1>0, <2>0, <2>3, <3>2, <3>4, <3>5, <3>6 DEF Position, RotationOnce
  <2>4. CASE /\ m.topic = ctrl /\ IsControl(m.topic) /\ m.body \in Commands /\ m.key = key
             /\ Execute(m.body) /\ Record(m, ignore)
    <3>1. /\ m.body.cmd = "SetIdKey" => key' = m.body.key /\ res' = E4_RESULT_OK_CONTROL
          /\ m.body.cmd # "SetIdKey" => key' = key
      BY <2>4, ExecuteKinds DEF ClientInv
    <3>2. \/ UNCHANGED <<accepted, repeated>> /\ res' # E4_RESULT_OK_CONTROL
          \/ /\ accepted' = accepted \cup {m}
             /\ repeated' = IF m \in accepted THEN repeated \cup {m} ELSE repeated
      BY <2>4, RecordKinds
    <3>3. CASE m.body.cmd = "SetIdKey"
      BY <2>3, <2>4, <3>1, <3>2, <3>3
    <3>4. CASE m.body.cmd # "SetIdKey"
      BY <2>2, <3>1, <3>2, <3>4
    <3> QED
      BY <3>3, <3>4
  <2> QED
    BY <1>3, <2>1, <2>2, <2>4, UnprotectKinds
<1>4. ASSUME NEW m, Sends(m) PROVE Position' /\ RotationOnce'
  BY <1>1, <1>4, SameRotations DEF Sends, ClientStays, StoreStays
<1>5. CASE ClientStays /\ UNCHANGED <<net, issued>>
  BY <1>1, <1>5, RotationsStay DEF ClientStays, StoreStays
<1>6. CASE Ticks
  BY <1>1, <1>6, RotationsStay DEF Ticks, ClientStays, StoreStays
<1> QED
  BY <1>2, <1>3, <1>4, <1>5, <1>6, StepKinds

-----------------------------------------------------------------------------
(* Time.                                                                   *)

(* The numbers the proofs below reason about.                              *)
LEMMA Numbers ==
    ASSUME ClientInv
    PROVE  /\ secs1970 \in Nat /\ latest \in Nat /\ slack \in Nat
           /\ RealTime \in Nat /\ E4C_TIME_FUTURE \in Nat /\ E4C_TIME_TOO_OLD \in Nat
  BY TimeAssumption DEF ClientInv, ClientType

(* A control message sets the clock of an AVR build if it does not know    *)
(* the date, and no other.                                                 *)
LEMMA ClockKinds ==
    ASSUME NEW m, secs1970' = ClockAfter(m)
    PROVE  /\ HasRTC \/ Calibrated => secs1970' = secs1970
           /\ ~HasRTC /\ ~Calibrated => secs1970' = m.ts
  BY DEF ClockAfter

(* A clock that moves on, or is set and forgets what it has dated.         *)
LEMMA DatesTick ==
    ASSUME ClientInv, Ticks
    PROVE  Dates' /\ RollbackBounded'
<1>0. Dates /\ RollbackBounded
  BY DEF ClientInv
<1>1. RollbackBounded'
  BY <1>0 DEF Ticks, ClientStays, StoreStays, RollbackBounded
<1>2. CASE UNCHANGED <<secs1970, latest>>
  BY <1>0, <1>1, <1>2 DEF Dates, Calibrated
<1>3. CASE secs1970' \in Nat /\ secs1970' >= secs1970 /\ UNCHANGED latest
  BY <1>0, <1>1, <1>3, Numbers DEF Dates, Calibrated
<1>4. CASE secs1970' \in Nat /\ latest' = 0
  <2>1. latest' <= secs1970' + E4C_TIME_FUTURE
    BY <1>4, Numbers
  <2> QED
    BY <1>1, <1>4, <2>1 DEF Dates
<1>5. CASE secs1970' = secs1970 + 1 /\ UNCHANGED latest
  <2>1. secs1970' \in Nat /\ secs1970' >= secs1970
    BY <1>5, Numbers
  <2> QED
    BY <1>3, <1>5, <2>1
<1>6. CASE /\ secs1970' \in Nat
           /\ latest' = IF secs1970' < secs1970 THEN 0 ELSE latest
  <2>1. secs1970' < secs1970 \/ secs1970' >= secs1970
    BY <1>6, Numbers
  <2>2. CASE secs1970' < secs1970
    BY <1>4, <1>6, <2>2
  <2>3. CASE secs1970' >= secs1970 /\ ~(secs1970' < secs1970)
    BY <1>3, <1>6, <2>3
  <2>4. secs1970' >= secs1970 => ~(secs1970' < secs1970)
    BY <1>6, Numbers
  <2> QED
    BY <2>1, <2>2, <2>3, <2>4
<1> QED
  BY <1>1, <1>2, <1>5, <1>6 DEF Ticks, ClientStays

(* A command is at most as far behind the latest as the window is wide.    *)
LEMMA DatesNext ==
    ASSUME ClientInv, [Next]_vars
    PROVE  Dates' /\ RollbackBounded'
<1>0. Dates /\ slack <= E4C_TIME_TOO_OLD + E4C_TIME_FUTURE
  BY DEF ClientInv, RollbackBounded
<1>1. CASE UNCHANGED <<secs1970, latest, slack>>
  BY <1>0, <1>1 DEF Dates, Calibrated, RollbackBounded
<1>2. ASSUME NEW m \in net, NEW ignore \in Options, Unprotect(m, ignore)
      PROVE  Dates' /\ RollbackBounded'
  <2>0. m.ts \in Nat
    BY DEF ClientInv, NetInv
  <2>1. CASE /\ IsControl(m.topic)
             /\ Calibrated /\ ~ignore => /\ ~(m.ts > secs1970 + E4C_TIME_FUTURE)
                                         /\ ~(m.ts + E4C_TIME_TOO_OLD < secs1970)
             /\ secs1970' = ClockAfter(m)
             /\ Record(m, ignore)
    <3>1. /\ HasRTC \/ Calibrated => secs1970' = secs1970
          /\ ~HasRTC /\ ~Calibrated => secs1970' = m.ts
      BY <2>1, ClockKinds
    <3>2. \/ UNCHANGED <<latest, slack>>
          \/ /\ ~ignore /\ (Calibrated \/ (~HasRTC /\ m.ts >= RealTime))
             /\ latest' = IF m.ts > latest THEN m.ts ELSE latest
             /\ slack' = IF latest - m.ts > slack THEN latest - m.ts ELSE slack
      BY <2>1, RecordKinds
    <3>3. CASE Calibrated
      <4>1. latest <= secs1970 + E4C_TIME_FUTURE /\ UNCHANGED secs1970
        BY <1>0, <3>1, <3>3 DEF Dates
      <4>2. ~ignore => /\ m.ts <= secs1970 + E4C_TIME_FUTURE
                       /\ secs1970 <= m.ts + E4C_TIME_TOO_OLD
        BY <2>0, <2>1, <3>3, Numbers
      <4>3. latest' <= secs1970 + E4C_TIME_FUTURE
        BY <3>2, <4>1, <4>2
      <4>4. slack' <= E4C_TIME_TOO_OLD + E4C_TIME_FUTURE
        <5>1. CASE UNCHANGED slack
          BY <1>0, <5>1
        <5>2. CASE ~ignore /\ slack' = latest - m.ts
          BY <2>0, <4>1, <4>2, <5>2, Numbers
        <5> QED
          BY <3>2, <5>1, <5>2
      <4> QED
        BY <3>3, <4>1, <4>3, <4>4 DEF Dates, Calibrated, RollbackBounded
    <3>4. CASE ~Calibrated
      <4>1. latest = 0
        BY <1>0, <3>4 DEF Dates
      <4>2. ~(latest - m.ts > slack)
        BY <2>0, <4>1, Numbers
      <4>3. RollbackBounded'
        BY <1>0, <3>2, <4>2 DEF RollbackBounded
      <4>4. CASE UNCHANGED latest
        <5>1. secs1970' \in Nat
          BY <2>0, <3>1, <3>4, Numbers
        <5>2. latest' <= secs1970' + E4C_TIME_FUTURE
          BY <4>1, <4>4, <5>1, Numbers
        <5> QED
          BY <4>1, <4>3, <4>4, <5>2 DEF Dates
      <4>5. CASE ~HasRTC /\ latest' = m.ts /\ m.ts >= RealTime
        <5>1. secs1970' = m.ts
          BY <3>1, <3>4, <4>5
        <5>2. latest' <= secs1970' + E4C_TIME_FUTURE /\ secs1970' >= RealTime
          BY <2>0, <4>5, <5>1, Numbers
        <5> QED
          BY <4>3, <5>2 DEF Dates, Calibrated
      <4> QED
        BY <3>2, <3>4, <4>4, <4>5
    <3> QED
      BY <3>3, <3>4
  <2> QED
    BY <1>1, <1>2, <2>1, UnprotectKinds
<1>3. (\E m : Sends(m)) \/ (\E k : Rotates(k)) => UNCHANGED <<secs1970, latest, slack>>
  BY DEF Sends, Rotates, ClientStays, StoreStays
<1> QED
  BY <1>1, <1>2, <1>3, StepKinds, DatesTick DEF ClientStays, StoreStays

(* No step sets back an AVR build's clock that knows the date.             *)
LEMMA ClockNext ==
    ASSUME ClientInv, [Next]_vars, ~HasRTC, Calibrated
    PROVE  secs1970' >= secs1970
<1>0. secs1970 \in Nat
  BY Numbers
<1>1. CASE secs1970' = secs1970
  BY <1>0, <1>1
<1>2. CASE secs1970' = secs1970 + 1
  BY <1>0, <1>2
<1>3. ASSUME NEW m \in net, NEW ignore \in Options, Unprotect(m, ignore)
      PROVE  secs1970' = secs1970
  BY <1>3, UnprotectKinds DEF ClockAfter
<1>4. (\E m : Sends(m)) \/ (\E k : Rotates(k)) => secs1970' = secs1970
  BY DEF Sends, Rotates
<1> QED
  BY <1>1, <1>2, <1>3, <1>4, StepKinds DEF Ticks

-----------------------------------------------------------------------------
(* The theorems.                                                           *)

(* The client is provisioned with the C2's key and nothing else.           *)
LEMMA InitClient == Init => ClientInv
<1> SUFFICES ASSUME Init PROVE ClientInv
  OBVIOUS
<1>0. /\ E4_TOPICS_MAX \in Nat /\ RealTime \in Nat
      /\ E4C_TIME_FUTURE \in Nat /\ E4C_TIME_TOO_OLD \in Nat
  BY MaxAssumption, TimeAssumption
<1>1. topics \in Tables(E4_TOPICS_MAX, Entry) /\ LiveSlots(topics) = {}
  <2>1. topics = EmptyTable
    BY DEF Init
  <2>2. ZeroEntry \in Entry
    BY DEF ZeroEntry, Entry
  <2> QED
    BY <1>0, <2>1, <2>2 DEF Tables, EmptyTable, LiveSlots
<1>2. ClientType
  <2>1. HasRTC \in BOOLEAN
    BY TimeAssumption DEF Init
  <2>2. {now, secs1970, latest, slack} \subseteq Nat
    BY <1>0, TimeAssumption DEF Init
  <2> QED
    BY <1>1, <2>1, <2>2 DEF ClientType, Init
<1>3. NetInv /\ KeysFromC2 /\ RotationOnce
  BY <1>1 DEF Init, NetInv, KeysFromC2, RotationOnce
<1>4. Rotations = {}
  BY DEF Init, Rotations
<1>5. C2Chain /\ Position
  BY <1>4, ClientAssumption DEF Init, C2Chain, Position
<1>6. Dates /\ RollbackBounded
  BY <1>0, <1>2 DEF Init, ClientType, Dates, RollbackBounded, Calibrated
<1> QED
  BY <1>2, <1>3, <1>5, <1>6 DEF ClientInv

(* The inductive invariant: types, what travels on which topic, where the  *)
(* table's keys come from, the chain of id keys, the client's place on it, *)
(* and the dates of the commands it carried out against its own clock.     *)
THEOREM SymClientInvariant == Spec => []ClientInv
<1>1. ClientInv /\ [Next]_vars => ClientInv'
  BY TypeNext, NetNext, KeysNext, ChainNext, PositionNext, DatesNext DEF ClientInv
<1> QED
  BY <1>1, InitClient, PTL DEF Spec

(* Every topic key the client holds came from the C2 in a SetTopicKey that *)
(* unprotect_message carried out, never out of an application's payload.   *)
THEOREM SymClientKeysFromC2 == Spec => []KeysFromC2
<1>1. ClientInv => KeysFromC2
  BY DEF ClientInv
<1> QED
  BY <1>1, SymClientInvariant, PTL

(* A client that is behind the C2 has a rotation under its key that it has *)
(* not carried out, and unprotect_message would take it for a command but  *)
(* for the window of timestamps: the control topic has no row in the table *)
(* that could stand before the client's key.                               *)
THEOREM SymClientRotationChain == Spec => []RotationChain
<1>1. ClientInv => RotationChain
  <2> SUFFICES ASSUME ClientInv, key # c2key
               PROVE  \E m \in net \ accepted : /\ m.key = key
                                                /\ m.body.cmd = "SetIdKey"
                                                /\ Verdict(m, TRUE) = E4_RESULT_OK
                                                /\ IsControl(m.topic)
    BY DEF RotationChain
  <2>1. PICK m \in Rotations : m.key = key
    BY DEF ClientInv, C2Chain, Position
  <2>2. m \notin accepted
    BY <2>1 DEF ClientInv, Position
  <2>3. ~HasTopic(m.topic) /\ ctrltopic = TopicHash(m.topic)
    BY NoCtrlRow DEF Rotations, ClientInv, ClientType
  <2>4. Verdict(m, TRUE) = E4_RESULT_OK
    BY <2>1, <2>3, MemHash DEF Verdict, KeyFor
  <2> QED
    BY <2>1, <2>2, <2>3, <2>4 DEF Rotations, IsControl
<1> QED
  BY <1>1, SymClientInvariant, PTL

(* No rotation is carried out twice, however often it is delivered.        *)
THEOREM SymClientRotationOnce == Spec => []RotationOnce
<1>1. ClientInv => RotationOnce
  BY DEF ClientInv
<1> QED
  BY <1>1, SymClientInvariant, PTL

(* A command takes the client back by no more than the timestamp window,   *)
(* whatever the clock shows, as long as it is not set back.                *)
THEOREM SymClientRollbackBounded == Spec => []RollbackBounded
<1>1. ClientInv => RollbackBounded
  BY DEF ClientInv
<1> QED
  BY <1>1, SymClientInvariant, PTL

(* No step sets back an AVR build's clock that knows the date.             *)
THEOREM SymClientClockNeverBack == Spec => ClockNeverBack
<1>1. ClientInv /\ [Next]_vars => [~HasRTC /\ Calibrated => secs1970' >= secs1970]_vars
  BY ClockNext
<1> QED
  BY <1>1, SymClientInvariant, PTL DEF Spec, ClockNeverBack

-----------------------------------------------------------------------------
(* The store of a client.  SP brings what SymMemStoreProofs shows of the   *)
(* store on its own; its operators are those of Mem.                       *)

SP == INSTANCE SymMemStoreProofs

(* The two copies of the helpers are the same functions.                   *)
LEMMA SameTables ==
    /\ Mem!Hashes = Hashes /\ SP!Hashes = Hashes
    /\ SP!EmptyTable = EmptyTable /\ Mem!EmptyTable = EmptyTable
    /\ SP!E4_RESULT_OK = Mem!E4_RESULT_OK
    /\ SP!E4_ERROR_TOPICKEY_MISSING = Mem!E4_ERROR_TOPICKEY_MISSING
    /\ \A t, n : SP!FirstSlot(t, n) = Mem!FirstSlot(t, n)
    /\ \A t, n : SP!Lookup(t, n, Zero) = Mem!Lookup(t, n, Zero)
    /\ \A t, i, n, k : SP!PutAt(t, i, n, k) = Mem!PutAt(t, i, n, k)
    /\ \A t, i : SP!CloseGap(t, i, t.count, SP!ZeroEntry) = Mem!CloseGap(t, i, t.count, Mem!ZeroEntry)
    /\ \A i : SP!TopicHash(SP!ControlTopic(i)) = Mem!TopicHash(Mem!ControlTopic(i))
<1>1. Mem!Hashes = Hashes /\ SP!Hashes = Hashes
  BY DEF Mem!Hashes, SP!Hashes, Hashes, Mem!TopicHash, SP!TopicHash, TopicHash,
         Mem!ControlTopic, SP!ControlTopic, ControlTopic
<1>2. SP!EmptyTable = EmptyTable /\ Mem!EmptyTable = EmptyTable
  BY DEF SP!EmptyTable, Mem!EmptyTable, EmptyTable, SP!ZeroEntry, Mem!ZeroEntry, ZeroEntry
<1>3. /\ SP!E4_RESULT_OK = Mem!E4_RESULT_OK
      /\ SP!E4_ERROR_TOPICKEY_MISSING = Mem!E4_ERROR_TOPICKEY_MISSING
  BY DEF SP!E4_RESULT_OK, Mem!E4_RESULT_OK, SP!E4_ERROR_TOPICKEY_MISSING, Mem!E4_ERROR_TOPICKEY_MISSING
<1>4. \A t, n : SP!FirstSlot(t, n) = Mem!FirstSlot(t, n)
  BY DEF SP!FirstSlot, Mem!FirstSlot, SP!LiveSlots, Mem!LiveSlots
<1>5. \A t, n : SP!Lookup(t, n, Zero) = Mem!Lookup(t, n, Zero)
  BY <1>4 DEF SP!Lookup, Mem!Lookup, SP!Names, Mem!Names, SP!LiveSlots, Mem!LiveSlots
<1>6. \A t, i, n, k : SP!PutAt(t, i, n, k) = Mem!PutAt(t, i, n, k)
  BY DEF SP!PutAt, Mem!PutAt
<1>7. \A t, i : SP!CloseGap(t, i, t.count, SP!ZeroEntry) = Mem!CloseGap(t, i, t.count, Mem!ZeroEntry)
  BY DEF SP!CloseGap, Mem!CloseGap, SP!ZeroEntry, Mem!ZeroEntry
<1>8. \A i : SP!TopicHash(SP!ControlTopic(i)) = Mem!TopicHash(Mem!ControlTopic(i))
  BY DEF Mem!TopicHash, SP!TopicHash, Mem!ControlTopic, SP!ControlTopic
<1> QED
  BY <1>1, <1>2, <1>3, <1>4, <1>5, <1>6, <1>7, <1>8

(* The two copies of the calls are the same calls.                         *)
LEMMA SameCalls ==
    ASSUME [Mem!Next]_(Mem!vars)
    PROVE  [SP!Next]_(SP!vars)
<1>1. CASE Mem!InitStore
  BY <1>1, SameTables DEF Mem!InitStore, SP!InitStore, SP!Next
<1>2. ASSUME NEW i \in Ids, Mem!SetId(i) PROVE SP!SetId(i)
  BY <1>2, SameTables DEF Mem!SetId, SP!SetId
<1>3. ASSUME NEW k \in Keys, Mem!SetIdKey(k) PROVE SP!SetIdKey(k)
  BY <1>3, SameTables DEF Mem!SetIdKey, SP!SetIdKey
<1>4. ASSUME NEW h, NEW k, Mem!SetTopicKey(h, k) PROVE SP!SetTopicKey(h, k)
  BY <1>4, SameTables DEF Mem!SetTopicKey, SP!SetTopicKey
<1>5. ASSUME NEW h, Mem!RemoveTopic(h) PROVE SP!RemoveTopic(h)
  BY <1>5, SameTables DEF Mem!RemoveTopic, SP!RemoveTopic
<1>6. CASE Mem!ResetTopics
  BY <1>6, SameTables DEF Mem!ResetTopics, SP!ResetTopics, SP!Next
<1>7. CASE UNCHANGED Mem!vars
  BY <1>7 DEF Mem!vars, SP!vars
<1> QED
  BY <1>1, <1>2, <1>3, <1>4, <1>5, <1>6, <1>7, SameTables DEF Mem!Next, SP!Next

(* A command carried out is a call of the store with arguments of their    *)
(* types, and nothing else reaches it.                                     *)
LEMMA StoreStep ==
    ASSUME ClientInv, [Next]_vars
    PROVE  [Mem!Next]_(Mem!vars)
<1>1. UNCHANGED stored => UNCHANGED Mem!vars
  BY DEF stored, Mem!vars
<1>2. ASSUME NEW b \in Commands, Execute(b)
      PROVE  [Mem!Next]_(Mem!vars)
  <2>1. OrdinaryHashes \subseteq Mem!Hashes
    BY SameTables DEF OrdinaryHashes, Hashes
  <2>2. CASE \E h \in Hashes : Mem!RemoveTopic(h)
    BY <2>2, SameTables DEF Mem!Next
  <2>3. CASE Mem!ResetTopics
    BY <2>3 DEF Mem!Next
  <2>4. CASE b.cmd = "SetIdKey" /\ Mem!SetIdKey(b.key)
    <3>1. b.key \in Keys
      BY <1>2, <2>4, CommandKinds, ClientAssumption
    <3> QED
      BY <2>4, <3>1 DEF Mem!Next
  <2>5. CASE b.cmd = "SetTopicKey" /\ Mem!SetTopicKey(b.hash, b.key)
    <3>1. b.hash \in Mem!Hashes /\ b.key \in Keys
      BY <1>2, <2>1, <2>5, CommandKinds
    <3> QED
      BY <2>5, <3>1 DEF Mem!Next
  <2> QED
    BY <1>1, <1>2, <2>2, <2>3, <2>4, <2>5 DEF Execute
<1>3. ASSUME NEW m \in net, NEW ignore \in Options, Unprotect(m, ignore)
      PROVE  [Mem!Next]_(Mem!vars)
  <2>1. CASE UNCHANGED stored
    BY <1>1, <2>1
  <2>2. CASE Verdict(m, ignore) = E4_RESULT_OK /\ IsControl(m.topic) /\ Execute(m.body)
    <3>1. ctrltopic = TopicHash(m.topic) /\ ctrltopic = TopicHash(ctrl)
      BY <2>2, VerdictOk DEF IsControl, ClientInv, ClientType
    <3>2. m.topic = ctrl
      BY <3>1, HashInjective
    <3>3. m.body \in Commands
      BY <3>2, TopicsAssumption DEF ClientInv, NetInv
    <3> QED
      BY <1>2, <2>2, <3>3
  <2> QED
    BY <1>3, <2>1, <2>2 DEF Unprotect
<1>4. CASE UNCHANGED vars
  BY <1>1, <1>4 DEF vars
<1>5. CASE \/ Tick \/ ClockTick \/ (\E t \in RTCDates : SetClock(t))
           \/ RefuseCall \/ Protect(ctrl, Data)
           \/ \E b \in TopicCommands : C2Topic(b)
           \/ \E k \in IdKeys : C2Rotate(k)
           \/ \E t \in Topics, b \in {Data} \cup Lookalikes : Protect(t, b)
  BY <1>1, <1>5 DEF Tick, ClockTick, SetClock, RefuseCall, Protect, C2Topic, C2Rotate
<1> QED
  BY <1>3, <1>4, <1>5 DEF Next, Step

(* The client starts with a store whose table is empty.                    *)
LEMMA InitStored == Init => SP!IInv /\ SP!KM!Init
<1> SUFFICES ASSUME Init PROVE SP!IInv /\ SP!KM!Init
  OBVIOUS
<1>1. /\ id = Client /\ key = FirstIdKey /\ topics = SP!EmptyTable
      /\ ctrltopic = SP!TopicHash(SP!ControlTopic(Client)) /\ ret = SP!E4_RESULT_OK
  BY SameTables DEF Init, ctrl, SP!E4_RESULT_OK, E4_RESULT_OK, SP!TopicHash, TopicHash,
         SP!ControlTopic, ControlTopic
<1>2. Client \in Ids /\ FirstIdKey \in Keys /\ Client # Zero
  BY ClientAssumption, ZeroAssumption
<1>3. SP!TopicHash(SP!ControlTopic(Client)) \in SP!Hashes
  BY <1>2 DEF SP!Hashes
<1>4. SP!GoodTable(SP!EmptyTable) /\ SP!Names(SP!EmptyTable) = {}
  BY SP!EmptyTableGood, MaxAssumption, ZeroAssumption, SameTables
<1>5. SP!Table = SP!Tables(E4_TOPICS_MAX, SP!Entry)
  BY SP!TableIsTables, MaxAssumption, ZeroAssumption, SameTables
<1>6. SP!IInv
  BY <1>1, <1>2, <1>3, <1>4, <1>5
  DEF SP!IInv, SP!TypeOK, SP!TopicsUnique, SP!CtrlTopicOfId, SP!GoodTable
<1>7. SP!TopicMap = [h \in SP!Hashes |-> Zero]
  BY <1>1, <1>4 DEF SP!TopicMap, SP!Lookup
<1> QED
  BY <1>1, <1>6, <1>7 DEF SP!KM!Init, SP!TopicMap

(* Whatever the network delivers, the store of a client sees nothing but   *)
(* calls with arguments of their types, its live rows are rows of distinct *)
(* topics with keys, and towards the client it is a bounded map: an update *)
(* concerns the topic of the command, and a full table refuses it whole.   *)
THEOREM SymClientCallsStore ==
    Spec => [][Mem!Next]_(Mem!vars) /\ []SP!IInv /\ SP!RefinesKeyMap
<1>1. ClientInv /\ [Next]_vars => [Mem!Next]_(Mem!vars)
  BY StoreStep
<1>2. ClientInv /\ [Next]_vars => [SP!Next]_(SP!vars)
  BY StoreStep, SameCalls
<1>3. SP!IInv /\ [SP!Next]_(SP!vars) => SP!IInv'
  BY SP!NextIInv, MaxAssumption, ZeroAssumption, SameTables
<1>4. SP!IInv /\ [SP!Next]_(SP!vars) => [SP!KM!Next]_(SP!KM!vars)
  BY SP!NextRefines, MaxAssumption, ZeroAssumption, SameTables
<1>5. Init => SP!IInv /\ SP!KM!Init
  BY InitStored
<1> QED
  BY <1>1, <1>2, <1>3, <1>4, <1>5, SymClientInvariant, PTL DEF Spec, SP!RefinesKeyMap, SP!KM!Spec

=============================================================================

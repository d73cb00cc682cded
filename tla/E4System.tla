------------------------------ MODULE E4System ------------------------------
(***************************************************************************)
(* The symmetric client on the store in a file, with programs that stop    *)
(* and start again, and the C2 that manages its keys.                      *)
(*                                                                         *)
(* The client is that of SymClient, told to ignore timestamps; the store   *)
(* is that of SymFileStore, with its sync in single writes.  set_idkey     *)
(* does not save: a client that stops comes back with an older id key than *)
(* the C2 uses, or, when the file does not load, with the one it was       *)
(* delivered with.  The application is modelled by the calls it has to     *)
(* make: load after a start, and provisioning when that fails.             *)
(*                                                                         *)
(* The network keeps what was sent and may deliver it any number of times. *)
(***************************************************************************)
EXTENDS SymFileStore, FiniteSets

CONSTANTS
    Client,       \* the client's id
    FirstIdKey,   \* the id key it is provisioned with
    AppKey,       \* a key the C2 never issues
    MaxMsgs       \* bound on the messages ever sent

VARIABLES
    net,      \* messages sent
    c2key,    \* the id key the C2 uses for the client
    issued,   \* the id keys it has used
    running   \* the application has a store it can use

env   == <<net, c2key, issued>>
svars == <<vars, env, running>>

(* The clock does not matter to a client that ignores timestamps.          *)
Cl == INSTANCE SymClient WITH
        Builds <- {TRUE}, HasRTC <- TRUE, Options <- {TRUE}, now <- 0, secs1970 <- 0,
        RealTime <- 0, RTCDates <- {0}, E4C_TIME_FUTURE <- 0, E4C_TIME_TOO_OLD <- 0, MaxTime <- 0,
        res <- E4_RESULT_OK, accepted <- {}, repeated <- {}, latest <- 0, slack <- 0

ASSUME SystemAssumption ==
    /\ Client \in Ids /\ FirstIdKey \in IdKeys
    /\ AppKey \in Keys \ IdKeys
    /\ MaxMsgs \in Nat

Rotation(old, new) == Cl!Msg(Cl!ctrl, old, Cl!Body("SetIdKey", Zero, new), 0)

-----------------------------------------------------------------------------

SysInit ==
    /\ id = Client
    /\ key = FirstIdKey
    /\ ctrltopic = TopicHash(Cl!ctrl)
    /\ topics = EmptyTable
    /\ filepath = Path
    /\ file = [p \in Positions |-> IF p <= LastPos(0) THEN Image(p) ELSE Absent]
    /\ op = NoCall /\ arg = Zero /\ wpos = 0
    /\ ret = E4_RESULT_OK
    /\ before = NoSnapshot
    /\ configured = Path /\ misloaded = FALSE
    /\ restarts = 0 /\ fails = 0
    /\ net = {}
    /\ c2key = FirstIdKey
    /\ issued = {FirstIdKey}
    /\ running = TRUE

Send(m) == Cardinality(net) < MaxMsgs /\ net' = net \cup {m}

(* The C2 sends a command about topics.                                    *)
C2Topic(b) ==
    /\ Send(Cl!Msg(Cl!ctrl, c2key, b, 0))
    /\ UNCHANGED <<vars, c2key, issued, running>>

(* The C2 moves the client to another id key and uses that from then on.   *)
C2Rotate(k) ==
    /\ k \notin issued
    /\ Send(Rotation(c2key, k))
    /\ c2key' = k
    /\ issued' = issued \cup {k}
    /\ UNCHANGED <<vars, running>>

(* Forgetting to take over the key.                                        *)
ExecuteNoIdKey(b) ==
    \/ b.cmd = "SetIdKey" /\ Idle /\ UNCHANGED vars
    \/ b.cmd = "SetTopicKey" /\ SetTopicKey(b.hash, b.key)
    \/ b.cmd = "RemoveTopic" /\ RemoveTopic(b.hash)
    \/ b.cmd = "ResetTopics" /\ ResetTopics

(* Taking the bytes of a topic hash for the new id key.                    *)
ExecuteHashAsKey(b) ==
    \/ b.cmd = "SetIdKey" /\ SetIdKey(b.hash)
    \/ b.cmd = "SetTopicKey" /\ SetTopicKey(b.hash, b.key)
    \/ b.cmd = "RemoveTopic" /\ RemoveTopic(b.hash)
    \/ b.cmd = "ResetTopics" /\ ResetTopics

(* The commands of unprotect_message, on this store.                       *)
Execute(b) ==
    \/ b.cmd = "SetIdKey" /\ SetIdKey(b.key)
    \/ b.cmd = "SetTopicKey" /\ SetTopicKey(b.hash, b.key)
    \/ b.cmd = "RemoveTopic" /\ RemoveTopic(b.hash)
    \/ b.cmd = "ResetTopics" /\ ResetTopics

(* A message is handed to unprotect_message and carried out; one that is   *)
(* refused changes nothing.                                                *)
Deliver(m) ==
    /\ running
    /\ m \in net
    /\ Cl!Verdict(m, TRUE) = E4_RESULT_OK
    /\ Cl!IsControl(m.topic)
    /\ Execute(m.body)
    /\ UNCHANGED <<env, running>>

(* sync goes on, or a write fails.                                         *)
SyncStep == (WriteField \/ SyncReturn) /\ UNCHANGED <<env, running>>

SyncFail == WriteFail /\ UNCHANGED <<env, running>>

(* The program stops, between two calls or during a sync, and is started.  *)
Stop == (InitStore \/ Crash) /\ running' = FALSE /\ UNCHANGED env

(* The application loads the store.                                        *)
Start ==
    /\ ~running
    /\ ret # E4_ERROR_PERSISTENCE_ERROR
    /\ Load
    /\ running' = Loads(file)
    /\ UNCHANGED env

(* The application provisions a client whose file it could not load: init, *)
(* configure_storage, set_id and set_idkey with the first key.             *)
Provision ==
    /\ ~running
    /\ ret = E4_ERROR_PERSISTENCE_ERROR
    /\ id' = Client
    /\ key' = FirstIdKey
    /\ ctrltopic' = TopicHash(Cl!ctrl)
    /\ topics' = EmptyTable
    /\ filepath' = Path
    /\ configured' = Path
    /\ misloaded' = FALSE
    /\ Answer(E4_RESULT_OK)
    /\ running' = TRUE
    /\ UNCHANGED env

TopicCommands ==
    {Cl!Body("SetTopicKey", TopicHash(t), k) : t \in Topics, k \in Keys \ (IdKeys \cup {AppKey})}
      \cup {Cl!Body("RemoveTopic", TopicHash(t), Zero) : t \in Topics}
      \cup {Cl!Body("ResetTopics", Zero, Zero)}

SysNext ==
    \/ \E b \in TopicCommands : C2Topic(b)
    \/ \E k \in IdKeys : C2Rotate(k)
    \/ \E m \in net : Deliver(m)
    \/ SyncStep \/ SyncFail \/ Stop \/ Start \/ Provision

SysSpec == SysInit /\ [][SysNext]_svars

(* A sync that has begun goes on, since nothing else runs; an application  *)
(* that was started loads or provisions its store; and what the C2 has     *)
(* sent to move the client to another key is delivered again and again, so *)
(* that one copy arrives between two calls in the end: the transport keeps *)
(* it (the code asks for it in no way), hence the strong fairness.  The C2 *)
(* and the program that stops promise nothing.                             *)
Fairness ==
    /\ WF_svars(SyncStep)
    /\ WF_svars(Start)
    /\ WF_svars(Provision)
    /\ \A j, k \in IdKeys : SF_svars(Deliver(Rotation(j, k)))

FairSpec == SysSpec /\ Fairness

-----------------------------------------------------------------------------
(* Properties.                                                             *)

(* Wherever the program stops, the client comes back with an id key that   *)
(* the C2 has used, and what takes it from there to the next one was sent. *)
RestartOnChain ==
    running => /\ key \in issued
               /\ key # c2key => \E k \in issued : Rotation(key, k) \in net

(* Every key in the topic table was sent by the C2, after restarts from    *)
(* files that a sync has left half rewritten too.                          *)
TopicKeysFromC2 ==
    running => \A i \in LiveSlots(topics) :
                  \E m \in net : m.body.cmd = "SetTopicKey" /\ m.body.key = topics.slot[i].key

(* Client and C2 end up with the same key, for good, however often the     *)
(* client stopped and fell back to an older one on the way.                *)
RotationConverges == <>[](running /\ key = c2key)

=============================================================================

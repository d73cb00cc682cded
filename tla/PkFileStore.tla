---------------------------- MODULE PkFileStore ----------------------------
(***************************************************************************)
(* The public-key store kept in a file, e4c_pk_store_file.c: the calls of  *)
(* PkStore, each followed by the sync it ends with, and load.              *)
(*                                                                         *)
(* Unlike that of the symmetric store, this file has two tables.  The      *)
(* device rows lie behind the topic rows, so a sync after a call that      *)
(* changes the number of topics writes every device at another offset than *)
(* before, over what older rows and counts have left there.  Where a field *)
(* begins is therefore part of the model: the file is an array of units, a *)
(* count or a field of the header takes one, a name or a key of a row two, *)
(* and a name or key that is read from units that do not belong together   *)
(* is Garbage.  A count read from a unit that is none can be any number.   *)
(*                                                                         *)
(* sync opens the file without O_TRUNC and writes one field after the      *)
(* other; the program can stop between any two, and any write can fail.  A *)
(* write() happens entirely or not at all.                                 *)
(***************************************************************************)
EXTENDS PkStore

CONSTANTS
    Magic,      \* E4V2_MAGIC
    Absent,     \* a unit beyond the end of the file
    Garbage,    \* a name or key put together from pieces of others
    Path,       \* the path of the file
    SelfIds,    \* the members of Ids that set_id is called with
    SelfKeys,   \* the members of PubKeys that set_idpubkey is called with
    MaxFaults,  \* bound: how often, taken together, the store may start
                \* afresh and an open() or write() may fail
    MaxCalls    \* bound on the calls that change the store

Pending == "pending"  \* the call has not returned yet
NoCall  == "none"

ASSUME FileAssumption ==
    /\ SelfIds \subseteq Ids /\ SelfKeys \subseteq PubKeys
    /\ {MaxFaults, MaxCalls} \subseteq Nat
    /\ SyncResults = {Pending, E4_ERROR_PERSISTENCE_ERROR}

(* What a field, a row and a unit of the file can hold.                    *)
Values ==
    Ids \cup Hashes \cup TopicKeys \cup SecKeys \cup PubKeys \cup C2Keys \cup {Zero, Garbage}

Cells ==
    ({"head"} \X (Values \cup {Magic})) \cup ({"first", "second"} \X Values)
      \cup ({"count"} \X (0 .. E4_DEVICES_MAX))

(* The end of the file is told from everything a unit can hold.            *)
ASSUME AbsentAssumption == Absent \notin Cells

VARIABLES
    filepath,   \* store->filepath: Path, or Zero when empty
    file,       \* the file at Path
    op, arg,    \* the call whose sync is running, and what it is about
    wpos,       \* number of the next write of sync; 0 outside of sync
    before,     \* during sync: both tables when the call began, and
                \* whether the file then held the store
    misloaded,  \* history: a load has stopped part way and none succeeded since
    faults,     \* how many there were
    calls       \* how many calls have changed the store

disk  == <<file, op, arg, wpos, before>>
fvars == <<vars, filepath, disk, misloaded, faults, calls>>

Idle == wpos = 0

MoreFaults == faults < MaxFaults

-----------------------------------------------------------------------------
(* The layout of the file.                                                 *)

HeadUnits == 6                    \* magic, id, privkey, pubkey, c2key, topiccount
TopicUnit(i) == 7 + 4 * i         \* where topic row i begins
DeviceCountUnit(n) == 7 + 4 * n   \* behind n topic rows
DeviceUnit(n, j) == 8 + 4 * n + 4 * j
Units == 1 .. DeviceUnit(E4_TOPICS_MAX, E4_DEVICES_MAX) - 1

NoFile == [u \in Units |-> Absent]

(* The units of row e, of which the first is number base, by position.     *)
RowUnit(e, q) ==
    <<IF q % 2 = 0 THEN "first" ELSE "second", IF q < 2 THEN e.name ELSE e.key>>

(* What sync writes into unit u.                                           *)
Image(u) ==
    LET n == topics.count
        head == <<Magic, id, privkey, pubkey, c2key>>
    IN  CASE u < HeadUnits -> <<"head", head[u]>>
          [] u = HeadUnits -> <<"count", n>>
          [] u \in TopicUnit(0) .. TopicUnit(n) - 1 ->
                RowUnit(topics.slot[(u - 7) \div 4], (u - 7) % 4)
          [] u = DeviceCountUnit(n) -> <<"count", devices.count>>
          [] OTHER -> LET v == u - DeviceUnit(n, 0)
                      IN  RowUnit(devices.slot[v \div 4], v % 4)

(* The last write of sync, and the units of write w.                       *)
LastWrite == HeadUnits + 2 * topics.count + 1 + 2 * devices.count

WriteUnits(w) ==
    LET n == topics.count
    IN  CASE w <= HeadUnits -> {w}
          [] w \in HeadUnits + 1 .. HeadUnits + 2 * n ->
                LET u == TopicUnit(0) + 2 * (w - 7) IN {u, u + 1}
          [] w = HeadUnits + 2 * n + 1 -> {DeviceCountUnit(n)}
          [] OTHER -> LET u == DeviceUnit(n, 0) + 2 * (w - 8 - 2 * n) IN {u, u + 1}

(* The file holds exactly what the store does.                             *)
Stored(f) ==
    \A u \in 1 .. DeviceUnit(topics.count, devices.count) - 1 : f[u] = Image(u)

-----------------------------------------------------------------------------
(* Reading the file.  What load makes of it depends on the number g that   *)
(* it finds when it takes other bytes for the number of devices.           *)

ReadHead(f, u, old) == IF f[u] = Absent THEN old ELSE f[u][2]

(* A read of two units: it leaves the field alone at the end of the file   *)
(* and fills half of it when only one unit is left.                        *)
ReadField(f, u, old) ==
    CASE f[u] = Absent -> old
      [] f[u] # Absent /\ f[u + 1] # Absent /\ f[u][1] = "first"
            /\ f[u + 1] = <<"second", f[u][2]>> -> f[u][2]
      [] OTHER -> Garbage

(* The rows from unit u on, read into table t.  The count is stored before *)
(* it is compared with the size of the array.                              *)
ReadRows(f, u, n, t) ==
    [count |-> n,
     slot  |-> [i \in DOMAIN t.slot |->
                  IF n - 1 \in DOMAIN t.slot /\ i < n
                  THEN [name |-> ReadField(f, u + 4 * i, t.slot[i].name),
                        key  |-> ReadField(f, u + 4 * i + 2, t.slot[i].key)]
                  ELSE t.slot[i]]]

TopicCount(f) == f[HeadUnits][2]

TopicsRead(f) ==
    /\ f[1] = <<"head", Magic>>
    /\ \A u \in 2 .. HeadUnits : f[u] # Absent
    /\ f[TopicUnit(TopicCount(f)) - 1] # Absent

DeviceCount(f, g) ==
    LET c == f[DeviceCountUnit(TopicCount(f))]
    IN  IF c[1] = "count" THEN c[2] ELSE g

HasDeviceCount(f) == TopicsRead(f) /\ f[DeviceCountUnit(TopicCount(f))] # Absent

(* Whether load reads f to its end.                                        *)
Loads(f, g) ==
    /\ HasDeviceCount(f)
    /\ DeviceCount(f, g) <= E4_DEVICES_MAX
    /\ f[DeviceUnit(TopicCount(f), DeviceCount(f, g)) - 1] # Absent

LoadTopics(f, t) ==
    IF f[HeadUnits] = Absent THEN t ELSE ReadRows(f, TopicUnit(0), TopicCount(f), t)

LoadDevices(f, g, t) ==
    IF ~HasDeviceCount(f) THEN t
    ELSE ReadRows(f, DeviceUnit(TopicCount(f), 0), DeviceCount(f, g), t)

Guesses == 0 .. E4_DEVICES_MAX + 1

(* The tables a new process loads.                                         *)
ReloadTopics == LoadTopics(file, Empty(E4_TOPICS_MAX))
ReloadDevices(g) == LoadDevices(file, g, Empty(E4_DEVICES_MAX))

-----------------------------------------------------------------------------
(* Writing the file.                                                       *)

NoSnapshot == [clean |-> FALSE, topics |-> Empty(E4_TOPICS_MAX),
               devices |-> Empty(E4_DEVICES_MAX)]

(* No sync is running after the step.                                      *)
NoSync ==
    /\ op' = NoCall
    /\ arg' = Zero
    /\ wpos' = 0
    /\ before' = NoSnapshot

(* A call that returns without a sync.                                     *)
Answer == NoSync /\ UNCHANGED <<file, faults>>

(* A sync that starts with an empty file.                                  *)
StartSyncTrunc(o, a) ==
    /\ UNCHANGED <<misloaded, faults>>
    /\ filepath' # Zero /\ ret' # E4_ERROR_PERSISTENCE_ERROR
    /\ file' = NoFile
    /\ op' = o
    /\ arg' = a
    /\ wpos' = 1
    /\ before' = [clean |-> Stored(file), topics |-> topics, devices |-> devices]

(* The start of sync at the end of call o: it fails at once without a path *)
(* or when the file cannot be opened.                                      *)
StartSync(o, a) ==
    /\ UNCHANGED <<file, misloaded>>
    /\ \/ /\ filepath' # Zero /\ ret' # E4_ERROR_PERSISTENCE_ERROR
          /\ op' = o
          /\ arg' = a
          /\ wpos' = 1
          /\ before' = [clean |-> Stored(file), topics |-> topics, devices |-> devices]
          /\ UNCHANGED faults
       \/ /\ ret' # Pending
          /\ filepath' = Zero \/ MoreFaults
          /\ faults' = IF filepath' = Zero THEN faults ELSE faults + 1
          /\ NoSync

(* A CHECKED_WRITE.                                                        *)
WriteField ==
    /\ wpos \in 1 .. LastWrite
    /\ file' = [u \in Units |-> IF u \in WriteUnits(wpos) THEN Image(u) ELSE file[u]]
    /\ wpos' = wpos + 1
    /\ UNCHANGED <<vars, filepath, op, arg, before, misloaded, faults>>

(* Returning OK whatever sync came to.                                     *)
SyncResultOk(r) == ret' = E4_RESULT_OK

(* The running call returns what sync came to, unless it has decided       *)
(* otherwise before.                                                       *)
SyncResult(r) == ret' = IF ret = Pending THEN r ELSE ret

(* A CHECKED_WRITE that fails.                                             *)
WriteFail ==
    /\ wpos \in 1 .. LastWrite
    /\ MoreFaults
    /\ faults' = faults + 1
    /\ SyncResult(E4_ERROR_PERSISTENCE_ERROR)
    /\ NoSync
    /\ UNCHANGED <<identity, secrets, tables, filepath, file, misloaded>>

(* sync has written everything.                                            *)
SyncReturn ==
    /\ wpos > LastWrite
    /\ SyncResult(E4_RESULT_OK)
    /\ NoSync
    /\ UNCHANGED <<identity, secrets, tables, filepath, file, misloaded, faults>>

-----------------------------------------------------------------------------
(* The calls.                                                              *)

(* The next call.  With a count that load has left larger than its array a *)
(* scan leaves the array: what the code does then is not defined, and the  *)
(* model goes on with init or another load only.                           *)
Ready == Idle /\ devices.count <= E4_DEVICES_MAX

FileInit ==
    /\ Init
    /\ filepath = Zero
    /\ file = NoFile
    /\ op = NoCall
    /\ arg = Zero
    /\ wpos = 0
    /\ before = NoSnapshot
    /\ misloaded = FALSE
    /\ faults = 0
    /\ calls = 0

(* e4c_pubkey_init clears every field.                                     *)
ZeroStore ==
    /\ id' = Zero /\ ctrltopic' = Zero /\ pubkey' = Zero
    /\ privkey' = Zero /\ c2key' = Zero /\ c2sharedkey' = Zero
    /\ devices' = Empty(E4_DEVICES_MAX) /\ topics' = Empty(E4_TOPICS_MAX)
    /\ filepath' = Zero
    /\ ret' = E4_RESULT_OK
    /\ foreign' = FALSE
    /\ misloaded' = FALSE

(* e4c_pubkey_init, between two calls or in the program that is started    *)
(* after one that stopped in the middle of a sync.                         *)
Restart ==
    /\ MoreFaults
    /\ faults' = faults + 1
    /\ ZeroStore
    /\ NoSync
    /\ UNCHANGED file

(* e4c_pubkey_configure_storage: strlcpy returns the length of the path,   *)
(* which is never below the length it is compared with.                    *)
ConfigureStorage ==
    /\ Idle
    /\ filepath' = Path
    /\ ret' = "1"
    /\ Answer
    /\ UNCHANGED <<identity, secrets, tables, misloaded>>

(* Deriving the secret only when there is none yet.                        *)
DeriveLoadedOnce ==
    /\ c2sharedkey' = IF privkey' = Zero \/ c2key' = Zero \/ c2sharedkey # Zero
                      THEN c2sharedkey ELSE Secret(privkey', c2key')
    /\ foreign' = FALSE

(* The secret is derived anew when both keys were read.                    *)
DeriveLoaded ==
    /\ c2sharedkey' = IF privkey' = Zero \/ c2key' = Zero THEN Zero
                      ELSE Secret(privkey', c2key')
    /\ foreign' = FALSE

(* e4c_pubkey_load: configures the path, whatever that returns, then reads *)
(* into the store until a read fails.  Only a load that reaches the end    *)
(* touches the secret.                                                     *)
Load(g) ==
    /\ Idle
    /\ filepath' = Path
    /\ IF file[1] = <<"head", Magic>>
       THEN /\ id' = ReadHead(file, 2, id)
            /\ ctrltopic' = IF file[2] = Absent THEN ctrltopic
                            ELSE TopicHash(ControlTopic(id'))
            /\ privkey' = ReadHead(file, 3, privkey)
            /\ pubkey' = ReadHead(file, 4, pubkey)
            /\ c2key' = ReadHead(file, 5, c2key)
            /\ topics' = LoadTopics(file, topics)
            /\ devices' = LoadDevices(file, g, devices)
       ELSE UNCHANGED <<identity, privkey, c2key, tables>>
    /\ IF Loads(file, g)
       THEN ret' = E4_RESULT_OK /\ DeriveLoaded /\ misloaded' = FALSE
       ELSE /\ ret' = E4_ERROR_PERSISTENCE_ERROR
            /\ misloaded' = (misloaded \/ file[1] # Absent)
            /\ UNCHANGED <<c2sharedkey, foreign>>
    /\ Answer

(* e4c_pubkey_sync, called by the application.                             *)
Sync ==
    /\ Ready
    /\ ret' \in SyncResults
    /\ UNCHANGED <<identity, secrets, tables, filepath>>
    /\ StartSync("sync", Zero)

(* e4c_pubkey_set_id, e4c_pubkey_set_c2sharedsecret: nothing is saved.     *)
FileSetId(i) == Ready /\ SetId(i) /\ Answer /\ UNCHANGED <<filepath, misloaded>>

FileSetC2SharedSecret(k) ==
    Ready /\ SetC2SharedSecret(k) /\ Answer /\ UNCHANGED <<filepath, misloaded>>

(* The calls that save and drop the result.                                *)
FileSetIdPubKey(k) ==
    Ready /\ SetIdPubKey(k) /\ UNCHANGED filepath /\ StartSync("set_idpubkey", Zero)

FileSetIdSecKey(k) ==
    Ready /\ SetIdSecKey(k) /\ UNCHANGED filepath /\ StartSync("set_idseckey", Zero)

FileSetC2PubKey(k) ==
    Ready /\ SetC2PubKey(k) /\ UNCHANGED filepath /\ StartSync("set_c2_pubkey", Zero)

FileResetTopics ==
    Ready /\ ResetTopics /\ UNCHANGED filepath /\ StartSync("reset_topics", Zero)

FileResetDevices ==
    Ready /\ ResetDevices /\ UNCHANGED filepath /\ StartSync("reset_devices", Zero)

(* The calls that save and return the result, unless they have refused.    *)
SaveUnless(refused, o, a) ==
    IF ret' = refused THEN Answer /\ UNCHANGED misloaded ELSE StartSync(o, a)

FileSetTopicKey(h, k) ==
    /\ Ready
    /\ SetTopicKey(h, k)
    /\ UNCHANGED filepath
    /\ SaveUnless(E4_ERROR_TOPICKEY_MISSING, "set_topic_key", h)

(* With a full table the row that is zeroed lies over filepath.            *)
FileRemoveTopic(h) ==
    /\ Ready
    /\ RemoveTopic(h)
    /\ filepath' = IF topics.count = E4_TOPICS_MAX /\ topics' # topics
                   THEN Zero ELSE filepath
    /\ SaveUnless(E4_ERROR_TOPICKEY_MISSING, "remove_topic", h)

FileSetDeviceKey(d, k) ==
    /\ Ready
    /\ SetDeviceKey(d, k)
    /\ UNCHANGED filepath
    /\ SaveUnless(E4_ERROR_DEVICEPK_MISSING, "set_device_key", d)

FileRemoveDevice(d) ==
    /\ Ready
    /\ RemoveDevice(d)
    /\ UNCHANGED filepath
    /\ SaveUnless(E4_ERROR_DEVICEPK_MISSING, "remove_device", d)

Change ==
    \/ \E i \in SelfIds : FileSetId(i)
    \/ \E k \in SelfKeys : FileSetIdPubKey(k)
    \/ \E k \in SecKeys : FileSetIdSecKey(k)
    \/ \E k \in C2Keys : FileSetC2PubKey(k)
    \/ \E k \in TopicKeys : FileSetC2SharedSecret(k)
    \/ \E t \in Topics, k \in TopicKeys : FileSetTopicKey(TopicHash(t), k)
    \/ \E t \in Topics : FileRemoveTopic(TopicHash(t))
    \/ \E d \in Ids, k \in PubKeys : FileSetDeviceKey(d, k)
    \/ \E d \in Ids : FileRemoveDevice(d)
    \/ FileResetTopics \/ FileResetDevices

FileNext ==
    \/ Change /\ calls < MaxCalls /\ calls' = calls + 1
    \/ /\ \/ Restart \/ ConfigureStorage \/ Sync
          \/ \E g \in Guesses : Load(g)
          \/ WriteField \/ WriteFail \/ SyncReturn
       /\ UNCHANGED calls

FileSpec == FileInit /\ [][FileNext]_fvars

-----------------------------------------------------------------------------
(* Properties.                                                             *)

(* A table call or sync that returns OK leaves the file holding both       *)
(* tables and all keys exactly, wherever its rows begin and whatever       *)
(* longer file, failed sync or stopped program was there before.           *)
DurableAfterOk ==
    [][ret = Pending /\ ret' = E4_RESULT_OK /\ filepath' # Zero => Stored(file)']_fvars

(* The secret is the one of the current keys after every load and call     *)
(* unless the application has set it, and neither count is beyond its      *)
(* array, wherever the counts were read from; except that a load which     *)
(* stops part way leaves new keys next to the secret of the old ones, and  *)
(* may leave a count of devices that is too large.                         *)
SoundUnlessMisloaded ==
    /\ topics.count \in 0 .. E4_TOPICS_MAX
    /\ ~misloaded => SecretMatchesKeys /\ devices.count \in 0 .. E4_DEVICES_MAX

(* What a call may leave in the file where the program stops.              *)
OldOrNew(reloaded, old, new, names) ==
    \A n \in names : Lookup(reloaded, n, Zero) \in {Lookup(old, n, Zero), Lookup(new, n, Zero)}

(* A call that changes neither count, because it replaces a key of a       *)
(* topic, of a device or of the client, survives the end of the program    *)
(* at any write: the file loads, and every name has its old or its new key.*)
RekeyCrashSafe ==
    /\ ~Idle /\ before.clean
    /\ topics.count = before.topics.count /\ devices.count = before.devices.count
    => \A g \in Guesses :
          /\ Loads(file, g)
          /\ OldOrNew(ReloadTopics, before.topics, topics, Hashes)
          /\ OldOrNew(ReloadDevices(g), before.devices, devices, Ids)

(* The sync of a call on devices never harms topics, and while a device is *)
(* being added those stored before keep their keys.                        *)
DeviceCallsConfined ==
    /\ op \in {"set_device_key", "remove_device", "reset_devices"} /\ before.clean
    /\ topics = before.topics
    => /\ TopicsRead(file)
       /\ OldOrNew(ReloadTopics, topics, topics, Hashes)
       /\ op = "set_device_key" =>
             \A g \in Guesses, d \in Names(before.devices) \ {arg} :
                Lookup(ReloadDevices(g), d, Zero) = Lookup(before.devices, d, Zero)
       /\ op # "set_device_key" => \A g \in Guesses : Loads(file, g)

(* While a topic is being added, the topics stored before keep their keys  *)
(* in what a load finds, even where it then fails at the devices.          *)
TopicAppendConfined ==
    /\ op = "set_topic_key" /\ before.clean /\ arg \notin Names(before.topics)
    => \A h \in Names(before.topics) :
          Lookup(ReloadTopics, h, Zero) = Lookup(before.topics, h, Zero)

(* A program that stops while a row is added or removed leaves the other   *)
(* rows of a file it had written completely as these two say.              *)
TableCrashConfined == DeviceCallsConfined /\ TopicAppendConfined

-----------------------------------------------------------------------------
(* Statements the code does not live up to.                                *)

(* A device has the key it was given or none after a restart, also when    *)
(* the program stopped while it saved a change of the topics.              *)
DeviceKeysPersist ==
    op \in {"set_topic_key", "remove_topic"} /\ before.clean =>
       \A g \in Guesses, d \in Ids :
          Loads(file, g) => Lookup(ReloadDevices(g), d, Zero) \in {Zero, Lookup(devices, d, Zero)}

(* A load processes no more entries than the table can hold.               *)
CountWithinTable == devices.count <= E4_DEVICES_MAX

=============================================================================

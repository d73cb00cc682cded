---------------------------- MODULE SymFileStore ----------------------------
(***************************************************************************)
(* The symmetric-key store kept in a file, e4c_store_file.c.               *)
(*                                                                         *)
(* The file is a row of cells, one per write() of e4c_symkey_sync: magic,  *)
(* id, key, topiccount, then the hash and the key of each topic.  A cell   *)
(* past the end of the file is Absent.  sync opens the file without        *)
(* O_TRUNC and writes the cells one after the other, so a call that syncs  *)
(* takes one step per cell: the program can stop between any two of them,  *)
(* and any write can fail.  Cells beyond the last one written keep what an *)
(* earlier, longer sync left there.                                        *)
(*                                                                         *)
(* A write() happens entirely or not at all, and what was written survives *)
(* the end of the program.                                                 *)
(***************************************************************************)
EXTENDS SymStore

CONSTANTS
    Magic,       \* E4V1_MAGIC
    Absent,      \* a cell beyond the end of the file
    Path,        \* the path of the file
    IdKeys,      \* the members of Keys that set_idkey is called with
    InitFiles,   \* what the file may hold when the program first starts
    MaxFaults    \* bound: how often, taken together, the store may start
                 \* afresh and an open() or write() may fail

ASSUME BoundAssumption == MaxFaults \in Nat
ASSUME IdKeysAssumption == IdKeys \subseteq Keys
(* A missing cell is told from every value a cell can hold, and a path     *)
(* from an empty one.                                                      *)
ASSUME AbsentAssumption ==
    /\ Absent \notin {Magic, Zero} \cup Ids \cup Keys
    /\ Absent \notin Hashes
    /\ Absent \notin 0 .. E4_TOPICS_MAX
    /\ Path # Zero

(* Positions of the cells.                                                 *)
MagicPos   == 1
IdPos      == 2
KeyPos     == 3
CountPos   == 4
HashPos(i) == 5 + 2 * i
TKeyPos(i) == 6 + 2 * i
LastPos(n) == 4 + 2 * n

Positions == 1 .. LastPos(E4_TOPICS_MAX)

NoFile == [p \in Positions |-> Absent]

VARIABLES
    id, key, ctrltopic, topics,  \* the store, as in SymMemStore
    filepath,                    \* store->filepath: Path, or Zero when empty
    file,                        \* the file at Path
    op,                          \* the call whose sync is running, or NoCall
    arg,                         \* the topic hash it was given, if any
    wpos,                        \* next cell sync writes; 0 outside of sync
    ret,                         \* result of the last call, or Pending
    before,                      \* during sync: the table when the call began,
                                 \* and whether the file then held the store
    configured,                  \* the path the application last configured
    misloaded,                   \* whether a load has stopped part way
    restarts, fails               \* how often each has happened

store == <<id, key, ctrltopic, topics, filepath>>
hist  == <<configured, misloaded>>
count == <<restarts, fails>>
vars  == <<store, file, op, arg, wpos, ret, before, hist, count>>

TRUNCATED == "1"        \* configure_storage's literal result
Pending   == "pending"  \* the call has not returned yet
NoCall    == "none"

Idle == wpos = 0

MoreFaults == restarts + fails < MaxFaults

-----------------------------------------------------------------------------
(* Loading.                                                                *)

(* Being content with rows that are cut off.                               *)
LoadsNoRows(f) ==
    /\ f[MagicPos] = Magic
    /\ f[IdPos] # Absent
    /\ f[KeyPos] # Absent
    /\ f[CountPos] # Absent
    /\ f[CountPos] <= E4_TOPICS_MAX

(* Whether load reads f to its end.                                        *)
Loads(f) ==
    /\ f[MagicPos] = Magic
    /\ f[IdPos] # Absent
    /\ f[KeyPos] # Absent
    /\ f[CountPos] # Absent
    /\ f[CountPos] <= E4_TOPICS_MAX
    /\ \A i \in 0 .. f[CountPos] - 1 : f[HashPos(i)] # Absent /\ f[TKeyPos(i)] # Absent

(* A field takes the value of the cell it is read from, and keeps its own  *)
(* when the read comes up short.                                           *)
Read(f, p, old) == IF f[p] # Absent THEN f[p] ELSE old

(* The table after the reads of load: topiccount is stored before it is    *)
(* compared with E4_TOPICS_MAX, and rows are read until one is missing.    *)
ReadTable(f, t) ==
    IF f[CountPos] = Absent THEN t ELSE
    [count |-> f[CountPos],
     slot  |-> [i \in DOMAIN t.slot |->
                  IF f[CountPos] <= E4_TOPICS_MAX /\ i < f[CountPos]
                  THEN [name |-> Read(f, HashPos(i), t.slot[i].name),
                        key  |-> Read(f, TKeyPos(i), t.slot[i].key)]
                  ELSE t.slot[i]]]

(* The table a new process loads.                                          *)
Reload == ReadTable(file, EmptyTable)

(* Every cell holds a value of its field, or is missing.                   *)
WellFormed(f) ==
    /\ f = [p \in Positions |-> f[p]]
    /\ f[IdPos] \in Ids \cup {Zero, Absent}
    /\ f[KeyPos] \in Keys \cup {Zero, Absent}
    /\ f[CountPos] # Absent => f[CountPos] \in 0 .. E4_TOPICS_MAX
    /\ \A i \in 0 .. E4_TOPICS_MAX - 1 :
          /\ f[HashPos(i)] \in Hashes \cup {Zero, Absent}
          /\ f[TKeyPos(i)] \in Keys \cup {Zero, Absent}

(* The file that is there when the program first starts was written by     *)
(* this store, by a sync that came to its end, or is not one of its files. *)
ASSUME FilesAssumption ==
    \A f \in InitFiles :
       /\ WellFormed(f)
       /\ f[MagicPos] = Magic => Loads(f) /\ UniqueNames(ReadTable(f, EmptyTable))

-----------------------------------------------------------------------------
(* Writing.                                                                *)

(* What sync writes into cell p.                                           *)
Image(p) ==
    CASE p = MagicPos -> Magic
      [] p = IdPos    -> id
      [] p = KeyPos   -> key
      [] p = CountPos -> topics.count
      [] p > CountPos -> LET row == topics.slot[(p - 5) \div 2]
                         IN  IF p = HashPos((p - 5) \div 2) THEN row.name ELSE row.key

(* A sync whose failures are not reported.                                 *)
SyncResultOk(o, r) == E4_RESULT_OK

(* The result of call o when its sync came to r: reset_topics drops it.    *)
SyncResult(o, r) == IF o = "reset_topics" THEN E4_RESULT_OK ELSE r

(* The file holds exactly what the store does.                             *)
Stored(f) ==
    /\ Loads(f)
    /\ f[IdPos] = id
    /\ f[KeyPos] = key
    /\ f[CountPos] = topics.count
    /\ \A i \in LiveSlots(topics) :
          f[HashPos(i)] = topics.slot[i].name /\ f[TKeyPos(i)] = topics.slot[i].key

NoSnapshot == [clean |-> FALSE, topics |-> EmptyTable]

(* The running call returns r.                                             *)
Return(r) ==
    /\ op' = NoCall
    /\ arg' = Zero
    /\ wpos' = 0
    /\ ret' = r
    /\ before' = NoSnapshot

(* Opening the file with O_TRUNC.                                          *)
StartSyncTrunc(o, a) ==
    /\ UNCHANGED <<fails, restarts>>
    /\ IF filepath' # Zero
       THEN /\ file' = NoFile
            /\ op' = o
            /\ arg' = a
            /\ wpos' = 1
            /\ ret' = Pending
            /\ before' = [clean |-> Stored(file), topics |-> topics]
       ELSE /\ Return(SyncResult(o, E4_ERROR_PERSISTENCE_ERROR))
            /\ UNCHANGED file

(* The start of sync, at the end of call o: it fails at once without a     *)
(* path or when the file cannot be opened.                                 *)
StartSync(o, a) ==
    /\ UNCHANGED <<file, restarts>>
    /\ \/ /\ filepath' # Zero
          /\ op' = o
          /\ arg' = a
          /\ wpos' = 1
          /\ ret' = Pending
          /\ before' = [clean |-> Stored(file), topics |-> topics]
          /\ UNCHANGED fails
       \/ /\ filepath' = Zero \/ MoreFaults
          /\ fails' = IF filepath' = Zero THEN fails ELSE fails + 1
          /\ Return(SyncResult(o, E4_ERROR_PERSISTENCE_ERROR))

(* One CHECKED_WRITE of sync.                                              *)
WriteField ==
    /\ wpos \in 1 .. LastPos(topics.count)
    /\ file' = [file EXCEPT ![wpos] = Image(wpos)]
    /\ wpos' = wpos + 1
    /\ UNCHANGED <<store, op, arg, ret, before, hist, count>>

(* A CHECKED_WRITE that fails: sync closes the file and reports it.        *)
WriteFail ==
    /\ wpos \in 1 .. LastPos(topics.count)
    /\ MoreFaults
    /\ fails' = fails + 1
    /\ Return(SyncResult(op, E4_ERROR_PERSISTENCE_ERROR))
    /\ UNCHANGED <<store, file, hist, restarts>>

(* sync has written everything.                                            *)
SyncReturn ==
    /\ wpos > LastPos(topics.count)
    /\ Return(SyncResult(op, E4_RESULT_OK))
    /\ UNCHANGED <<store, file, hist, count>>

-----------------------------------------------------------------------------
(* The calls.                                                              *)

(* A call that returns r without a sync.                                   *)
Answer(r) == Return(r) /\ UNCHANGED <<file, count>>

ZeroStore ==
    /\ id' = Zero
    /\ key' = Zero
    /\ ctrltopic' = Zero
    /\ topics' = EmptyTable
    /\ filepath' = Zero
    /\ configured' = Zero
    /\ misloaded' = FALSE

Init ==
    /\ id = Zero
    /\ key = Zero
    /\ ctrltopic = Zero
    /\ topics = EmptyTable
    /\ filepath = Zero
    /\ file \in InitFiles
    /\ op = NoCall
    /\ arg = Zero
    /\ wpos = 0
    /\ ret = E4_RESULT_OK
    /\ before = NoSnapshot
    /\ configured = Zero
    /\ misloaded = FALSE
    /\ restarts = 0
    /\ fails = 0

(* e4c_symkey_init, called again by the application or by the program that *)
(* is started after one that stopped between two calls.                    *)
InitStore ==
    /\ Idle
    /\ MoreFaults
    /\ restarts' = restarts + 1
    /\ ZeroStore
    /\ Return(E4_RESULT_OK)
    /\ UNCHANGED <<file, fails>>

(* e4c_symkey_configure_storage: strlcpy returns the length of the path,   *)
(* which is never below the length it is compared with.                    *)
ConfigureStorage ==
    /\ Idle
    /\ filepath' = Path
    /\ configured' = Path
    /\ Answer(TRUNCATED)
    /\ UNCHANGED <<id, key, ctrltopic, topics, misloaded>>

(* e4c_symkey_load: configures the path, whatever that returns, then reads *)
(* into the store until a read fails.                                      *)
Load ==
    /\ Idle
    /\ filepath' = Path
    /\ configured' = Path
    /\ misloaded' = (misloaded \/ (file[MagicPos] = Magic /\ ~Loads(file)))
    /\ IF file[MagicPos] = Magic
       THEN /\ id' = Read(file, IdPos, id)
            /\ ctrltopic' = IF file[IdPos] # Absent
                            THEN TopicHash(ControlTopic(file[IdPos])) ELSE ctrltopic
            /\ key' = Read(file, KeyPos, key)
            /\ topics' = ReadTable(file, topics)
       ELSE UNCHANGED <<id, key, ctrltopic, topics>>
    /\ Answer(IF Loads(file) THEN E4_RESULT_OK
                          ELSE E4_ERROR_PERSISTENCE_ERROR)

(* e4c_symkey_sync, called by the application.                             *)
Sync ==
    /\ Idle
    /\ UNCHANGED <<store, hist>>
    /\ StartSync("sync", Zero)

(* e4c_symkey_set_id                                                       *)
SetId(i) ==
    /\ Idle
    /\ ctrltopic' = TopicHash(ControlTopic(i))
    /\ id' = i
    /\ Answer(E4_RESULT_OK)
    /\ UNCHANGED <<key, topics, filepath, hist>>

(* e4c_symkey_set_idkey                                                    *)
SetIdKey(k) ==
    /\ Idle
    /\ key' = k
    /\ Answer(E4_RESULT_OK)
    /\ UNCHANGED <<id, ctrltopic, topics, filepath, hist>>

(* e4c_symkey_set_topic_key                                                *)
SetTopicKey(h, k) ==
    LET i == FirstSlot(topics, h)
    IN  /\ Idle
        /\ UNCHANGED <<id, key, ctrltopic, filepath, hist>>
        /\ IF i >= E4_TOPICS_MAX
           THEN /\ Answer(E4_ERROR_TOPICKEY_MISSING)
                /\ UNCHANGED topics
           ELSE /\ topics' = PutAt(topics, i, h, k)
                /\ StartSync("set_topic_key", h)

(* e4c_symkey_remove_topic.  The row numbered topiccount is zeroed before  *)
(* the count goes down; when the table is full that row lies beyond the    *)
(* array, over the first bytes of filepath.                                *)
RemoveTopic(h) ==
    LET i == FirstSlot(topics, h)
    IN  /\ Idle
        /\ UNCHANGED <<id, key, ctrltopic, hist>>
        /\ IF i < topics.count
           THEN /\ topics' = CloseGap(topics, i, topics.count, ZeroEntry)
                /\ filepath' = IF topics.count = E4_TOPICS_MAX THEN Zero ELSE filepath
                /\ StartSync("remove_topic", h)
           ELSE /\ Answer(E4_ERROR_TOPICKEY_MISSING)
                /\ UNCHANGED <<topics, filepath>>

(* e4c_symkey_reset_topics                                                 *)
ResetTopics ==
    /\ Idle
    /\ topics' = [topics EXCEPT !.count = 0]
    /\ UNCHANGED <<id, key, ctrltopic, filepath, hist>>
    /\ StartSync("reset_topics", Zero)

(* The program stops in the middle of a sync and is started again with an  *)
(* initialised store.                                                      *)
Crash ==
    /\ ~Idle
    /\ MoreFaults
    /\ restarts' = restarts + 1
    /\ ZeroStore
    /\ Return(E4_RESULT_OK)
    /\ UNCHANGED <<file, fails>>

Next ==
    \/ InitStore \/ ConfigureStorage \/ Load \/ Sync
    \/ \E i \in Ids : SetId(i)
    \/ \E k \in IdKeys : SetIdKey(k)
    \/ \E h \in Hashes, k \in Keys : SetTopicKey(h, k)
    \/ \E h \in Hashes : RemoveTopic(h)
    \/ ResetTopics
    \/ WriteField \/ WriteFail \/ SyncReturn
    \/ Crash

Spec == Init /\ [][Next]_vars

-----------------------------------------------------------------------------
(* Properties.                                                             *)

(* A step of the sync of a call that reports what sync came to.            *)
Saves == ret = Pending /\ op # "reset_topics" /\ restarts' = restarts

(* A table call, sync or load that returns OK leaves the file holding the  *)
(* store exactly, ids and keys changed by earlier calls that do not sync   *)
(* included: cells left over from a longer file, from a sync that failed   *)
(* or from a program that stopped never show through.                      *)
DurableAfterOk ==
    [][(Saves \/ Load) /\ ret' = E4_RESULT_OK => Stored(file)']_vars

(* Changing the key of a stored topic survives the end of the program at   *)
(* any cell: the file loads, the topic has its old or its new key and      *)
(* every other topic its own.                                              *)
RekeyCrashSafe ==
    /\ op = "set_topic_key"
    /\ before.clean
    /\ arg \in Names(before.topics)
    => /\ Loads(file)
       /\ \A h \in Hashes \ {arg} : Lookup(Reload, h, Zero) = Lookup(before.topics, h, Zero)
       /\ Lookup(Reload, arg, Zero) \in {Lookup(before.topics, arg, Zero),
                                         Lookup(topics, arg, Zero)}

(* Adding a topic: topiccount is written before the new row, so a program  *)
(* that stops in between leaves a file that does not load, or that loads   *)
(* with a leftover row; in that case every stored topic still has its key. *)
AppendCrashConfined ==
    /\ op = "set_topic_key"
    /\ before.clean
    /\ arg \notin Names(before.topics)
    /\ Loads(file)
    => \A h \in Names(before.topics) :
          Lookup(Reload, h, Zero) = Lookup(before.topics, h, Zero)

(* Removing a topic rewrites the rows after it: a program that stops in    *)
(* between leaves a file that loads, keeps the rows before it, and names   *)
(* no topic that was not stored.                                           *)
RemoveCrashConfined ==
    /\ op = "remove_topic"
    /\ before.clean
    => /\ Loads(file)
       /\ Names(Reload) \subseteq Names(before.topics)
       /\ \A i \in 0 .. FirstSlot(before.topics, arg) - 1 :
             i < Reload.count /\ Reload.slot[i] = before.topics.slot[i]

(* A program that stops while the number of topics changes leaves a file   *)
(* in which the harm is confined to the rows that move.                    *)
TableCrashConfined == AppendCrashConfined /\ RemoveCrashConfined

(* As long as no write failed and the program did not stop, a topic has    *)
(* one row: loading a file written by any sequence of calls keeps it so.   *)
UniqueWithoutFaults ==
    restarts = 0 /\ fails = 0 => UniqueNames(topics)

-----------------------------------------------------------------------------
(* Statements the code does not live up to.                                *)

(* remove_topic removes the topic: while it saves the shortened table the  *)
(* topic no longer has a key.  Asked of a store whose loads all succeeded. *)
RemovedIsGone ==
    op = "remove_topic" /\ ~misloaded => arg \notin Names(topics)

(* The path is the one the application configured, whatever table calls    *)
(* were made since.                                                        *)
PathKept == filepath = configured

=============================================================================

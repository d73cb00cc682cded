# TLA+ models and proofs for libe4

libe4 is the C client library of the E4 key-management system. An application
hands it messages to *protect* and received messages to *unprotect*; the keys
come from a server, the C2, in control messages that `unprotect` executes. This
directory holds TLA+ models of the library's own logic, the TLC runs that check
them and the TLAPS proofs about them. Paths below are relative to the
repository root.

## 1. The system

| part | files | state | operations |
|---|---|---|---|
| symmetric store in memory | `src/e4c_store_mem.c` | id, key, hash of the control topic, array of (topic hash, key) rows with a count | init, set_id, set_idkey, set_topic_key, remove_topic, reset_topics, lookups |
| symmetric store in a file | `src/e4c_store_file.c` | the same, a path, and the file | the same, configure_storage, load, sync; the table calls end with a sync |
| symmetric client | `src/e4symclient.c` | the store; on AVR a clock `secs1970` | protect_message, unprotect_message (window check, clock calibration, commands RemoveTopic, ResetTopics, SetIdKey, SetTopicKey) |
| public-key store in memory | `src/e4c_pk_store_mem.c` | id, key pair, C2 key, cached shared secret, topic table, device table | as above, set_idseckey, set_idpubkey, set_c2_pubkey, set_device_key, remove_device, reset_devices |
| public-key store in a file | `src/e4c_pk_store_file.c` | the same, a path, and the file | the same, load and sync |
| public-key client | `src/e4pkcclient.c` | the store; on AVR a clock | protect_message with a signature, unprotect_message, three more commands |
| helpers | `src/e4util.c`, `src/strlcpy.c` | none | control topic, topic hash, client id, hex decoding |
| hashes and cipher | `src/crypto/*.c` | contexts of SHA-3 and SHA-512 | AES-256, AES-SIV, SHA-3 and SHAKE, SHA-512 |
| curve arithmetic | `src/crypto/ed25519/`, `curve25519/`, `xed25519.c` | none | sign, verify, add_scalar, key agreement, key conversion |
| outside the repository | C2 server, network, other devices, clock | | commands and key rotation; loss, repetition, reordering |

**How they interact.** A client calls its store synchronously; there are no
threads, callbacks or locks (the repository's README says that the library is
not thread-safe and its calls not reentrant). What makes the code hard to test
lies elsewhere:

* *Crashes and failed writes.* `sync` rewrites the file in place, field by
  field, without truncating it. The program can stop, or a write fail, between
  any two fields. In the public-key file the device rows lie behind the topic
  rows and change their place with the number of topics.
* *An unreliable network.* Messages are lost, repeated and reordered; the only
  defence is a window of ten minutes around the clock, and an AVR client takes
  its clock from the messages.
* *Key rotation.* The C2 uses the next key at once; the client has it when the
  message arrives, if it arrives, and keeps it in memory only until an unrelated
  call saves the store.
* *Tables of fixed size* in C arrays, with shifts and with rows that stay in
  the array after they are dead.
* *Cached derived values*: the control topic's hash, the shared secret.
* *Arithmetic at its limits*: lengths next to block boundaries, carries in fixed
  numbers of passes, limbs near the width of a machine word.

`PROJECT.json` lists these hazards line by line with the properties that cover
them.

## 2. Modules

Stores, clients and their composition:

```
E4Proto ── KeyTable ─┬─ SymStore ─┬─ SymMemStore ──(INSTANCE)── KeyMap
                     │            │      └──(INSTANCE in)── SymClient ── MCSymClient
                     │            └─ SymFileStore ─┬─ MCSymFileStore
                     │                             └─ E4System (INSTANCE SymClient)
                     └─ PkStore ──(INSTANCE)── KeyMap
                            ├── PkFileStore
                            └── PkClient ── MCPkClient
```

Their proofs; each also extends the module it is about:

```
KeyTableProofs ─┬─ SymMemStoreProofs
                ├─ E4SystemProofs (the symmetric file store included)
                ├─ SymClientProofs
                └─ PkStoreProofs ─┬─ PkFileStoreProofs
                                  └─ PkClientProofs
PrimitivesProofs
```

Primitives:

```
Sha3 ── Primitives ────────────────────────────────────────── MCSymPrimitives
             └─ (INSTANCE Keccak, Sha512, Sha512Rounds,            │
                 AesSiv, E4Util)             Aes256 ─(INSTANCE in)─┘
Field ── Edwards ─┬─ Ed25519    ─┐
                  └─ Montgomery ─┤
Chains  FeBytes                 ─┼──(INSTANCE in)── MCCurve
Bounds ─┬─ FeMul                ─┤
        └─ Scalar               ─┘
```

### Stores and clients

**E4Proto** has the result codes and the two name derivations. Byte strings are
values that keep the equalities `memcmp` sees; a derivation wraps its argument,
which makes SHA-3 and hex rendering injective.

**KeyTable** is the array with its count, as a record `[count, slot]`.
`FirstSlot` is the scan, `PutAt` the write, `CloseGap` the removal: it takes the
bound of the moving loop as a parameter, because `remove_device` uses another
one than `remove_topic`. Slots at or above `count` keep their contents as the C
array does.

**KeyMap** is the abstract specification of a table: a partial map bounded by a
capacity.

**SymMemStore**: one action per call of `e4c_store_mem.c`, `ret` its result.

**SymFileStore**: the file is a row of cells, one per `write()`; a cell past the
end is `Absent`. A call that syncs changes the table and opens the file in one
step (`StartSync`), then takes one `WriteField` per cell and a `SyncReturn`.
`WriteFail` ends the sync with the error, `Crash` ends the program.
`Load` reads into the store until a cell is missing, and what it has read
stays. `before`, `arg`, `configured` and `misloaded` are history for the
properties. Calls are not interleaved with a running sync, as the library is
single-threaded.

**SymClient**: `Protect` and `Unprotect` on the in-memory store, whose actions
it uses through `INSTANCE`; the C2 (`C2Topic`, `C2Rotate`), the clocks and the
network are the environment. The network is a set that only grows: taking any
element of it at any time is delivery with loss, repetition and reordering. The
C2 and the client have a clock each, `now` and `secs1970`, which tick apart
(`Tick`, `ClockTick`). `HasRTC`, chosen at the start from `Builds`, selects the
build. With it `secs1970` is what `time(NULL)` returns: it starts at one of
`RTCDates`, which may be before 2000 (the window is skipped then), behind or
ahead of the C2's, and can be set to one (`SetClock`). Without it `secs1970`
counts from 0 until a control message sets it.

**E4System** composes the client of `SymClient` (its `Verdict` and `IsControl`,
with timestamps ignored) with the store of `SymFileStore` and its sync write by
write, the C2, and an application that starts again after the program stopped:
it loads the store, and provisions the client anew when the file does not load.

**PkStore**: the calls of `e4c_pk_store_mem.c`, whose sync does nothing. `foreign`
is history: the secret in the store was not derived from the keys.

**PkFileStore** extends it with the file of `e4c_pk_store_file.c`. Because rows
move, the file is modelled in *units* with offsets: a count or a header field
takes one, a name or a key of a row two. A name or key read from units that do
not belong together is `Garbage`, a count read from a unit that is none any
number. Calls whose result ignores that of sync are distinguished from those
that return it.

**PkClient** extends PkStore with `unprotect_message` (`Open`: control topic,
sender's key, signature, topic key, decryption; `Window`; `Execute`) and
`protect_message`. Devices can put any id on a message and sign it with any key.
The clocks are those of SymClient.

Abstractions common to both clients: AES-SIV opens under the key it was made
with and no other; a signature is the public key it verifies under; checks for
NULL and for buffer sizes become `RefuseCall`, which may happen at any time and
changes nothing; a RemoveTopic command with its hash cut off removes any hash,
as the code then reads what is left in the buffer, and so does a RemovePubKey
with its id cut off with any device.

### Primitives

Each module has the steps of the code (calls, rounds, instructions or carries)
as actions and a *reference*, the standard's definition, to be compared with.
Where a size carries no logic it is a parameter and small; where it does, it is
the one of the code.

* **Sha3**: `sha3_update`, `sha3_final`, `shake_xof`, `shake_out` on a state of
  a few bytes. A byte is the set of terms it is the exclusive or of, so two
  results are equal only if they are for every message and permutation.
  **Keccak**: the permutation itself with 25 lanes of 64 bits, two rounds per
  turn, against theta, rho, pi, chi and iota of FIPS 202.
* **Sha512**: buffering and padding with symbolic blocks. **Sha512Rounds**: the
  rounds and the message schedule, against those of FIPS 180-4, where the words
  move. The width of a word and the constants K are parameters; a word is the
  set of its bits, sums are taken of its number, rotations modulo the width.
* **Aes256**: key expansion and encryption with the real tables and sizes,
  against the rounds of FIPS 197. The entries of Te0 to Te3 are defined as the
  code's comment gives them and were compared with the arrays outside TLA+, as
  was Te4 with the inverse in the field.
* **AesSiv**: the byte-wise CMAC, counter mode, encryption and decryption. A byte
  is the set of its bits; blocks have three bytes in the run, and some function
  that mixes them stands for AES. The reference is in terms of whole blocks,
  polynomials and numbers.
* **Primitives** puts all of these but Aes256 side by side with E4Util, with the
  assumptions on their sizes and inputs, for the run and the proofs. Aes256 uses
  Bitwise, which no module with proofs can reach.
* **E4Util**: `e4c_derive_control_topic`, `e4c_hex_decode` and `strlcpy` on a
  memory that goes on behind the buffer.
* **Edwards**: the point formulas, the recodings and both scalar
  multiplications of `ge.c`. **Ed25519**: key pair, sign, verify, add_scalar.
  **Montgomery**: the conversion of a public key and the ladder. They work on a
  small curve of the same kind (−x² + y² = 1 + dx²y² over a prime that is 5
  modulo 8). **Field** gives an element a value and a *magnitude*: sums are not
  reduced in the code, so their limbs grow, and a product of limbs that have
  grown too large is undefined.
* **Chains**: the addition chains of `fe_invert`, `fe_pow22523` and `crecip`,
  instruction by instruction and in full length; a register is an exponent.
* **FeMul**, **Scalar**: the limb products of `fe.c` and `curve25519-donna.c`,
  the folds and carries of `sc.c`. Values are followed with narrow limbs, sizes
  with the real widths (25 and 26 bits, 21 bits) as upper bounds of **Bounds**,
  whose operations round up.
* **FeBytes**: limbs from bytes and bytes from limbs with the real widths.

**MCSymPrimitives** and **MCCurve** put the machines of a group in one run:
`machine` selects one at the start, and where its module is an instance `u` to
`z` stand for its variables. The
machines share nothing and do not interact.

## 3. Runs

| run | checks | result |
|---|---|---|
| `mem_store` | types; one row per topic; control topic follows the id; the array implements `KeyMap`, each call the operation it is named for | holds |
| `file_store` | what a new process would load at every cell of every sync: replacing a key is safe, adding a topic never harms stored ones, removing one harms only the rows after it; no duplicates without faults; after a failing open or write, a stop during a sync, or an older file, the next call that returns OK has repaired the file | holds |
| `file_removed_returns` | `RemovedIsGone` | violated |
| `client` | keys only from the C2; a client behind the C2 has a rotation under its key that nothing but its timestamp refuses; rotation once; bounded rollback; an AVR clock that messages never set back; builds with and without a clock, clocks that lag, lead, are unset or set | holds |
| `pk_store` | the cached secret follows the keys; each call is its operation on the `KeyMap` of topics while the device table is not full | holds |
| `pk_remove_device` | `RemoveDeviceUnbinds` | violated |
| `pk_client` | accepted messages carry a signature certified by the C2 for their sender; a client behind the C2 has a rotation under its secret that nothing but its timestamp refuses; both builds and kinds of clocks | holds |
| `pk_revoke` | `RevokedGone` | violated |
| `pk_file` | the secret and the counts after every load; what a new process would load at every write: replacing a key is safe, calls on devices never harm topics, adding a topic never harms stored topics; what a call that returns OK has saved | holds |
| `system` | after any stop the client is on the chain of keys that the C2 has sent messages for; topic keys come from the C2 even from half-written files; client and C2 come to the same key and stay there | holds |
| `sym_primitives` | SHA-3, SHA-512, AES-256, AES-SIV against FIPS 202, 180-4, 197 and RFC 5297; buffers and names of the string helpers | holds |
| `curve` | key pairs, signatures, key agreement on a small curve; powers, products, bytes and scalars in limbs | holds |

**Bounds and why they are enough.**

* *Tables*: 3 rows for the symmetric file store, because removing from a *full*
  table erases the path, so a removal that moves rows and saves needs a table
  that is not full with two rows; 3 in `mem_store`, so that a row in the middle
  can go; 1 or 2 elsewhere, so that the limit is reached. Two keys tell an old
  one from a new one.
* *Symmetry*: in `client` that of topics and of id keys not yet sent, in
  `pk_client` that of signing keys and of private keys not yet sent; no
  definition singles one of them out.
  Both runs also take states for one that differ only in the results of past
  calls, and in `pk_client` in `revoked` (`MCView`), which no action and no
  property of the run reads.
* *Faults*: `MaxFaults` is 1 in the file runs: a fault leaves a file that the
  next full sync rewrites up to its end, and one is enough to leave any mixture
  of two saved tables. It is 2 in `system`, where a second stop can meet the
  client on its way back. `MaxCalls` is 3 in `pk_file`: a file with one row in
  each table, or two in one, and a call to change it.
* *Time*: `RealTime = 1` stands for 946684800, the C2's clock starts there, and
  `RTCDates` are 0 and 2. So a device's clock starts, or is set, before 2000 or
  ahead of the C2's, and falls behind or gets ahead while the other one ticks.
  In `client` both clocks run up to 3, with a window of one second ahead and
  none behind: a timestamp below, at and beyond either end occurs in both builds,
  and `slack` comes to its bound. In `pk_client` they run up to 2 with windows of
  zero. An AVR clock can also count up to `RealTime` by itself, if nothing sets
  it before.
* *Messages*: 3 (two rotations and a command, or three commands), and 4 in
  `pk_client` (topic key, two keys of a sender, the sender's message; or two
  rotations and two commands).
* *Hashes and cipher*: a state of 7 bytes with rates of 5 and 3, and blocks of 6
  with messages of up to 13 bytes, so that each has an empty, a partial, a full
  and a second block and every place the padding can fall on; plaintexts of up
  to 7 bytes in blocks of 3; counters next to a carry. Keccak starts from no
  bit and from one bit at either end of each lane, the rounds of SHA-512, with
  words of 16 bits, from one word set in each place of the block, AES from the example of FIPS 197 and
  15 other inputs: after the first rounds every lane, word and table is in use,
  and a slip in the wiring shows.
* *Curve*: the field of 509 elements and a base point of order 61, scalars of
  two bytes. Neutral point, points of small order, scalars of ones and
  scalars with long carries in their recodings are among the inputs.
  The limbs of `FeMul` are 2 and 1 bits wide and those of `Scalar` 2, so that
  values stay within TLC's integers; what depends on the width, overflow, is
  checked with the real one. `FeBytes` and `Chains` are not scaled down.

Deadlock is checked everywhere except in `system`, where all that was sent may
have been carried out, and in the two runs of primitives, where a computation
ends.

**Fairness.** Only `system` needs any. Weak fairness of `SyncStep`: a sync that
has begun goes on, since the library is single-threaded and nothing else runs.
Weak fairness of `Start` and `Provision`: an application that was started
prepares its store. Strong fairness of the delivery of each rotation message: a
message cannot be taken during a sync or while the program is down, so it is
enabled again and again only; the transport (MQTT in the repository's README)
has to keep and repeat it, which the library does nothing for. The C2 and the
program that stops promise nothing; they do finitely much because of the
bounds. The client of `system` ignores timestamps. One that does not loses a
rotation message for good when it arrives after the window, and no fairness
brings it back.

## 4. Where the code and its comments part

1. `file_removed_returns`: a row removed from the table stays in the file behind
   its end; a program that stops during a later set_topic_key, after the count
   and before the row, leaves a file in which a topic has two rows. One
   remove_topic then does not remove it.
2. `pk_remove_device`: the shift of remove_device is bounded by topiccount, in
   both public-key stores.
3. `pk_revoke`: RemovePubKey acts on ill-formed commands only.

Seen while modelling, in the models, and not given a run:

* Removing from a full table zeroes 48 bytes of `filepath`
  (`e4c_store_file.c:354`); nothing is saved from then on (`PathKept`).
* Inside the window a message is accepted any number of times, whereas the
  repository's README speaks of replay defense (`ReplayDefense`).
  `RollbackBounded` and `RotationOnce` say what holds nevertheless.
* A build with a clock that is before 2000 checks no window, for as long as the
  clock stays there: control messages set a local variable only
  (`e4symclient.c:128`, `ClockAfter`). `RollbackBounded` counts the commands held
  against the window, and starts anew when a clock is set back.
* A rotation that is lost, or comes when it is older than the window, leaves the
  client on the old key for good, unless the application ignores timestamps.
  `RotationChain` says that nothing else refuses the rotation a client needs, not
  that it arrives.
* A RemovePubKey command that is cut off removes the device named by the bytes
  left in the buffer (`e4pkcclient.c:422`, `RemovePubKeyShort`), and a RemoveTopic
  the topic (`e4symclient.c:221`).
* reset_topics of the file store drops the result of its sync and returns OK
  when a write failed (`e4c_store_file.c:372`, `SyncResult`). `DurableAfterOk`
  leaves it out.
* load stores topiccount before it compares it with E4_TOPICS_MAX and leaves it
  there when it is too large (`e4c_store_file.c:118`, `ReadTable`). The runs
  start without a file, so the count in one is never too large. In the
  public-key file the device count is read at a place that moves, and does
  become too large (`CountWithinTable`).
* A program that stops while the public-key store saves a change in the number
  of topics leaves device rows that are read from the wrong place
  (`DeviceKeysPersist`).
* Removing a device from a full table zeroes the first topic row
  (`e4c_pk_store_file.c:541`, `RemoveDevice`). `CallsRefineKeyMap` of PkStore
  is checked with a device table that does not fill.
* protect_message of the public-key client ends with a length check that fails
  for every message (`e4pkcclient.c:195`, `ProtectResult`).
* configure_storage returns 1 whatever the path: it takes the result of
  `strlcpy` for more than the length of the source, which it never is.
* `e4c_hex_decode` returns the number of digits, not of bytes (`E4Util`).
* `ed25519_sign` takes the first 32 bytes of the private key as the scalar,
  `xed25519_convert_ed2c_private` hashes them as a seed. A private key that
  `ed25519_add_scalar` has moved suits the former only.

## 5. Proofs

Every theorem holds for every value of the constants that the named assumptions
of its modules allow: any sets of ids, keys, topics and messages, any table
size, any number of faults and calls. Of the 39 theorems, 31 state a property
of a run, 6 an inductive invariant and 2 how a client uses its store. The
subsections below say what had to be added to the properties to make them
inductive.

### Tables (`KeyTableProofs`)

What the scan, the write and the removal do to any table of any size: where the
scan ends, that a write adds its name and a removal drops it, and that lookups
of all other names are unaffected. With distinct names, names and rows are also
equally many. Crashes and remove_device leave tables with repeated names, so
there are lemmas for those too: the scan ends at the least row with the name
(`ScanFirst`; the row exists because the natural numbers are well founded,
`LeastElement`), two tables with the same names are scanned alike (`ScanSame`),
and after a write or a removal each row is the old one, the next one or the one
written (`PutRows`, `GapRows`).

### Stores in memory

`SymMemStoreProofs`, for every `E4_TOPICS_MAX >= 1` and values that are not the
zero value (`MaxAssumption`, `ZeroAssumption`):

* `SymMemStoreInvariant`: `IInv == TypeOK /\ TopicsUnique /\ CtrlTopicOfId` is
  inductive. `TopicsUnique` alone is not: that the count stays inside the array
  is what keeps the row remove_topic zeroes out of the live ones, and distinct
  names are what makes the removed name disappear.
* `SymMemStoreTypeOK`, `SymMemStoreTopicsUnique`, `SymMemStoreCtrlTopicOfId`:
  its consequences.
* `SymMemStoreRefinesKeyMap`: `Spec => KM!Spec`. The initial table maps to the
  empty map; each call maps to a step of the map or to a stutter. The step for a
  full table needs that distinct names are as many as live rows.
* `SymMemStoreCallsRefineKeyMap`: each call is its own operation of the map. The
  refinement alone does not say so: a set_topic_key that did nothing would be a
  stutter, and one that removed another topic than its own would still be a
  removal.

`PkStoreProofs`:

* `PkStoreSecretMatchesKeys`: the cached secret equals the one derived from the
  current keys after any sequence of calls (`NonZeroAssumption`: callers hand in
  no zero key). The property is inductive; the case to see is a key set while
  the other one is missing, where the secret must already have been absent.
* `PkStoreTypeOK`: both counts stay within their arrays for all sizes with
  `E4_TOPICS_MAX <= E4_DEVICES_MAX` (`SizeAssumption`), which is what keeps the
  loop of remove_device inside its array.
* `PkStoreCallsRefineKeyMap`: `Spec /\ [][RemovalFits]_vars => CallsRefineKeyMap`.
  The hypothesis says that no device is removed from a device table that is
  full, and it cannot go: that call zeroes the first topic row. The table may
  fill otherwise. The invariant is that topics have distinct names and no live
  row is zeroed.

### Stores in files

The symmetric store (in `E4SystemProofs`) and the public-key one
(`PkFileStoreProofs`) have the same plan. The properties
speak of what a new process *would* load from the file at any moment, so the
invariant `SyncInv` describes the file while it is being rewritten:

* `Written`: what the sync has been through holds the store;
* `Unwritten`: what it has not reached holds the store before the call, if the
  file held that then (`before.clean`);
* `TableOfCall`, `TablesOfCall`, `SameNames`: how the tables differ from those
  before the call; rows in front of the changed one are the same, so it does
  not matter on which side of the write position they are;
* `StoreType`: types, and that position, pending result and running call go
  together.

In the public-key file the rows of the devices move with the number of topics,
so positions are mapped to units (`Start`) and the old tables to the units they
had (`Picture`). A field takes two units and a sync never stops between them,
which is why a field read at its own place is whole, and why only reading at a
wrong place yields `Garbage`. There the count of devices can be wrong after a
load; that it is not while a sync runs is part of `StoreType`.

* `SymFileStoreInvariant`, `PkFileStoreInvariant`: `[]SyncInv`.
* `SymFileStoreDurableAfterOk`, `PkFileStoreDurableAfterOk`: at the last
  position `Written` covers everything a load reads, whatever follows in a
  longer file.
* `SymFileStoreRekeyCrashSafe`, `PkFileStoreRekeyCrashSafe`: where no count
  changes no name does, so old and new rows differ in keys only, one row at a
  time.
* `SymFileStoreTableCrashConfined`, `PkFileStoreTableCrashConfined`.
* `SymFileStoreUniqueWithoutFaults`, with `Faultless`: also the file that the
  last sync has left has distinct names, because a load takes its rows over
  without looking at them.
* `PkFileStoreSoundUnlessMisloaded`: the secret and the counts. A load that
  stops part way leaves the old secret beside new keys (`misloaded`); one that
  comes to the end derives it anew and has seen a count that fits.

Assumptions of the file stores: `AbsentAssumption`, the end of the file is told
from anything it holds, as `read()` does by its result; `IdKeysAssumption`, id
keys are keys; `FilesAssumption`, a file that is there at the start was written
by this library: its cells are of their kinds, and with a magic it loads and
has distinct names. TLC evaluates them on the instances of the runs.

### Clients

`SymClientProofs`, for any window, number of rotations and messages and both
builds. `ClientInv` has, beside types and what can be on the network:

* `C2Chain`: the rotations sent are a chain; each key that was issued, but the
  last, has one message that leads on from it, and no two lead from or to the
  same key.
* `Position`: the rotations behind the client are the accepted ones, and none
  that is still to be accepted leads to its key or to one behind it. This is
  what `RotationChain` and `RotationOnce` lack: the client keeps no record of
  what it has executed, and only the key under which a message opens keeps an
  old rotation from being executed again.
* `Dates`: the latest command held against the window is ahead of the client's
  own clock by no more than E4C_TIME_FUTURE, and there is none while that clock
  does not know the date. It speaks of no other clock, so it stays true when the
  C2's runs away in either direction. The next command is behind the client's
  clock by at most E4C_TIME_TOO_OLD, hence `RollbackBounded` with the sum of the
  two, and `ClockNeverBack`.

`RotationChain` also needs that no live row of the table has the hash of the
control topic (lemma `NoCtrlRow`): the rotation would otherwise be read as an
ordinary message.

`TopicsAssumption` says that no ordinary topic is the client's control topic.
The code looks a topic up in the table before it compares it with the control
topic, and the C2 of the model sends no key for the latter.

Theorems: `SymClientInvariant`, `SymClientKeysFromC2`,
`SymClientRotationChain`, `SymClientRotationOnce`, `SymClientRollbackBounded`,
`SymClientClockNeverBack`. `SymClientCallsStore`: each step of the client is a
call of `SymMemStore` or leaves the store alone (`StoreStep`), so the invariant
of the store and its refinement of `KeyMap` hold in the client as well. The
lemmas of `SymMemStoreProofs` are cited through `INSTANCE`.

`PkClientProofs`, with the same chain over key pairs and shared secrets, and
with `RowsCertified`: every live row of the device table, those that
remove_device leaves twice included, is one that the C2 has certified.
`PkClientOriginAuthentic` follows: the row an accepted message was verified with
was live, and certificates do not leave the network. `PkClientRotationChain` is
the counterpart of the symmetric one; it assumes that a shared secret, which is
a hash, is never the zero value that stands for a missing one
(`SecretAssumption`). `PkClientCallsStore` shows that each step
of the client is a call of `PkStore` or leaves it alone, so that in the client,
too, types and cached secret are right, and calls do what they are named for as
long as no device is removed from a full table.

`E4SystemProofs`: the client on its file. The symmetric store's `SyncInv` holds
in the composition, and so does that every key cell of the file (`FileInv`),
every live key of a running program (`StoreInv`) and every key of the chain
(`C2Inv`) is the C2's. The file needs its own clause: a load may meet any
mixture of two saved stores, and the clause holds of each cell by itself.
`E4SystemRestartOnChain` and `E4SystemTopicKeysFromC2` follow, for any number of
stops, failing writes and messages.

### Hashes, AES-SIV and strings (`PrimitivesProofs`)

For a state, digests, a block and a length field of any size that fit
(`SizesFit`, `Sha512SizesFit`, `AesSivBytesFit`), messages of any length and any
way to cut them into calls:

* `Sha3GivesSponge`: `[]Sha3IsSponge`. The invariant `Sha3Inv` says that while a
  message is taken the context holds the state of the sponge after its complete
  blocks, with the rest of the message combined into the first `pt` bytes, and
  that while output is taken it holds the state that the next byte comes from.
  The code combines byte by byte and permutes as soon as a block is full; the
  standard pads the message first and then takes whole blocks. That the two
  agree rests on the blocks of a message being those of any longer one
  (`TakenOfLonger`, so padding does not disturb what was absorbed), on exclusive
  or being associative where suffix and final bit fall on one byte
  (`PadBlockPads`), and on the reference taking empty blocks while output is
  squeezed (`SqueezeByteGives`).
* `Sha512GivesDigest`: `[]Sha512DigestIsFips`. The invariant `Sha512Inv` says
  that state and length are those after the complete blocks of the message and
  that `buf` begins with the rest. A turn of the loop takes a block from the
  caller's memory (`DirectTakes`) or from `buf` (`CollectTakes`); both leave the
  same context. `MdFinished` has the two ends: the length in the block of the
  last byte, or in one of its own behind zeros that cover what an earlier
  message left in `buf`. `Sha512SizesFit` contains that the number of bits fits
  the lower half of the length field: `sha512_final` writes no upper half.
* `AesSivIsRfc`: `[]SivIsRfc`, for associated data and plaintext of any length
  and any bytes; of the cipher it uses only that it gives a block for a block
  (`BlockOps`). `DoubleIs`: the shift with its conditional 0x87 is
  multiplication by x modulo the polynomial. `CmacIs`: the loop that leaves its
  last block open, because a block is encrypted when the *next* byte comes, ends
  with what RFC 4493 wants there, also for no data and for a full last block
  (`CmacByteTakes`, `LastBlock`). `TagIs`: plaintext shorter than a block and
  longer plaintext. `IncrementIs`: incrementing byte by byte, as long as bytes
  become 0, is addition of one, for all carries; so the n-th block of key stream
  has the masked tag plus n (`CtrByteTakes`). `CtrTwice`: counter mode inverts
  itself, and with `SivIs` so does decryption.
* `KeccakIsStandard`: `KE!Spec => []KeccakIsFips`, from any state of 25 lanes
  (`PermutationInv`). `KeccakRoundIs`, that one pass of the code is one round of
  the standard, has three parts. The lanes the code picks for a row and the
  amounts it rotates them by are those of pi and rho, where the standard
  *computes* the amounts by a walk over the lanes (`WalkIs`, `RhoOffsetAt`,
  `LanesPicked`); a rotated sum is then theta, rho and pi of a lane (`ThetaIs`,
  `PickedIs`), and a row of them gives chi (`RowsAre`). The parities are counted
  by the standard and combined by exclusive or in the code (`ParitiesAre`). The
  24 constants are those of the shift register: each of its bits depends on four
  earlier ones (`Recurrence`), and the register after t steps holds sums of the
  latest bits (`RegisterShifted`, by induction `LfsrIs`), so `RoundConstantIs`
  need not run it.
* `Sha512RoundsAreStandard`: `SR!Spec => []Sha512RoundsAreFips`, for any width
  of a word (`Sha512RoundsGiven`), any constants K, state and block. A sum of
  words is the sum of their numbers without the digits that do not fit
  (`NumOfWord`, `WordOfMore`, by induction over the digits), so the order in
  which the code adds four words does not matter (`FourWords`). `ChMaj`: the
  code's forms of both functions. `SameWords` says that before round r of a turn
  the words by the names of that round are those of the standard; `RoundKeeps`
  takes it from round to round and `TurnKeeps` through the eight, after which
  the names are the old ones again. `ScheduleIs`: every word of the schedule is
  the standard's.
* `StringsAlwaysFit`: `UT!Spec => []StringsFit`, for ids, strings and memories
  of any size (`E4UtilStringsGiven`). `TopicIs`: each piece overwrites the NUL
  of the one before, so that after k bytes the memory holds "e4/", the 2k digits
  and one NUL. `DecodeIs`: decoding these digits gives the id, each digit being
  found again among upper and lower case. For any other string the decoder stays
  within half its length. `CopyIs`: how far strlcpy writes and where its NUL is,
  for strings shorter than, as long as, and longer than the buffer.

The library's induction theorems cannot be applied here, as they take the
property as an operator. `Induction` states induction for the *set* of numbers
that have a property, and is proved from the least element of its complement.
A recursive function is unfolded once in `StatesDef`, `AbsorbDef`, `SqueezeDef`,
`AfterStep` and `UpdateDef`: each shows by induction that the approximations up
to n exist, so their union is the function that the definition chooses.
`Recursion` does so once and for all for steps that stay in a set; the loops of
AES-SIV, the permutation, the rounds and the strings use it.

### Only model-checked

* `RotationConverges` of `system`: liveness, with the fairness of section 3. That
  the rotation a client needs has been sent is `E4SystemRestartOnChain`.
* `AesIsFips` of `sym_primitives`. Aes256 looks bytes up in tables and combines
  them with Bitwise, which tlapm does not support.
* The properties of `curve`: `PairsMatch`, `VerifyIsEquation`, `LadderWalks`,
  `PowersAreRight`, `FeProductsFit`, `FeWrittenLeast`, `ScReducesFully`. They are
  about fixed computations on one small curve (for every curve they would need
  the group law), or follow exponents of up to 255 bits and carries through
  hundreds of instructions, one number at a time: TLC evaluates them, the
  provers do not.
* `RemovedIsGone`, `RemoveDeviceUnbinds`, `RevokedGone`: violated, section 4.

## 6. Not modelled, and what comes next

Not modelled:

* The assembly for AVR, `aes256enc_openssl.c` (the same calls handed to
  OpenSSL), `pstdint.h` and the declarations in `include/`.
* Constants: the 80 words K of SHA-512 (a parameter) and the multiples of the
  base point in `precomp_data.h` (defined as the multiples they are; the table
  was recomputed outside TLA+).
* Scalars between bytes and limbs (`sc.c`, the first and last lines of its
  functions), `fe_cswap`, `fe_copy`, `fe_mul121666`.
* `xed25519_convert_ed2c_private`, a hash and a copy; it is symbolic in PkStore.
* Loss of power, where the order of writes on the medium is not that of the
  calls, and partial `write()`s.
* Debug printing, build files, tests.

What comes next, in this order:

1. A C2 that sends SetTopicKey for the client's own control topic, which the
   symmetric client looks up in the table first.
2. The public-key client on its file, with restarts.

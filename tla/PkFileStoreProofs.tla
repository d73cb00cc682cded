------------------------- MODULE PkFileStoreProofs -------------------------
(***************************************************************************)
(* The public-key store in a file, for all table sizes with E4_TOPICS_MAX  *)
(* <= E4_DEVICES_MAX, all sets of ids, keys and topics and any number of   *)
(* faults: what a sync writes is what the store holds, the cached secret   *)
(* and the counts are right unless a load has stopped part way, and a      *)
(* program that stops during a sync harms only what is being written.      *)
(***************************************************************************)
EXTENDS PkFileStore, PkStoreProofs

FileRow == [name : Values, key : Values]

(* A file: keys in the header, the number of topics behind it.             *)
FileOk(f) ==
    /\ f \in [Units -> Cells \cup {Absent}]
    /\ \A u \in 2 .. 5 : f[u] # Absent => f[u] \in {"head"} \X Values
    /\ f[HeadUnits] # Absent => f[HeadUnits] \in {"count"} \X (0 .. E4_TOPICS_MAX)

(* The fields have their types; the count of devices alone can be wrong,   *)
(* and then no sync is running.                                            *)
StoreType ==
    /\ topics \in Tables(E4_TOPICS_MAX, FileRow)
    /\ devices \in [count : Nat, slot : [0 .. E4_DEVICES_MAX - 1 -> FileRow]]
    /\ {id, privkey, pubkey, c2key} \subseteq Values
    /\ FileOk(file)
    /\ wpos \in 0 .. LastWrite + 1
    /\ ~Idle => devices.count <= E4_DEVICES_MAX
    /\ ret = Pending => ~Idle
    /\ before.topics \in Tables(E4_TOPICS_MAX, FileRow)
    /\ before.devices \in Tables(E4_DEVICES_MAX, FileRow)

(* The unit at which write w begins, when there are n topics.              *)
Start(n, w) ==
    IF w <= HeadUnits + 1 THEN w
    ELSE IF w <= HeadUnits + 1 + 2 * n THEN TopicUnit(0) + 2 * (w - 7)
    ELSE DeviceUnit(n, 0) + 2 * (w - 8 - 2 * n)

(* The units sync has been through hold the store.                         *)
Written == \A u \in 1 .. Start(topics.count, wpos) - 1 : file[u] = Image(u)

(* Two tables as units of the file, from the number of topics on.          *)
Picture(t, d, u) ==
    LET n == t.count
    IN  CASE u = HeadUnits -> <<"count", n>>
          [] u \in TopicUnit(0) .. TopicUnit(n) - 1 ->
                RowUnit(t.slot[(u - 7) \div 4], (u - 7) % 4)
          [] u = DeviceCountUnit(n) -> <<"count", d.count>>
          [] OTHER -> LET v == u - DeviceUnit(n, 0)
                      IN  RowUnit(d.slot[v \div 4], v % 4)

(* Where the file ended before the call.                                   *)
OldEnd == DeviceUnit(before.topics.count, before.devices.count) - 1

(* The units sync has not reached hold the tables as they were before the  *)
(* call, when the file held them.                                          *)
Unwritten ==
    before.clean =>
       /\ ~Idle
       /\ file[1] = <<"head", Magic>>
       /\ \A u \in 2 .. 5 : file[u] # Absent
       /\ \A u \in HeadUnits .. OldEnd : u >= Start(topics.count, wpos) =>
             file[u] = Picture(before.topics, before.devices, u)

(* The call whose sync is running has changed the tables as it should.     *)
TablesOfCall ==
    /\ op = "set_topic_key" =>
          /\ devices = before.devices
          /\ FirstSlot(before.topics, arg) < E4_TOPICS_MAX
          /\ \E k \in Values :
                /\ arg \in Values
                /\ topics = PutAt(before.topics, FirstSlot(before.topics, arg), arg, k)
    /\ op = "set_device_key" =>
          /\ topics = before.topics
          /\ FirstSlot(before.devices, arg) < E4_DEVICES_MAX
          /\ \E k \in Values :
                /\ arg \in Values
                /\ devices = PutAt(before.devices, FirstSlot(before.devices, arg), arg, k)
    /\ op \in {"remove_device", "reset_devices"} => devices.count <= before.devices.count

(* Where neither count changes no name does.                               *)
SameNames ==
    ~Idle /\ topics.count = before.topics.count /\ devices.count = before.devices.count =>
       /\ \A i \in LiveSlots(topics) : topics.slot[i].name = before.topics.slot[i].name
       /\ \A i \in LiveSlots(devices) : devices.slot[i].name = before.devices.slot[i].name

SyncInv == StoreType /\ Written /\ Unwritten /\ TablesOfCall /\ SameNames

-----------------------------------------------------------------------------
(* Units and rows.                                                         *)

(* The sizes.                                                              *)
LEMMA Sizes ==
    /\ E4_TOPICS_MAX \in Nat /\ E4_DEVICES_MAX \in Nat
    /\ E4_TOPICS_MAX >= 1 /\ E4_DEVICES_MAX >= 1
    /\ E4_TOPICS_MAX <= E4_DEVICES_MAX
  BY SizeAssumption

(* What the parts of a table are.                                          *)
LEMMA TableParts ==
    ASSUME NEW max \in Nat, NEW t \in Tables(max, FileRow)
    PROVE  /\ t.count \in 0 .. max /\ t.count \in Nat
           /\ t.slot \in [0 .. max - 1 -> FileRow]
           /\ LiveSlots(t) \subseteq 0 .. max - 1
           /\ LiveSlots(t) \subseteq Nat
           /\ \A i \in 0 .. max - 1 : t.slot[i].name \in Values /\ t.slot[i].key \in Values
<1>1. t.count \in 0 .. max /\ t.slot \in [0 .. max - 1 -> FileRow]
  BY DEF Tables
<1>2. LiveSlots(t) \subseteq 0 .. max - 1 /\ LiveSlots(t) \subseteq Nat /\ t.count \in Nat
  BY <1>1 DEF LiveSlots
<1>3. ASSUME NEW i \in 0 .. max - 1
      PROVE  t.slot[i].name \in Values /\ t.slot[i].key \in Values
  <2>1. t.slot[i] \in FileRow
    BY <1>1
  <2> QED
    BY <2>1 DEF FileRow
<1> QED
  BY <1>1, <1>2, <1>3

(* The device table between its calls.                                     *)
LEMMA ReadyDevices ==
    ASSUME StoreType, devices.count <= E4_DEVICES_MAX
    PROVE  devices \in Tables(E4_DEVICES_MAX, FileRow)
  BY Sizes DEF StoreType, Tables

(* The four units of a row.                                                *)
LEMMA RowUnits ==
    ASSUME NEW e, e.name \in Values, e.key \in Values
    PROVE  /\ RowUnit(e, 0) = <<"first", e.name>> /\ RowUnit(e, 1) = <<"second", e.name>>
           /\ RowUnit(e, 2) = <<"first", e.key>> /\ RowUnit(e, 3) = <<"second", e.key>>
           /\ \A q : RowUnit(e, q) \in Cells
<1>1. /\ RowUnit(e, 0) = <<"first", e.name>> /\ RowUnit(e, 1) = <<"second", e.name>>
      /\ RowUnit(e, 2) = <<"first", e.key>> /\ RowUnit(e, 3) = <<"second", e.key>>
  BY DEF RowUnit
<1>2. ASSUME NEW q PROVE RowUnit(e, q) \in Cells
  <2>1. \E tag \in {"first", "second"}, v \in Values : RowUnit(e, q) = <<tag, v>>
    BY DEF RowUnit
  <2> QED
    BY <2>1 DEF Cells
<1> QED
  BY <1>1, <1>2

(* Which units a row takes.                                                *)
LEMMA Quarters ==
    ASSUME NEW i \in Nat, NEW q \in 0 .. 3
    PROVE  (4 * i + q) \div 4 = i /\ (4 * i + q) % 4 = q
  OBVIOUS

(* Which row a unit belongs to.                                            *)
LEMMA RowOfUnit ==
    ASSUME NEW n \in Nat, NEW v \in 0 .. 4 * n - 1
    PROVE  v \div 4 \in 0 .. n - 1
  OBVIOUS

(* Where the rows of two tables lie in the file.                           *)
TopicCells(t, d) ==
    \A i \in LiveSlots(t), q \in 0 .. 3 :
       Picture(t, d, TopicUnit(i) + q) = RowUnit(t.slot[i], q)

DeviceCells(t, d) ==
    \A j \in Nat, q \in 0 .. 3 :
       Picture(t, d, DeviceUnit(t.count, j) + q) = RowUnit(d.slot[j], q)

(* Two tables as units of the file.                                        *)
LEMMA PictureCells ==
    ASSUME NEW t, NEW d, t.count \in Nat
    PROVE  /\ Picture(t, d, HeadUnits) = <<"count", t.count>>
           /\ Picture(t, d, DeviceCountUnit(t.count)) = <<"count", d.count>>
           /\ TopicCells(t, d) /\ DeviceCells(t, d)
<1> DEFINE n == t.count
<1>1. Picture(t, d, HeadUnits) = <<"count", n>>
  <2>1. /\ HeadUnits \notin TopicUnit(0) .. TopicUnit(n) - 1
        /\ HeadUnits # DeviceCountUnit(n)
    BY DEF DeviceCountUnit, HeadUnits, TopicUnit
  <2> QED
    BY <2>1 DEF Picture
<1>2. Picture(t, d, DeviceCountUnit(n)) = <<"count", d.count>>
  <2>1. /\ DeviceCountUnit(n) # HeadUnits
        /\ DeviceCountUnit(n) \notin TopicUnit(0) .. TopicUnit(n) - 1
    BY DEF DeviceCountUnit, HeadUnits, TopicUnit
  <2> QED
    BY <2>1 DEF Picture
<1>3. ASSUME NEW i \in LiveSlots(t), NEW q \in 0 .. 3
      PROVE  Picture(t, d, TopicUnit(i) + q) = RowUnit(t.slot[i], q)
  <2> DEFINE u == TopicUnit(i) + q
  <2>1. i \in Nat /\ i < n
    BY DEF LiveSlots
  <2>2. /\ u # HeadUnits /\ u # DeviceCountUnit(n)
        /\ u \in TopicUnit(0) .. TopicUnit(n) - 1 /\ u - 7 = 4 * i + q
    BY <2>1 DEF HeadUnits, TopicUnit, DeviceCountUnit
  <2>3. (u - 7) \div 4 = i /\ (u - 7) % 4 = q
    BY <2>1, <2>2, Quarters
  <2> HIDE DEF u
  <2>4. Picture(t, d, u) = RowUnit(t.slot[i], q)
    BY <2>2, <2>3 DEF Picture
  <2> QED
    BY <2>4 DEF u
<1>4. ASSUME NEW j \in Nat, NEW q \in 0 .. 3
      PROVE  Picture(t, d, DeviceUnit(n, j) + q) = RowUnit(d.slot[j], q)
  <2> DEFINE u == DeviceUnit(n, j) + q
  <2>1. /\ u # HeadUnits /\ u \notin TopicUnit(0) .. TopicUnit(n) - 1
        /\ u # DeviceCountUnit(n) /\ u - DeviceUnit(n, 0) = 4 * j + q
    BY DEF HeadUnits, TopicUnit, DeviceUnit, DeviceCountUnit
  <2>2. (u - DeviceUnit(n, 0)) \div 4 = j /\ (u - DeviceUnit(n, 0)) % 4 = q
    BY <2>1, Quarters
  <2> HIDE DEF u
  <2>3. Picture(t, d, u) = RowUnit(d.slot[j], q)
    BY <2>1, <2>2 DEF Picture
  <2> QED
    BY <2>3 DEF u
<1> QED
  BY <1>1, <1>2, <1>3, <1>4 DEF TopicCells, DeviceCells

(* What sync writes from the number of topics on.                          *)
LEMMA ImagePicture ==
    ASSUME NEW u \in Nat, u >= HeadUnits
    PROVE  Image(u) = Picture(topics, devices, u)
  BY DEF Image, Picture, HeadUnits

(* And before.                                                             *)
LEMMA ImageHead ==
    ASSUME topics.count \in Nat
    PROVE  /\ Image(1) = <<"head", Magic>>
           /\ Image(2) = <<"head", id>>
           /\ Image(3) = <<"head", privkey>>
           /\ Image(4) = <<"head", pubkey>>
           /\ Image(5) = <<"head", c2key>>
<1>1. ASSUME NEW u \in 1 .. 5
      PROVE  Image(u) = <<"head", <<Magic, id, privkey, pubkey, c2key>>[u]>>
  <2>1. /\ u < HeadUnits /\ u # HeadUnits /\ u # DeviceCountUnit(topics.count)
        /\ u \notin TopicUnit(0) .. TopicUnit(topics.count) - 1
    BY DEF HeadUnits, DeviceCountUnit, TopicUnit
  <2> QED
    BY <2>1 DEF Image
<1> QED
  BY <1>1

(* The units of two tables are units of a file.                            *)
LEMMA PictureTyped ==
    ASSUME NEW t \in Tables(E4_TOPICS_MAX, FileRow),
           NEW d \in Tables(E4_DEVICES_MAX, FileRow),
           NEW u \in HeadUnits .. DeviceUnit(t.count, d.count) - 1
    PROVE  Picture(t, d, u) \in Cells
<1>1. /\ t.count \in 0 .. E4_TOPICS_MAX /\ t.count \in Nat /\ t.count \in 0 .. E4_DEVICES_MAX
      /\ d.count \in 0 .. E4_DEVICES_MAX /\ d.count \in Nat
      /\ \A i \in LiveSlots(t) : t.slot[i].name \in Values /\ t.slot[i].key \in Values
      /\ \A i \in LiveSlots(d) : d.slot[i].name \in Values /\ d.slot[i].key \in Values
  BY TableParts, Sizes
<1>2. CASE u = HeadUnits \/ u = DeviceCountUnit(t.count)
  <2>1. Picture(t, d, u) = <<"count", t.count>> \/ Picture(t, d, u) = <<"count", d.count>>
    BY <1>1, <1>2, PictureCells
  <2> QED
    BY <1>1, <2>1 DEF Cells
<1>3. CASE u \in TopicUnit(0) .. TopicUnit(t.count) - 1
  <2>1. u - 7 \in 0 .. 4 * t.count - 1 /\ u # HeadUnits /\ u # DeviceCountUnit(t.count)
    BY <1>1, <1>3 DEF TopicUnit, HeadUnits, DeviceCountUnit
  <2>2. (u - 7) \div 4 \in LiveSlots(t)
    BY <1>1, <2>1, RowOfUnit DEF LiveSlots
  <2>3. Picture(t, d, u) = RowUnit(t.slot[(u - 7) \div 4], (u - 7) % 4)
    BY <1>3, <2>1 DEF Picture
  <2> QED
    BY <1>1, <2>2, <2>3, RowUnits
<1>4. CASE u \in DeviceUnit(t.count, 0) .. DeviceUnit(t.count, d.count) - 1
  <2> DEFINE v == u - DeviceUnit(t.count, 0)
  <2>1. /\ v \in 0 .. 4 * d.count - 1
        /\ u # HeadUnits /\ u \notin TopicUnit(0) .. TopicUnit(t.count) - 1
        /\ u # DeviceCountUnit(t.count)
    BY <1>1, <1>4 DEF TopicUnit, HeadUnits, DeviceUnit, DeviceCountUnit
  <2>2. v \div 4 \in LiveSlots(d)
    BY <1>1, <2>1, RowOfUnit DEF LiveSlots
  <2>3. Picture(t, d, u) = RowUnit(d.slot[v \div 4], v % 4)
    BY <2>1 DEF Picture
  <2> QED
    BY <1>1, <2>2, <2>3, RowUnits
<1>5. \/ u = HeadUnits \/ u = DeviceCountUnit(t.count)
      \/ u \in TopicUnit(0) .. TopicUnit(t.count) - 1
      \/ u \in DeviceUnit(t.count, 0) .. DeviceUnit(t.count, d.count) - 1
  BY <1>1 DEF TopicUnit, HeadUnits, DeviceUnit, DeviceCountUnit
<1> QED
  BY <1>2, <1>3, <1>4, <1>5

(* What sync writes are units of a file.                                   *)
LEMMA ImageTyped ==
    ASSUME StoreType, devices.count <= E4_DEVICES_MAX
    PROVE  /\ \A u \in 1 .. DeviceUnit(topics.count, devices.count) - 1 : Image(u) \in Cells
           /\ \A u \in 2 .. 5 : Image(u) \in {"head"} \X Values
           /\ Image(HeadUnits) \in {"count"} \X (0 .. E4_TOPICS_MAX)
<1>0. topics \in Tables(E4_TOPICS_MAX, FileRow) /\ devices \in Tables(E4_DEVICES_MAX, FileRow)
  BY ReadyDevices DEF StoreType
<1>1. topics.count \in 0 .. E4_TOPICS_MAX /\ topics.count \in Nat /\ devices.count \in Nat
  BY <1>0, TableParts, Sizes
<1>2. \A u \in 2 .. 5 : Image(u) \in {"head"} \X Values
  <2>1. {id, privkey, pubkey, c2key} \subseteq Values
    BY DEF StoreType
  <2>2. \A u \in 2 .. 5 : u = 2 \/ u = 3 \/ u = 4 \/ u = 5
    OBVIOUS
  <2> QED
    BY <1>1, <2>1, <2>2, ImageHead
<1>3. Image(HeadUnits) = <<"count", topics.count>>
  <2>1. HeadUnits \in Nat /\ HeadUnits >= HeadUnits
    BY DEF HeadUnits
  <2> QED
    BY <1>1, <2>1, ImagePicture, PictureCells
<1>4. ASSUME NEW u \in 1 .. DeviceUnit(topics.count, devices.count) - 1 PROVE Image(u) \in Cells
  <2>1. u = 1 \/ u \in 2 .. 5 \/ u \in HeadUnits .. DeviceUnit(topics.count, devices.count) - 1
    BY <1>1 DEF HeadUnits, DeviceUnit
  <2>2. CASE u = 1
    BY <1>1, <2>2, ImageHead DEF Cells
  <2>3. CASE u \in 2 .. 5
    BY <1>2, <2>3 DEF Cells
  <2>4. CASE u \in HeadUnits .. DeviceUnit(topics.count, devices.count) - 1
    <3>1. u \in Nat /\ u >= HeadUnits
      BY <1>1, <2>4 DEF HeadUnits, DeviceUnit
    <3> QED
      BY <1>0, <2>4, <3>1, ImagePicture, PictureTyped
  <2> QED
    BY <2>1, <2>2, <2>3, <2>4
<1> QED
  BY <1>1, <1>2, <1>3, <1>4

-----------------------------------------------------------------------------
(* The writes of a sync.                                                   *)

(* Where writes begin: they follow each other without gaps, the last one   *)
(* ends with the last row.                                                 *)
LEMMA Starts ==
    ASSUME NEW n \in Nat, NEW m \in Nat, NEW w \in 1 .. HeadUnits + 2 * n + 2 + 2 * m
    PROVE  /\ Start(n, w) \in Nat /\ Start(n, w) >= 1
           /\ Start(n, w + 1) \in Nat /\ Start(n, w) < Start(n, w + 1)
           /\ Start(n, w) <= DeviceUnit(n, m)
           /\ w <= HeadUnits + 2 * n + 1 + 2 * m => Start(n, w + 1) <= DeviceUnit(n, m)
           /\ w > HeadUnits + 2 * n + 1 + 2 * m => Start(n, w) = DeviceUnit(n, m)
           /\ Start(n, 1) = 1
<1>1. CASE w <= HeadUnits
  BY <1>1 DEF Start, HeadUnits, TopicUnit, DeviceUnit
<1>2. CASE w > HeadUnits /\ w <= HeadUnits + 2 * n
  BY <1>2 DEF Start, HeadUnits, TopicUnit, DeviceUnit
<1>3. CASE w = HeadUnits + 2 * n + 1
  BY <1>3 DEF Start, HeadUnits, TopicUnit, DeviceUnit
<1>4. CASE w > HeadUnits + 2 * n + 1
  BY <1>4 DEF Start, HeadUnits, TopicUnit, DeviceUnit
<1> QED
  BY <1>1, <1>2, <1>3, <1>4 DEF HeadUnits

(* The units of a write.                                                   *)
LEMMA WriteRange ==
    ASSUME topics.count \in Nat, NEW w \in Nat, w >= 1
    PROVE  WriteUnits(w) = Start(topics.count, w) .. Start(topics.count, w + 1) - 1
<1> DEFINE n == topics.count
<1>1. CASE w <= HeadUnits
  <2>1. w \notin HeadUnits + 1 .. HeadUnits + 2 * n /\ w # HeadUnits + 2 * n + 1
    BY <1>1 DEF HeadUnits
  <2>2. WriteUnits(w) = {w}
    BY <1>1, <2>1 DEF WriteUnits
  <2>3. Start(n, w) = w /\ Start(n, w + 1) = w + 1
    BY <1>1 DEF Start, HeadUnits
  <2> QED
    BY <2>2, <2>3
<1>2. CASE w \in HeadUnits + 1 .. HeadUnits + 2 * n
  <2>1. ~(w <= HeadUnits) /\ w # HeadUnits + 2 * n + 1
    BY <1>2 DEF HeadUnits
  <2> DEFINE u == TopicUnit(0) + 2 * (w - 7)
  <2>2. WriteUnits(w) = {u, u + 1}
    BY <1>2, <2>1 DEF WriteUnits
  <2>3. Start(n, w) = u /\ Start(n, w + 1) = u + 2 /\ u \in Nat
    BY <1>2 DEF Start, HeadUnits, TopicUnit
  <2> QED
    BY <2>2, <2>3
<1>3. CASE w = HeadUnits + 2 * n + 1
  <2>1. ~(w <= HeadUnits) /\ w \notin HeadUnits + 1 .. HeadUnits + 2 * n
    BY <1>3 DEF HeadUnits
  <2>2. WriteUnits(w) = {DeviceCountUnit(n)}
    BY <1>3, <2>1 DEF WriteUnits
  <2>3. /\ Start(n, w) = DeviceCountUnit(n) /\ Start(n, w + 1) = DeviceCountUnit(n) + 1
        /\ DeviceCountUnit(n) \in Nat
    <3>1. CASE n = 0
      BY <1>3, <3>1 DEF Start, HeadUnits, TopicUnit, DeviceUnit, DeviceCountUnit
    <3>2. CASE n > 0
      BY <1>3, <3>2 DEF Start, HeadUnits, TopicUnit, DeviceUnit, DeviceCountUnit
    <3> QED
      BY <3>1, <3>2
  <2> QED
    BY <2>2, <2>3
<1>4. CASE w > HeadUnits + 2 * n + 1
  <2>1. /\ ~(w <= HeadUnits) /\ w \notin HeadUnits + 1 .. HeadUnits + 2 * n
        /\ w # HeadUnits + 2 * n + 1
    BY <1>4 DEF HeadUnits
  <2> DEFINE u == DeviceUnit(n, 0) + 2 * (w - 8 - 2 * n)
  <2>2. WriteUnits(w) = {u, u + 1}
    BY <2>1 DEF WriteUnits
  <2>3. Start(n, w) = u /\ Start(n, w + 1) = u + 2 /\ u \in Nat
    BY <1>4 DEF Start, HeadUnits, TopicUnit, DeviceUnit
  <2> QED
    BY <2>2, <2>3
<1> QED
  BY <1>1, <1>2, <1>3, <1>4 DEF HeadUnits

(* The numbers of a running sync.                                          *)
LEMMA Running ==
    ASSUME StoreType, ~Idle
    PROVE  /\ topics.count \in 0 .. E4_TOPICS_MAX /\ topics.count \in Nat
           /\ devices \in Tables(E4_DEVICES_MAX, FileRow)
           /\ devices.count \in 0 .. E4_DEVICES_MAX /\ devices.count \in Nat
           /\ wpos \in 1 .. HeadUnits + 2 * topics.count + 2 + 2 * devices.count
           /\ DeviceUnit(topics.count, devices.count) - 1 \in Units
           /\ 1 .. DeviceUnit(topics.count, devices.count) - 1 \subseteq Units
           /\ 1 .. HeadUnits \subseteq 1 .. DeviceUnit(topics.count, devices.count) - 1
<1>1. /\ topics \in Tables(E4_TOPICS_MAX, FileRow)
      /\ devices \in Tables(E4_DEVICES_MAX, FileRow)
      /\ wpos \in 0 .. LastWrite + 1 /\ wpos # 0
  BY ReadyDevices DEF StoreType, Idle
<1>2. /\ topics.count \in 0 .. E4_TOPICS_MAX /\ topics.count \in Nat
      /\ devices.count \in 0 .. E4_DEVICES_MAX /\ devices.count \in Nat
  BY <1>1, TableParts, Sizes
<1>3. wpos \in 1 .. HeadUnits + 2 * topics.count + 2 + 2 * devices.count
  BY <1>1, <1>2 DEF LastWrite, HeadUnits
<1>4. /\ DeviceUnit(topics.count, devices.count) - 1 \in Units
      /\ 1 .. DeviceUnit(topics.count, devices.count) - 1 \subseteq Units
      /\ 1 .. HeadUnits \subseteq 1 .. DeviceUnit(topics.count, devices.count) - 1
  BY <1>2, Sizes DEF DeviceUnit, Units, HeadUnits
<1> QED
  BY <1>1, <1>2, <1>3, <1>4

(* One write: the units between two starts are set, the others stay, and   *)
(* the file stays a file.                                                  *)
LEMMA WriteOne ==
    ASSUME StoreType, WriteField
    PROVE  /\ ~Idle
           /\ wpos + 1 \in 0 .. LastWrite + 1
           /\ FileOk(file')
           /\ \A u \in Units :
                 \/ /\ u \in Start(topics.count, wpos) .. Start(topics.count, wpos + 1) - 1
                    /\ u \in 1 .. DeviceUnit(topics.count, devices.count) - 1
                    /\ file'[u] = Image(u)
                 \/ /\ u \notin Start(topics.count, wpos) .. Start(topics.count, wpos + 1) - 1
                    /\ file'[u] = file[u]
<1> DEFINE n == topics.count
           m == devices.count
           S == Start(n, wpos) .. Start(n, wpos + 1) - 1
<1>1. wpos \in 1 .. LastWrite /\ ~Idle
  BY DEF WriteField, Idle
<1>2. /\ n \in Nat /\ m \in Nat /\ 1 .. DeviceUnit(n, m) - 1 \subseteq Units
      /\ wpos \in 1 .. HeadUnits + 2 * n + 2 + 2 * m
      /\ 1 .. HeadUnits \subseteq 1 .. DeviceUnit(n, m) - 1
  BY <1>1, Running
<1>3. /\ Start(n, wpos) \in Nat /\ Start(n, wpos) >= 1
      /\ Start(n, wpos + 1) \in Nat
      /\ Start(n, wpos + 1) <= DeviceUnit(n, m)
  <2>1. wpos <= HeadUnits + 2 * n + 1 + 2 * m
    BY <1>1, <1>2 DEF LastWrite, HeadUnits
  <2> QED
    BY <1>2, <2>1, Starts
<1>4. DeviceUnit(n, m) \in Nat
  BY <1>2 DEF DeviceUnit
<1>5. S \subseteq 1 .. DeviceUnit(n, m) - 1
  BY <1>3, <1>4
<1>6. WriteUnits(wpos) = S
  BY <1>2, WriteRange
<1> HIDE DEF S
<1>7. \A u \in Units : file'[u] = IF u \in S THEN Image(u) ELSE file[u]
  BY <1>6 DEF WriteField
<1>8. /\ \A u \in S : Image(u) \in Cells
      /\ \A u \in 2 .. 5 : Image(u) \in {"head"} \X Values
      /\ Image(HeadUnits) \in {"count"} \X (0 .. E4_TOPICS_MAX)
  BY <1>1, <1>5, ImageTyped DEF StoreType
<1>9. /\ file \in [Units -> Cells \cup {Absent}]
      /\ \A u \in 2 .. 5 : file[u] # Absent => file[u] \in {"head"} \X Values
      /\ file[HeadUnits] # Absent => file[HeadUnits] \in {"count"} \X (0 .. E4_TOPICS_MAX)
  BY DEF StoreType, FileOk
<1>10. 2 .. 5 \subseteq Units /\ HeadUnits \in Units
  BY <1>2 DEF HeadUnits
<1>11. file' \in [Units -> Cells \cup {Absent}]
  <2>1. file' = [u \in Units |-> IF u \in S THEN Image(u) ELSE file[u]]
    BY <1>6 DEF WriteField
  <2> QED
    BY <1>8, <1>9, <2>1
<1>12. FileOk(file')
  BY <1>7, <1>8, <1>9, <1>10, <1>11 DEF FileOk
<1>13. wpos + 1 \in 0 .. LastWrite + 1
  BY <1>1, <1>2 DEF LastWrite, HeadUnits
<1> QED
  BY <1>1, <1>5, <1>7, <1>12, <1>13 DEF S

-----------------------------------------------------------------------------
(* Loading.                                                                *)

(* A field that is read has a value.                                       *)
LEMMA FieldTyped ==
    ASSUME NEW f \in [Units -> Cells \cup {Absent}], NEW u \in Units, NEW old \in Values
    PROVE  ReadField(f, u, old) \in Values
<1>1. CASE f[u] = Absent
  BY <1>1 DEF ReadField
<1>2. CASE f[u] # Absent /\ f[u + 1] # Absent /\ f[u][1] = "first"
              /\ f[u + 1] = <<"second", f[u][2]>>
  <2>1. f[u] \in Cells
    BY <1>2
  <2>2. f[u] \in {"first", "second"} \X Values
    BY <1>2, <2>1 DEF Cells
  <2>3. f[u][2] \in Values
    BY <2>2
  <2> QED
    BY <1>2, <2>3 DEF ReadField
<1>3. CASE /\ f[u] # Absent
           /\ ~(f[u] # Absent /\ f[u + 1] # Absent /\ f[u][1] = "first"
                  /\ f[u + 1] = <<"second", f[u][2]>>)
  BY <1>3 DEF ReadField, Values
<1> QED
  BY <1>1, <1>2, <1>3

(* A field whose two units belong together is read as it is.               *)
LEMMA FieldRead ==
    ASSUME NEW f, NEW u, NEW v \in Values, NEW old,
           f[u] = <<"first", v>>, f[u + 1] = <<"second", v>>
    PROVE  ReadField(f, u, old) = v
<1>1. f[u] \in Cells /\ f[u + 1] \in Cells
  BY DEF Cells
<1>2. f[u] # Absent /\ f[u + 1] # Absent
  BY <1>1, AbsentAssumption
<1>3. f[u][1] = "first" /\ f[u][2] = v
  OBVIOUS
<1> QED
  BY <1>2, <1>3 DEF ReadField

(* The n rows from unit u on lie in the file.                              *)
RowsFit(u, n, max) ==
    n <= max => \A i \in 0 .. n - 1 : u + 4 * i \in Units /\ u + 4 * i + 2 \in Units

(* Table r holds the n rows read from unit u on into table t.              *)
HoldsRows(r, f, u, n, t) ==
    \A i \in 0 .. n - 1 :
       r.slot[i] = [name |-> ReadField(f, u + 4 * i, t.slot[i].name),
                    key  |-> ReadField(f, u + 4 * i + 2, t.slot[i].key)]

(* The rows a load reads.                                                  *)
LEMMA RowsRead ==
    ASSUME NEW f \in [Units -> Cells \cup {Absent}], NEW max \in Nat,
           NEW t, t.slot \in [0 .. max - 1 -> FileRow], NEW u \in Nat, NEW n \in Nat,
           RowsFit(u, n, max)
    PROVE  /\ ReadRows(f, u, n, t).count = n
           /\ ReadRows(f, u, n, t) \in [count : Nat, slot : [0 .. max - 1 -> FileRow]]
           /\ n <= max => HoldsRows(ReadRows(f, u, n, t), f, u, n, t)
<1> DEFINE Row(i) == [name |-> ReadField(f, u + 4 * i, t.slot[i].name),
                      key  |-> ReadField(f, u + 4 * i + 2, t.slot[i].key)]
           New(i) == IF n - 1 \in 0 .. max - 1 /\ i < n THEN Row(i) ELSE t.slot[i]
<1>1. ReadRows(f, u, n, t) = [count |-> n, slot |-> [i \in 0 .. max - 1 |-> New(i)]]
  BY DEF ReadRows
<1>2. ASSUME NEW i \in 0 .. max - 1 PROVE New(i) \in FileRow
  <2>1. t.slot[i] \in FileRow
    OBVIOUS
  <2>2. CASE n - 1 \in 0 .. max - 1 /\ i < n
    <3>1. n <= max /\ i \in 0 .. n - 1
      BY <2>2
    <3>2. u + 4 * i \in Units /\ u + 4 * i + 2 \in Units
      BY <3>1 DEF RowsFit
    <3>3. t.slot[i].name \in Values /\ t.slot[i].key \in Values
      BY <2>1 DEF FileRow
    <3>4. /\ ReadField(f, u + 4 * i, t.slot[i].name) \in Values
          /\ ReadField(f, u + 4 * i + 2, t.slot[i].key) \in Values
      BY <3>2, <3>3, FieldTyped
    <3>5. Row(i) \in FileRow
      BY <3>4 DEF FileRow
    <3> QED
      BY <2>2, <3>5
  <2>3. CASE ~(n - 1 \in 0 .. max - 1 /\ i < n)
    BY <2>1, <2>3
  <2> QED
    BY <2>2, <2>3
<1>3. ASSUME n <= max, NEW i \in 0 .. n - 1
      PROVE  i \in 0 .. max - 1 /\ New(i) = Row(i)
  <2>1. n - 1 \in 0 .. max - 1 /\ i < n /\ i \in 0 .. max - 1
    BY <1>3
  <2> QED
    BY <2>1
<1> HIDE DEF New, Row
<1>4. ReadRows(f, u, n, t) \in [count : Nat, slot : [0 .. max - 1 -> FileRow]]
  BY <1>1, <1>2
<1>5. ASSUME n <= max, NEW i \in 0 .. n - 1 PROVE ReadRows(f, u, n, t).slot[i] = Row(i)
  <2>1. ReadRows(f, u, n, t).slot = [j \in 0 .. max - 1 |-> New(j)]
    BY <1>1
  <2>2. i \in 0 .. max - 1 /\ New(i) = Row(i)
    BY <1>3, <1>5
  <2> QED
    BY <2>1, <2>2
<1>6. ReadRows(f, u, n, t).count = n
  BY <1>1
<1> QED
  BY <1>4, <1>5, <1>6 DEF Row, HoldsRows

(* The number of topics in a file.                                         *)
LEMMA TopicCountTyped ==
    ASSUME NEW f, FileOk(f), f[HeadUnits] # Absent
    PROVE  TopicCount(f) \in 0 .. E4_TOPICS_MAX
<1>1. f[HeadUnits] \in {"count"} \X (0 .. E4_TOPICS_MAX)
  BY DEF FileOk
<1> QED
  BY <1>1 DEF TopicCount

(* The topics a load leaves are a table, with the rows of the file.        *)
LEMMA TopicsLoaded ==
    ASSUME NEW f, FileOk(f), NEW t \in Tables(E4_TOPICS_MAX, FileRow)
    PROVE  /\ LoadTopics(f, t) \in Tables(E4_TOPICS_MAX, FileRow)
           /\ f[HeadUnits] # Absent =>
                /\ LoadTopics(f, t).count = TopicCount(f)
                /\ \A i \in 0 .. TopicCount(f) - 1 :
                      LoadTopics(f, t).slot[i] =
                         [name |-> ReadField(f, TopicUnit(i), t.slot[i].name),
                          key  |-> ReadField(f, TopicUnit(i) + 2, t.slot[i].key)]
<1>1. CASE f[HeadUnits] = Absent
  BY <1>1 DEF LoadTopics
<1>2. CASE f[HeadUnits] # Absent
  <2> DEFINE n == TopicCount(f)
             u == ReadRows(f, TopicUnit(0), n, t)
  <2>1. n \in 0 .. E4_TOPICS_MAX /\ n \in Nat /\ E4_TOPICS_MAX \in Nat
    BY <1>2, TopicCountTyped, Sizes
  <2>2. /\ f \in [Units -> Cells \cup {Absent}]
        /\ t.slot \in [0 .. E4_TOPICS_MAX - 1 -> FileRow]
    BY <2>1, TableParts DEF FileOk
  <2> HIDE DEF n
  <2>3. /\ TopicUnit(0) \in Nat
        /\ RowsFit(TopicUnit(0), n, E4_TOPICS_MAX)
    BY <2>1, Sizes DEF RowsFit, TopicUnit, Units, DeviceUnit
  <2>4. /\ u.count = n
        /\ u \in [count : Nat, slot : [0 .. E4_TOPICS_MAX - 1 -> FileRow]]
        /\ n <= E4_TOPICS_MAX => HoldsRows(u, f, TopicUnit(0), n, t)
    BY <2>1, <2>2, <2>3, RowsRead
  <2>5. LoadTopics(f, t) = u
    BY <1>2 DEF LoadTopics, n
  <2> HIDE DEF u
  <2>6. u \in Tables(E4_TOPICS_MAX, FileRow)
    BY <2>1, <2>4 DEF Tables
  <2>7. ASSUME NEW i \in 0 .. n - 1
        PROVE  u.slot[i] = [name |-> ReadField(f, TopicUnit(i), t.slot[i].name),
                            key  |-> ReadField(f, TopicUnit(i) + 2, t.slot[i].key)]
    <3>1. TopicUnit(0) + 4 * i = TopicUnit(i)
      BY <2>1 DEF TopicUnit
    <3>2. n <= E4_TOPICS_MAX
      BY <2>1
    <3> QED
      BY <2>4, <3>1, <3>2 DEF HoldsRows
  <2> QED
    BY <2>4, <2>5, <2>6, <2>7 DEF n
<1> QED
  BY <1>1, <1>2

(* The number of devices a load takes, which may be beyond the array.      *)
LEMMA DeviceCountTyped ==
    ASSUME NEW f, FileOk(f), HasDeviceCount(f), NEW g \in Guesses
    PROVE  TopicCount(f) \in 0 .. E4_TOPICS_MAX /\ DeviceCount(f, g) \in Nat
<1>1. f[HeadUnits] # Absent
  BY DEF HasDeviceCount, TopicsRead, HeadUnits
<1>2. TopicCount(f) \in 0 .. E4_TOPICS_MAX
  BY <1>1, TopicCountTyped
<1> DEFINE u == DeviceCountUnit(TopicCount(f))
<1>3. u \in Units
  BY <1>2, Sizes DEF DeviceCountUnit, Units, DeviceUnit
<1>4. f[u] \in Cells
  BY <1>3 DEF HasDeviceCount, FileOk
<1>5. f[u][1] = "count" => f[u][2] \in 0 .. E4_DEVICES_MAX
  BY <1>4 DEF Cells
<1>6. g \in Nat
  BY Sizes DEF Guesses
<1> HIDE DEF u
<1>7. DeviceCount(f, g) = IF f[u][1] = "count" THEN f[u][2] ELSE g
  BY DEF DeviceCount, u
<1> QED
  BY <1>2, <1>5, <1>6, <1>7, Sizes

(* The devices a load leaves.                                              *)
LEMMA DevicesLoaded ==
    ASSUME NEW f, FileOk(f), NEW g \in Guesses,
           NEW t \in [count : Nat, slot : [0 .. E4_DEVICES_MAX - 1 -> FileRow]]
    PROVE  /\ LoadDevices(f, g, t) \in [count : Nat, slot : [0 .. E4_DEVICES_MAX - 1 -> FileRow]]
           /\ HasDeviceCount(f) =>
                /\ LoadDevices(f, g, t).count = DeviceCount(f, g)
                /\ DeviceCount(f, g) <= E4_DEVICES_MAX =>
                     \A j \in 0 .. DeviceCount(f, g) - 1 :
                        LoadDevices(f, g, t).slot[j] =
                          [name |-> ReadField(f, DeviceUnit(TopicCount(f), j), t.slot[j].name),
                           key  |-> ReadField(f, DeviceUnit(TopicCount(f), j) + 2, t.slot[j].key)]
<1>1. CASE ~HasDeviceCount(f)
  BY <1>1 DEF LoadDevices
<1>2. CASE HasDeviceCount(f)
  <2> DEFINE n == TopicCount(f)
             m == DeviceCount(f, g)
             u == ReadRows(f, DeviceUnit(n, 0), m, t)
  <2>1. n \in 0 .. E4_TOPICS_MAX /\ n \in Nat /\ m \in Nat /\ E4_DEVICES_MAX \in Nat
    BY <1>2, DeviceCountTyped, Sizes
  <2>2. /\ f \in [Units -> Cells \cup {Absent}]
        /\ t.slot \in [0 .. E4_DEVICES_MAX - 1 -> FileRow]
    BY DEF FileOk
  <2> HIDE DEF n, m
  <2>3. /\ DeviceUnit(n, 0) \in Nat
        /\ RowsFit(DeviceUnit(n, 0), m, E4_DEVICES_MAX)
    BY <2>1, Sizes DEF RowsFit, Units, DeviceUnit
  <2>4. /\ u.count = m
        /\ u \in [count : Nat, slot : [0 .. E4_DEVICES_MAX - 1 -> FileRow]]
        /\ m <= E4_DEVICES_MAX => HoldsRows(u, f, DeviceUnit(n, 0), m, t)
    BY <2>1, <2>2, <2>3, RowsRead
  <2>5. LoadDevices(f, g, t) = u
    BY <1>2 DEF LoadDevices, n, m
  <2> HIDE DEF u
  <2>6. ASSUME m <= E4_DEVICES_MAX, NEW j \in 0 .. m - 1
        PROVE  u.slot[j] = [name |-> ReadField(f, DeviceUnit(n, j), t.slot[j].name),
                            key  |-> ReadField(f, DeviceUnit(n, j) + 2, t.slot[j].key)]
    <3>1. DeviceUnit(n, 0) + 4 * j = DeviceUnit(n, j)
      BY <2>1 DEF DeviceUnit
    <3> QED
      BY <2>4, <2>6, <3>1 DEF HoldsRows
  <2> QED
    BY <2>4, <2>5, <2>6 DEF n, m
<1> QED
  BY <1>1, <1>2

-----------------------------------------------------------------------------
(* The start and the end of a sync.                                        *)

(* An empty table is a table.                                              *)
LEMMA EmptyRows ==
    ASSUME NEW max \in Nat
    PROVE  Empty(max) \in Tables(max, FileRow) /\ Empty(max).count = 0
<1>1. ZeroEntry \in FileRow
  BY DEF ZeroEntry, FileRow, Values
<1>2. 0 \in 0 .. max
  OBVIOUS
<1> QED
  BY <1>1, <1>2 DEF Empty, Tables

(* The fields after a step.                                                *)
FieldsAfter ==
    /\ topics' \in Tables(E4_TOPICS_MAX, FileRow)
    /\ devices' \in [count : Nat, slot : [0 .. E4_DEVICES_MAX - 1 -> FileRow]]
    /\ {id', privkey', pubkey', c2key'} \subseteq Values
    /\ FileOk(file')

(* Outside of a sync there is nothing else to show.                        *)
LEMMA ReturnInv ==
    ASSUME FieldsAfter, NoSync, ret' # Pending
    PROVE  SyncInv'
<1>1. /\ wpos' = 0 /\ op' = NoCall /\ before'.clean = FALSE
      /\ before'.topics = Empty(E4_TOPICS_MAX) /\ before'.devices = Empty(E4_DEVICES_MAX)
  BY DEF NoSync, NoSnapshot
<1>2. /\ Empty(E4_TOPICS_MAX) \in Tables(E4_TOPICS_MAX, FileRow)
      /\ Empty(E4_DEVICES_MAX) \in Tables(E4_DEVICES_MAX, FileRow)
  BY Sizes, EmptyRows
<1>3. topics'.count \in Nat /\ devices'.count \in Nat
  BY Sizes, TableParts DEF FieldsAfter
<1>4. Idle'
  BY <1>1 DEF Idle
<1>5. wpos' \in 0 .. LastWrite' + 1
  BY <1>1, <1>3 DEF LastWrite, HeadUnits
<1>6. StoreType'
  BY <1>1, <1>2, <1>4, <1>5 DEF StoreType, FieldsAfter
<1>7. Written'
  <2>1. Start(topics'.count, 0) = 0
    BY DEF Start, HeadUnits
  <2> QED
    BY <1>1, <2>1 DEF Written
<1>8. Unwritten'
  BY <1>1 DEF Unwritten
<1>9. TablesOfCall'
  BY <1>1 DEF TablesOfCall, NoCall
<1>10. SameNames'
  BY <1>4 DEF SameNames
<1> QED
  BY <1>6, <1>7, <1>8, <1>9, <1>10 DEF SyncInv

(* What a call with a sync does to the tables.                             *)
TablesAfter(o, a) ==
    /\ o = "set_topic_key" =>
          /\ devices' = devices
          /\ FirstSlot(topics, a) < E4_TOPICS_MAX
          /\ \E k \in Values :
                a \in Values /\ topics' = PutAt(topics, FirstSlot(topics, a), a, k)
    /\ o = "set_device_key" =>
          /\ topics' = topics
          /\ FirstSlot(devices, a) < E4_DEVICES_MAX
          /\ \E k \in Values :
                a \in Values /\ devices' = PutAt(devices, FirstSlot(devices, a), a, k)
    /\ o \in {"remove_device", "reset_devices"} => devices'.count <= devices.count

NamesAfter ==
    topics'.count = topics.count /\ devices'.count = devices.count =>
       /\ \A i \in LiveSlots(topics') : topics'.slot[i].name = topics.slot[i].name
       /\ \A i \in LiveSlots(devices') : devices'.slot[i].name = devices.slot[i].name

(* A sync that starts, or fails at once.                                   *)
LEMMA StartSyncInv ==
    ASSUME StoreType, Ready, FieldsAfter, devices' \in Tables(E4_DEVICES_MAX, FileRow),
           NEW o, NEW a, StartSync(o, a), TablesAfter(o, a), NamesAfter
    PROVE  SyncInv'
<1>1. CASE NoSync /\ ret' # Pending
  BY <1>1, ReturnInv
<1>2. CASE /\ op' = o /\ arg' = a /\ wpos' = 1
           /\ before' = [clean |-> Stored(file), topics |-> topics, devices |-> devices]
  <2>1. /\ before'.clean = Stored(file) /\ before'.topics = topics
        /\ before'.devices = devices /\ file' = file
    BY <1>2 DEF StartSync
  <2>2. /\ topics \in Tables(E4_TOPICS_MAX, FileRow)
        /\ devices \in Tables(E4_DEVICES_MAX, FileRow)
        /\ devices.count <= E4_DEVICES_MAX
    BY ReadyDevices DEF StoreType, Ready
  <2>3. /\ topics.count \in 0 .. E4_TOPICS_MAX /\ topics.count \in Nat
        /\ devices.count \in 0 .. E4_DEVICES_MAX /\ devices.count \in Nat
    BY <2>2, TableParts, Sizes
  <2>4. /\ topics'.count \in 0 .. E4_TOPICS_MAX /\ topics'.count \in Nat
        /\ devices'.count \in 0 .. E4_DEVICES_MAX /\ devices'.count \in Nat
    BY TableParts, Sizes DEF FieldsAfter
  <2>5. /\ ~Idle' /\ wpos' \in 0 .. LastWrite' + 1 /\ devices'.count <= E4_DEVICES_MAX
        /\ Start(topics'.count, wpos') = 1
    BY <1>2, <2>4, Sizes DEF Idle, LastWrite, HeadUnits, Start
  <2>6. StoreType'
    BY <2>1, <2>2, <2>5 DEF StoreType, FieldsAfter
  <2>7. Written'
    BY <2>5 DEF Written
  <2>8. TablesOfCall'
    BY <1>2, <2>1 DEF TablesOfCall, TablesAfter
  <2>9. SameNames'
    BY <1>2, <2>1 DEF SameNames, NamesAfter
  <2>10. Unwritten'
    <3> DEFINE end == DeviceUnit(topics.count, devices.count) - 1
    <3>1. end \in Nat /\ end >= 7 /\ OldEnd' = end
      BY <2>1, <2>3 DEF DeviceUnit, OldEnd
    <3> HIDE DEF end
    <3>2. SUFFICES ASSUME Stored(file)
                   PROVE  /\ file[1] = <<"head", Magic>>
                          /\ \A u \in 2 .. 5 : file[u] # Absent
                          /\ \A u \in HeadUnits .. end : file[u] = Picture(topics, devices, u)
      BY <2>1, <2>5, <3>1 DEF Unwritten
    <3>3. \A u \in 1 .. end : file[u] = Image(u)
      BY <3>2 DEF Stored, end
    <3>4. file[1] = <<"head", Magic>>
      BY <2>3, <3>1, <3>3, ImageHead
    <3>5. ASSUME NEW u \in 2 .. 5 PROVE file[u] # Absent
      <4>1. u \in 1 .. end
        BY <3>1
      <4>2. Image(u) \in Cells
        BY <2>2, <4>1, ImageTyped DEF end
      <4> QED
        BY <3>3, <4>1, <4>2, AbsentAssumption
    <3>6. ASSUME NEW u \in HeadUnits .. end PROVE file[u] = Picture(topics, devices, u)
      <4>1. u \in 1 .. end /\ u \in Nat /\ u >= HeadUnits
        BY <3>1 DEF HeadUnits
      <4> QED
        BY <3>3, <4>1, ImagePicture
    <3> QED
      BY <3>4, <3>5, <3>6
  <2> QED
    BY <2>6, <2>7, <2>8, <2>9, <2>10 DEF SyncInv
<1> QED
  BY <1>1, <1>2 DEF StartSync

(* A write.                                                                *)
LEMMA WriteFieldInv ==
    ASSUME SyncInv, WriteField
    PROVE  SyncInv'
<1> DEFINE n == topics.count
           m == devices.count
<1>1. /\ wpos' = wpos + 1
      /\ UNCHANGED <<id, ctrltopic, pubkey, privkey, c2key, c2sharedkey, devices, topics, ret>>
      /\ UNCHANGED <<op, arg, before>>
  BY DEF WriteField, vars, identity, secrets, tables
<1>2. /\ StoreType /\ ~Idle /\ wpos + 1 \in 0 .. LastWrite + 1 /\ FileOk(file')
      /\ \A u \in Units :
            \/ /\ u \in Start(n, wpos) .. Start(n, wpos + 1) - 1
               /\ u \in 1 .. DeviceUnit(n, m) - 1
               /\ file'[u] = Image(u)
            \/ /\ u \notin Start(n, wpos) .. Start(n, wpos + 1) - 1
               /\ file'[u] = file[u]
  BY WriteOne DEF SyncInv
<1>3. /\ n \in Nat /\ m \in Nat
      /\ wpos \in 1 .. HeadUnits + 2 * n + 2 + 2 * m
      /\ 1 .. DeviceUnit(n, m) - 1 \subseteq Units
  BY <1>2, Running
<1>4. /\ Start(n, wpos) \in Nat /\ Start(n, wpos) >= 1
      /\ Start(n, wpos + 1) \in Nat /\ Start(n, wpos) < Start(n, wpos + 1)
      /\ Start(n, wpos + 1) <= DeviceUnit(n, m) /\ DeviceUnit(n, m) \in Nat
  <2>1. wpos <= HeadUnits + 2 * n + 1 + 2 * m
    BY <1>3 DEF WriteField, LastWrite, HeadUnits
  <2>2. DeviceUnit(n, m) \in Nat
    BY <1>3 DEF DeviceUnit
  <2> QED
    BY <1>3, <2>1, <2>2, Starts
<1>5. ~Idle'
  BY <1>1, <1>3 DEF Idle
<1>6. StoreType'
  <2>1. LastWrite' = LastWrite
    BY <1>1 DEF LastWrite
  <2>2. wpos' \in 0 .. LastWrite' + 1
    BY <1>1, <1>2, <2>1
  <2> QED
    BY <1>1, <1>2, <1>5, <2>2 DEF StoreType
<1> DEFINE s == Start(n, wpos)
           e == Start(n, wpos + 1)
<1>7. Written'
  <2>1. \A u : Image(u)' = Image(u)
    BY <1>1 DEF Image
  <2>2. \A u \in 1 .. s - 1 : file[u] = Image(u)
    BY DEF SyncInv, Written
  <2> HIDE DEF s, e, m
  <2>3. \A u \in 1 .. e - 1 : file'[u] = Image(u)
    <3> SUFFICES ASSUME NEW u \in 1 .. e - 1 PROVE file'[u] = Image(u)
      OBVIOUS
    <3>1. u \in Units /\ (u \in 1 .. s - 1 \/ u \in s .. e - 1)
      BY <1>3, <1>4 DEF s, e
    <3>2. u \notin s .. e - 1 => u \in 1 .. s - 1
      BY <3>1
    <3> QED
      BY <1>2, <2>2, <3>1, <3>2 DEF s, e, m
  <2>4. Start(n, wpos + 1) = Start(n', wpos')
    BY <1>1
  <2> QED
    BY <2>1, <2>3, <2>4 DEF Written, e
<1>8. Unwritten'
  <2>1. CASE ~before.clean
    BY <1>1, <2>1 DEF Unwritten
  <2>2. CASE before.clean
    <3>1. /\ file[1] = <<"head", Magic>>
          /\ \A u \in 2 .. 5 : file[u] # Absent
          /\ \A u \in HeadUnits .. OldEnd : u >= s =>
                file[u] = Picture(before.topics, before.devices, u)
      BY <2>2 DEF SyncInv, Unwritten
    <3>2. 1 .. 5 \subseteq Units
      BY Sizes DEF Units, DeviceUnit
    <3>3. file'[1] = <<"head", Magic>>
      <4>1. Image(1) = <<"head", Magic>>
        BY <1>3, ImageHead
      <4>2. file'[1] = Image(1) \/ file'[1] = file[1]
        BY <1>2, <3>2
      <4> QED
        BY <3>1, <4>1, <4>2
    <3>4. ASSUME NEW u \in 2 .. 5 PROVE file'[u] # Absent
      <4>1. u \in Units
        BY <3>2
      <4>2. \A v \in 2 .. 5 : Image(v) \in {"head"} \X Values
        BY <1>2, ImageTyped DEF StoreType
      <4>3. Image(u) # Absent
        BY <4>2, AbsentAssumption DEF Cells
      <4> QED
        BY <1>2, <3>1, <4>1, <4>3
    <3>5. ASSUME NEW u \in HeadUnits .. OldEnd, u >= e
          PROVE  file'[u] = Picture(before.topics, before.devices, u)
      <4>1. /\ before.topics.count \in 0 .. E4_TOPICS_MAX
            /\ before.devices.count \in 0 .. E4_DEVICES_MAX
        BY <1>2, TableParts, Sizes DEF StoreType
      <4>2. u \in Units
        BY <4>1, Sizes DEF HeadUnits, OldEnd, DeviceUnit, Units
      <4>3. u >= s /\ u \notin s .. e - 1
        BY <1>4, <3>5, <4>2 DEF Units
      <4> QED
        BY <1>2, <3>1, <4>2, <4>3
    <3>6. OldEnd' = OldEnd /\ Start(n', wpos') = e
      BY <1>1 DEF OldEnd
    <3> HIDE DEF n, m, s, e
    <3> QED
      BY <1>1, <1>5, <3>3, <3>4, <3>5, <3>6 DEF Unwritten, n
  <2> QED
    BY <2>1, <2>2
<1>9. TablesOfCall'
  BY <1>1 DEF SyncInv, TablesOfCall
<1>10. SameNames'
  BY <1>1, <1>2 DEF SyncInv, SameNames
<1> QED
  BY <1>6, <1>7, <1>8, <1>9, <1>10 DEF SyncInv

-----------------------------------------------------------------------------
(* The calls.                                                              *)

(* A step that leaves the fields alone.                                    *)
LEMMA SameFields ==
    ASSUME StoreType, UNCHANGED <<identity, secrets, tables, file>>
    PROVE  FieldsAfter
  BY DEF StoreType, FieldsAfter, identity, secrets, tables

(* The end of a sync.                                                      *)
LEMMA SyncEndInv ==
    ASSUME SyncInv, WriteFail \/ SyncReturn
    PROVE  SyncInv'
<1>1. FieldsAfter
  BY SameFields DEF WriteFail, SyncReturn, SyncInv, identity, secrets, tables
<1>2. NoSync /\ ret' # Pending
  BY DEF WriteFail, SyncReturn, SyncResult, E4_RESULT_OK, E4_ERROR_PERSISTENCE_ERROR, Pending
<1> QED
  BY <1>1, <1>2, ReturnInv

(* What a header field gives.                                              *)
LEMMA HeadTyped ==
    ASSUME NEW f, FileOk(f), NEW u \in 2 .. 5, NEW old \in Values
    PROVE  ReadHead(f, u, old) \in Values
<1>1. CASE f[u] = Absent
  BY <1>1 DEF ReadHead
<1>2. CASE f[u] # Absent
  <2>1. f[u] \in {"head"} \X Values
    BY <1>2 DEF FileOk
  <2> QED
    BY <1>2, <2>1 DEF ReadHead
<1> QED
  BY <1>1, <1>2

(* What load leaves in the store, when the file begins as it should.       *)
LEMMA LoadFields ==
    ASSUME StoreType, NEW g \in Guesses, Load(g)
    PROVE  FieldsAfter
<1>0. file' = file /\ FileOk(file)
  BY DEF Load, Answer, StoreType
<1>1. CASE file[1] = <<"head", Magic>>
  <2>1. /\ id' = ReadHead(file, 2, id) /\ privkey' = ReadHead(file, 3, privkey)
        /\ pubkey' = ReadHead(file, 4, pubkey) /\ c2key' = ReadHead(file, 5, c2key)
        /\ topics' = LoadTopics(file, topics)
        /\ devices' = LoadDevices(file, g, devices)
    BY <1>1 DEF Load
  <2>2. {id, privkey, pubkey, c2key} \subseteq Values
    BY DEF StoreType
  <2>3. {id', privkey', pubkey', c2key'} \subseteq Values
    BY <1>0, <2>1, <2>2, HeadTyped
  <2>4. topics' \in Tables(E4_TOPICS_MAX, FileRow)
    BY <1>0, <2>1, TopicsLoaded DEF StoreType
  <2>5. devices' \in [count : Nat, slot : [0 .. E4_DEVICES_MAX - 1 -> FileRow]]
    BY <1>0, <2>1, DevicesLoaded DEF StoreType
  <2> QED
    BY <1>0, <2>3, <2>4, <2>5 DEF FieldsAfter
<1>2. CASE file[1] # <<"head", Magic>>
  BY <1>0, <1>2 DEF Load, StoreType, FieldsAfter, identity, tables
<1> QED
  BY <1>1, <1>2

(* Outside of a sync: init, configure_storage and load.                    *)
LEMMA QuietInv ==
    ASSUME SyncInv, Restart \/ ConfigureStorage \/ \E g \in Guesses : Load(g)
    PROVE  SyncInv'
<1>0. StoreType
  BY DEF SyncInv
<1>1. CASE Restart
  <2>1. /\ id' = Zero /\ pubkey' = Zero /\ privkey' = Zero /\ c2key' = Zero
        /\ devices' = Empty(E4_DEVICES_MAX) /\ topics' = Empty(E4_TOPICS_MAX)
        /\ file' = file /\ NoSync /\ ret' # Pending
    BY <1>1 DEF Restart, ZeroStore, E4_RESULT_OK, Pending
  <2>2. /\ Empty(E4_TOPICS_MAX) \in Tables(E4_TOPICS_MAX, FileRow)
        /\ Empty(E4_DEVICES_MAX) \in Tables(E4_DEVICES_MAX, FileRow)
    BY Sizes, EmptyRows
  <2>3. /\ devices' \in [count : Nat, slot : [0 .. E4_DEVICES_MAX - 1 -> FileRow]]
    BY <2>1, <2>2, Sizes DEF Tables
  <2>4. Zero \in Values
    BY DEF Values
  <2>5. FieldsAfter
    BY <1>0, <2>1, <2>2, <2>3, <2>4 DEF FieldsAfter, StoreType
  <2> QED
    BY <2>1, <2>5, ReturnInv
<1>2. CASE ConfigureStorage
  <2>1. FieldsAfter
    BY <1>0, <1>2, SameFields DEF ConfigureStorage, Answer, identity, secrets, tables
  <2>2. NoSync /\ ret' # Pending
    BY <1>2 DEF ConfigureStorage, Answer, Pending
  <2> QED
    BY <2>1, <2>2, ReturnInv
<1>3. CASE \E g \in Guesses : Load(g)
  <2>1. PICK g \in Guesses : Load(g)
    BY <1>3
  <2>2. FieldsAfter
    BY <1>0, <2>1, LoadFields
  <2>3. NoSync /\ ret' # Pending
    BY <2>1 DEF Load, Answer, E4_RESULT_OK, E4_ERROR_PERSISTENCE_ERROR, Pending
  <2> QED
    BY <2>2, <2>3, ReturnInv
<1> QED
  BY <1>1, <1>2, <1>3

(* A call that changes no table, with a sync or without one.               *)
LEMMA KeepTablesInv ==
    ASSUME SyncInv, Ready, {id', privkey', pubkey', c2key'} \subseteq Values,
           UNCHANGED tables,
           \/ Answer /\ ret' # Pending
           \/ \E o \in {"sync", "set_idpubkey", "set_idseckey", "set_c2_pubkey"} :
                 StartSync(o, Zero)
    PROVE  SyncInv'
<1>0. StoreType /\ file' = file /\ topics' = topics /\ devices' = devices
  BY DEF SyncInv, Answer, StartSync, tables
<1>1. FieldsAfter
  BY <1>0 DEF StoreType, FieldsAfter
<1>2. CASE Answer /\ ret' # Pending
  BY <1>1, <1>2, ReturnInv DEF Answer
<1>3. ASSUME NEW o \in {"sync", "set_idpubkey", "set_idseckey", "set_c2_pubkey"},
             StartSync(o, Zero)
      PROVE  SyncInv'
  <2>1. TablesAfter(o, Zero)
    BY DEF TablesAfter
  <2>2. NamesAfter
    BY <1>0 DEF NamesAfter
  <2>3. devices' \in Tables(E4_DEVICES_MAX, FileRow)
    BY <1>0, ReadyDevices DEF Ready
  <2> QED
    BY <1>0, <1>1, <1>3, <2>1, <2>2, <2>3, StartSyncInv
<1> QED
  BY <1>2, <1>3

(* Which of them there are.                                                *)
LEMMA FieldCallsInv ==
    ASSUME SyncInv,
           \/ Sync
           \/ \E i \in SelfIds : FileSetId(i)
           \/ \E k \in SelfKeys : FileSetIdPubKey(k)
           \/ \E k \in SecKeys : FileSetIdSecKey(k)
           \/ \E k \in C2Keys : FileSetC2PubKey(k)
           \/ \E k \in TopicKeys : FileSetC2SharedSecret(k)
    PROVE  SyncInv'
<1>0. {id, privkey, pubkey, c2key} \subseteq Values
  BY DEF SyncInv, StoreType
<1>1. CASE Sync
  BY <1>0, <1>1, KeepTablesInv DEF Sync, identity, secrets
<1>2. CASE \E i \in SelfIds : FileSetId(i)
  <2>1. PICK i \in SelfIds : FileSetId(i)
    BY <1>2
  <2>2. i \in Values
    BY FileAssumption DEF Values
  <2>3. {id', privkey', pubkey', c2key'} \subseteq Values
    BY <1>0, <2>1, <2>2 DEF FileSetId, SetId, secrets
  <2>4. Ready /\ UNCHANGED tables /\ Answer /\ ret' # Pending
    BY <2>1 DEF FileSetId, SetId, E4_RESULT_OK, Pending
  <2> QED
    BY <2>3, <2>4, KeepTablesInv
<1>3. CASE \E k \in SelfKeys : FileSetIdPubKey(k)
  <2>1. PICK k \in SelfKeys : FileSetIdPubKey(k)
    BY <1>3
  <2>2. k \in Values
    BY FileAssumption DEF Values
  <2>3. {id', privkey', pubkey', c2key'} \subseteq Values
    BY <1>0, <2>1, <2>2 DEF FileSetIdPubKey, SetIdPubKey, secrets
  <2> QED
    BY <2>1, <2>3, KeepTablesInv DEF FileSetIdPubKey, SetIdPubKey
<1>4. CASE \E k \in SecKeys : FileSetIdSecKey(k)
  <2>1. PICK k \in SecKeys : FileSetIdSecKey(k)
    BY <1>4
  <2>2. k \in Values
    BY DEF Values
  <2>3. {id', privkey', pubkey', c2key'} \subseteq Values
    BY <1>0, <2>1, <2>2 DEF FileSetIdSecKey, SetIdSecKey, identity
  <2> QED
    BY <2>1, <2>3, KeepTablesInv DEF FileSetIdSecKey, SetIdSecKey, tables
<1>5. CASE \E k \in C2Keys : FileSetC2PubKey(k)
  <2>1. PICK k \in C2Keys : FileSetC2PubKey(k)
    BY <1>5
  <2>2. k \in Values
    BY DEF Values
  <2>3. {id', privkey', pubkey', c2key'} \subseteq Values
    BY <1>0, <2>1, <2>2 DEF FileSetC2PubKey, SetC2PubKey, identity
  <2> QED
    BY <2>1, <2>3, KeepTablesInv DEF FileSetC2PubKey, SetC2PubKey, tables
<1>6. CASE \E k \in TopicKeys : FileSetC2SharedSecret(k)
  <2>1. PICK k \in TopicKeys : FileSetC2SharedSecret(k)
    BY <1>6
  <2>2. {id', privkey', pubkey', c2key'} \subseteq Values
    BY <1>0, <2>1 DEF FileSetC2SharedSecret, SetC2SharedSecret, identity
  <2>3. Ready /\ UNCHANGED tables /\ Answer /\ ret' # Pending
    BY <2>1 DEF FileSetC2SharedSecret, SetC2SharedSecret, E4_RESULT_OK, Pending, tables
  <2> QED
    BY <2>2, <2>3, KeepTablesInv
<1> QED
  BY <1>1, <1>2, <1>3, <1>4, <1>5, <1>6

(* Writing where the scan ends: a new row when the count changes, the name *)
(* that was there when it does not.                                        *)
LEMMA PutNames ==
    ASSUME NEW max \in Nat, NEW t \in Tables(max, FileRow), NEW n \in Values,
           NEW k \in Values, FirstSlot(t, n) < max
    PROVE  LET u == PutAt(t, FirstSlot(t, n), n, k)
           IN  /\ u \in Tables(max, FileRow)
               /\ u.count = IF n \in Names(t) THEN t.count ELSE t.count + 1
               /\ \A i \in LiveSlots(t) : u.slot[i].name = t.slot[i].name
               /\ \A i \in LiveSlots(t) : t.slot[i].name # n => u.slot[i] = t.slot[i]
<1> DEFINE i == FirstSlot(t, n)
           u == PutAt(t, i, n, k)
<1>1. t.count \in 0 .. max /\ t.count \in Nat /\ LiveSlots(t) \subseteq 0 .. max - 1
  BY TableParts
<1>2. /\ i \in 0 .. t.count
      /\ n \in Names(t) => i \in LiveSlots(t) /\ t.slot[i].name = n
      /\ n \notin Names(t) => i = t.count
  BY <1>1, ScanFirst
<1>3. [name |-> n, key |-> k] \in FileRow
  BY DEF FileRow
<1>4. /\ u \in Tables(max, FileRow)
      /\ u.count = IF i = t.count THEN t.count + 1 ELSE t.count
      /\ u.slot[i] = [name |-> n, key |-> k]
      /\ \A j \in 0 .. max - 1 : j # i => u.slot[j] = t.slot[j]
  BY <1>2, <1>3, PutTable
<1>5. i \in LiveSlots(t) => i # t.count
  BY <1>1 DEF LiveSlots
<1> HIDE DEF i, u
<1>6. u.count = IF n \in Names(t) THEN t.count ELSE t.count + 1
  BY <1>2, <1>4, <1>5
<1>7. ASSUME NEW j \in LiveSlots(t)
      PROVE  u.slot[j].name = t.slot[j].name /\ (t.slot[j].name # n => u.slot[j] = t.slot[j])
  <2>1. CASE j # i
    BY <1>1, <1>4, <2>1
  <2>2. CASE j = i
    <3>1. t.slot[i].name = n
      BY <1>2, <1>5, <2>2
    <3>2. u.slot[i].name = n
      BY <1>4
    <3> QED
      BY <2>2, <3>1, <3>2
  <2> QED
    BY <2>1, <2>2
<1> QED
  BY <1>4, <1>6, <1>7 DEF u, i

(* A table as a record whose count may be anything.                        *)
LEMMA WideTable ==
    ASSUME NEW t \in Tables(E4_DEVICES_MAX, FileRow)
    PROVE  t \in [count : Nat, slot : [0 .. E4_DEVICES_MAX - 1 -> FileRow]]
  BY Sizes DEF Tables

(* A call on a table that starts a sync, or returns without one.           *)
LEMMA TableCallInv ==
    ASSUME SyncInv, Ready, UNCHANGED <<identity, secrets>>,
           topics' \in Tables(E4_TOPICS_MAX, FileRow),
           devices' \in Tables(E4_DEVICES_MAX, FileRow), NEW o, NEW a,
           \/ Answer /\ ret' # Pending
           \/ StartSync(o, a) /\ TablesAfter(o, a) /\ NamesAfter
    PROVE  SyncInv'
<1>1. StoreType /\ file' = file
  BY DEF SyncInv, Answer, StartSync
<1>2. FieldsAfter
  BY <1>1, WideTable DEF FieldsAfter, StoreType, identity, secrets
<1>3. CASE Answer /\ ret' # Pending
  BY <1>2, <1>3, ReturnInv DEF Answer
<1>4. CASE StartSync(o, a) /\ TablesAfter(o, a) /\ NamesAfter
  BY <1>1, <1>2, <1>4, StartSyncInv
<1> QED
  BY <1>3, <1>4

(* A call that refuses says so.                                            *)
LEMMA Refused ==
    ASSUME NEW o, NEW a, NEW r \in {E4_ERROR_TOPICKEY_MISSING, E4_ERROR_DEVICEPK_MISSING},
           ret' = r \/ ret' \in SyncResults, SaveUnless(r, o, a)
    PROVE  \/ ret' = r /\ Answer /\ ret' # Pending
           \/ ret' # r /\ ret' \in SyncResults /\ StartSync(o, a)
<1>1. r # Pending
  BY DEF E4_ERROR_TOPICKEY_MISSING, E4_ERROR_DEVICEPK_MISSING, Pending
<1> QED
  BY <1>1 DEF SaveUnless

(* set_topic_key and set_device_key.                                       *)
LEMMA SetCallsInv ==
    ASSUME SyncInv,
           \/ \E t \in Topics, k \in TopicKeys : FileSetTopicKey(TopicHash(t), k)
           \/ \E d \in Ids, k \in PubKeys : FileSetDeviceKey(d, k)
    PROVE  SyncInv'
<1>0. StoreType /\ topics \in Tables(E4_TOPICS_MAX, FileRow)
  BY Sizes DEF SyncInv, StoreType
<1>1. ASSUME NEW h \in Hashes, NEW k \in TopicKeys, FileSetTopicKey(h, k)
      PROVE  SyncInv'
  <2> DEFINE i == FirstSlot(topics, h)
  <2>1. /\ Ready /\ SetTopicKey(h, k)
        /\ SaveUnless(E4_ERROR_TOPICKEY_MISSING, "set_topic_key", h)
    BY <1>1 DEF FileSetTopicKey
  <2>2. UNCHANGED <<identity, secrets, devices>>
    BY <2>1 DEF SetTopicKey
  <2>3. devices \in Tables(E4_DEVICES_MAX, FileRow)
    BY <1>0, <2>1, ReadyDevices DEF Ready
  <2>4. ret' = E4_ERROR_TOPICKEY_MISSING \/ ret' \in SyncResults
    BY <2>1 DEF SetTopicKey, Synced
  <2>5. CASE ret' = E4_ERROR_TOPICKEY_MISSING
    <3>1. Answer /\ ret' # Pending
      BY <2>1, <2>4, <2>5, Refused
    <3>2. topics' = topics
      BY <2>1, <2>5, SyncAssumption DEF SetTopicKey, Synced
    <3> QED
      BY <1>0, <2>1, <2>2, <2>3, <3>1, <3>2, TableCallInv DEF identity, secrets
  <2>6. CASE ret' # E4_ERROR_TOPICKEY_MISSING
    <3>1. StartSync("set_topic_key", h)
      BY <2>1, <2>4, <2>6, Refused
    <3>2. ~(i >= E4_TOPICS_MAX) /\ topics' = PutAt(topics, i, h, k)
      BY <2>1, <2>6 DEF SetTopicKey
    <3>3. topics.count \in Nat /\ i \in 0 .. topics.count
      BY <1>0, Sizes, TableParts, ScanFirst
    <3>4. i < E4_TOPICS_MAX
      BY <3>2, <3>3, Sizes
    <3>5. h \in Values /\ k \in Values
      BY DEF Values
    <3>6. /\ topics' \in Tables(E4_TOPICS_MAX, FileRow)
          /\ \A j \in LiveSlots(topics) : topics'.slot[j].name = topics.slot[j].name
      BY <1>0, <3>2, <3>4, <3>5, Sizes, PutNames
    <3>7. TablesAfter("set_topic_key", h)
      BY <2>2, <3>2, <3>4, <3>5 DEF TablesAfter
    <3>8. NamesAfter
      BY <2>2, <3>6 DEF NamesAfter, LiveSlots
    <3> QED
      BY <2>1, <2>2, <2>3, <3>1, <3>6, <3>7, <3>8, TableCallInv DEF identity, secrets
  <2> QED
    BY <2>5, <2>6
<1>2. ASSUME NEW d \in Ids, NEW k \in PubKeys, FileSetDeviceKey(d, k)
      PROVE  SyncInv'
  <2> DEFINE i == FirstSlot(devices, d)
  <2>1. /\ Ready /\ SetDeviceKey(d, k)
        /\ SaveUnless(E4_ERROR_DEVICEPK_MISSING, "set_device_key", d)
    BY <1>2 DEF FileSetDeviceKey
  <2>2. UNCHANGED <<identity, secrets, topics>>
    BY <2>1 DEF SetDeviceKey
  <2>3. devices \in Tables(E4_DEVICES_MAX, FileRow)
    BY <1>0, <2>1, ReadyDevices DEF Ready
  <2>4. ret' = E4_ERROR_DEVICEPK_MISSING \/ ret' \in SyncResults
    BY <2>1 DEF SetDeviceKey, Synced
  <2>5. CASE ret' = E4_ERROR_DEVICEPK_MISSING
    <3>1. Answer /\ ret' # Pending
      BY <2>1, <2>4, <2>5, Refused
    <3>2. devices' = devices
      BY <2>1, <2>5, SyncAssumption DEF SetDeviceKey, Synced
    <3> QED
      BY <1>0, <2>1, <2>2, <2>3, <3>1, <3>2, TableCallInv DEF identity, secrets
  <2>6. CASE ret' # E4_ERROR_DEVICEPK_MISSING
    <3>1. StartSync("set_device_key", d)
      BY <2>1, <2>4, <2>6, Refused
    <3>2. ~(i >= E4_DEVICES_MAX) /\ devices' = PutAt(devices, i, d, k)
      BY <2>1, <2>6 DEF SetDeviceKey
    <3>3. devices.count \in Nat /\ i \in 0 .. devices.count
      BY <2>3, Sizes, TableParts, ScanFirst
    <3>4. i < E4_DEVICES_MAX
      BY <3>2, <3>3, Sizes
    <3>5. d \in Values /\ k \in Values
      BY DEF Values
    <3>6. /\ devices' \in Tables(E4_DEVICES_MAX, FileRow)
          /\ \A j \in LiveSlots(devices) : devices'.slot[j].name = devices.slot[j].name
      BY <2>3, <3>2, <3>4, <3>5, Sizes, PutNames
    <3>7. TablesAfter("set_device_key", d)
      BY <2>2, <3>2, <3>4, <3>5 DEF TablesAfter
    <3>8. NamesAfter
      BY <2>2, <3>6 DEF NamesAfter, LiveSlots
    <3> QED
      BY <1>0, <2>1, <2>2, <2>3, <3>1, <3>6, <3>7, <3>8, TableCallInv DEF identity, secrets
  <2> QED
    BY <2>5, <2>6
<1> QED
  BY <1>1, <1>2 DEF Hashes

(* remove_topic, remove_device and the two resets.                         *)
LEMMA RemoveCallsInv ==
    ASSUME SyncInv,
           \/ \E t \in Topics : FileRemoveTopic(TopicHash(t))
           \/ \E d \in Ids : FileRemoveDevice(d)
           \/ FileResetTopics \/ FileResetDevices
    PROVE  SyncInv'
<1>0. StoreType /\ topics \in Tables(E4_TOPICS_MAX, FileRow) /\ ZeroEntry \in FileRow
  BY DEF SyncInv, StoreType, ZeroEntry, FileRow, Values
<1>1. topics.count \in 0 .. E4_TOPICS_MAX /\ topics.count \in Nat
      /\ topics.count \in 0 .. E4_DEVICES_MAX
  BY <1>0, Sizes, TableParts
<1>2. Ready
  BY DEF FileRemoveTopic, FileRemoveDevice, FileResetTopics, FileResetDevices
<1>3. devices \in Tables(E4_DEVICES_MAX, FileRow)
  BY <1>0, <1>2, ReadyDevices DEF Ready
<1>4. devices.count \in 0 .. E4_DEVICES_MAX /\ devices.count \in Nat
  BY <1>3, Sizes, TableParts
<1>5. ASSUME NEW h \in Hashes, FileRemoveTopic(h)
      PROVE  SyncInv'
  <2> DEFINE i == FirstSlot(topics, h)
  <2>1. RemoveTopic(h) /\ SaveUnless(E4_ERROR_TOPICKEY_MISSING, "remove_topic", h)
    BY <1>5 DEF FileRemoveTopic
  <2>2. UNCHANGED <<identity, secrets, devices>>
    BY <2>1 DEF RemoveTopic
  <2>3. ret' = E4_ERROR_TOPICKEY_MISSING \/ ret' \in SyncResults
    BY <2>1 DEF RemoveTopic, Synced
  <2>4. CASE ret' = E4_ERROR_TOPICKEY_MISSING
    <3>1. Answer /\ ret' # Pending
      BY <2>1, <2>3, <2>4, Refused
    <3>2. topics' = topics
      BY <2>1, <2>4, SyncAssumption DEF RemoveTopic, Synced
    <3> QED
      BY <1>0, <1>2, <1>3, <2>2, <3>1, <3>2, TableCallInv DEF identity, secrets
  <2>5. CASE ret' # E4_ERROR_TOPICKEY_MISSING
    <3>1. StartSync("remove_topic", h)
      BY <2>1, <2>3, <2>5, Refused
    <3>2. i < topics.count /\ topics' = CloseGap(topics, i, topics.count, ZeroEntry)
      BY <2>1, <2>5 DEF RemoveTopic
    <3>3. i \in 0 .. topics.count
      BY <1>1, ScanFirst
    <3>4. i \in LiveSlots(topics)
      BY <1>1, <3>2, <3>3 DEF LiveSlots
    <3>5. topics' \in Tables(E4_TOPICS_MAX, FileRow) /\ topics'.count = topics.count - 1
      BY <1>0, <1>1, <3>2, <3>4, Sizes, CloseGapTable
    <3>6. TablesAfter("remove_topic", h)
      BY DEF TablesAfter
    <3>7. topics'.count # topics.count
      BY <1>1, <3>5
    <3>8. NamesAfter
      BY <3>7 DEF NamesAfter
    <3> QED
      BY <1>2, <1>3, <2>2, <3>1, <3>5, <3>6, <3>8, TableCallInv DEF identity, secrets
  <2> QED
    BY <2>4, <2>5
<1>6. ASSUME NEW d \in Ids, FileRemoveDevice(d)
      PROVE  SyncInv'
  <2> DEFINE i == FirstSlot(devices, d)
  <2>1. RemoveDevice(d) /\ SaveUnless(E4_ERROR_DEVICEPK_MISSING, "remove_device", d)
    BY <1>6 DEF FileRemoveDevice
  <2>2. UNCHANGED <<identity, secrets>>
    BY <2>1 DEF RemoveDevice
  <2>3. ret' = E4_ERROR_DEVICEPK_MISSING \/ ret' \in SyncResults
    BY <2>1 DEF RemoveDevice, Synced
  <2>4. CASE ret' = E4_ERROR_DEVICEPK_MISSING
    <3>1. Answer /\ ret' # Pending
      BY <2>1, <2>3, <2>4, Refused
    <3>2. topics' = topics /\ devices' = devices
      BY <2>1, <2>4, SyncAssumption DEF RemoveDevice, Synced, tables
    <3> QED
      BY <1>0, <1>2, <1>3, <2>2, <3>1, <3>2, TableCallInv DEF identity, secrets
  <2>5. CASE ret' # E4_ERROR_DEVICEPK_MISSING
    <3>1. StartSync("remove_device", d)
      BY <2>1, <2>3, <2>5, Refused
    <3>2. /\ i < devices.count /\ devices' = CloseGap(devices, i, topics.count, ZeroEntry)
          /\ topics' = IF devices.count = E4_DEVICES_MAX
                       THEN [topics EXCEPT !.slot[0] = ZeroEntry] ELSE topics
      BY <2>1, <2>5 DEF RemoveDevice
    <3>3. i \in 0 .. devices.count
      BY <1>4, ScanFirst
    <3>4. i \in LiveSlots(devices)
      BY <1>4, <3>2, <3>3 DEF LiveSlots
    <3>5. devices' \in Tables(E4_DEVICES_MAX, FileRow) /\ devices'.count = devices.count - 1
      BY <1>0, <1>1, <1>3, <3>2, <3>4, Sizes, CloseGapTable
    <3>6. devices'.count <= devices.count /\ devices'.count # devices.count
      BY <1>4, <3>5
    <3>7. TablesAfter("remove_device", d)
      BY <3>6 DEF TablesAfter
    <3>8. NamesAfter
      BY <3>6 DEF NamesAfter
    <3>9. topics' \in Tables(E4_TOPICS_MAX, FileRow)
      BY <1>0, <3>2 DEF Tables
    <3> QED
      BY <1>2, <2>2, <3>1, <3>5, <3>7, <3>8, <3>9, TableCallInv DEF identity, secrets
  <2> QED
    BY <2>4, <2>5
<1>7. /\ Empty(E4_TOPICS_MAX) \in Tables(E4_TOPICS_MAX, FileRow)
      /\ Empty(E4_DEVICES_MAX) \in Tables(E4_DEVICES_MAX, FileRow)
      /\ LiveSlots(Empty(E4_TOPICS_MAX)) = {} /\ LiveSlots(Empty(E4_DEVICES_MAX)) = {}
      /\ Empty(E4_DEVICES_MAX).count = 0
  BY Sizes, EmptyRows DEF LiveSlots
<1>8. CASE FileResetTopics
  <2>1. /\ topics' = Empty(E4_TOPICS_MAX) /\ UNCHANGED <<identity, secrets, devices>>
        /\ StartSync("reset_topics", Zero)
    BY <1>8 DEF FileResetTopics, ResetTopics
  <2>2. TablesAfter("reset_topics", Zero)
    BY DEF TablesAfter
  <2>3. NamesAfter
    BY <1>7, <2>1 DEF NamesAfter
  <2> QED
    BY <1>2, <1>3, <1>7, <2>1, <2>2, <2>3, TableCallInv DEF identity, secrets
<1>9. CASE FileResetDevices
  <2>1. /\ devices' = Empty(E4_DEVICES_MAX) /\ UNCHANGED <<identity, secrets, topics>>
        /\ StartSync("reset_devices", Zero)
    BY <1>9 DEF FileResetDevices, ResetDevices
  <2>2. TablesAfter("reset_devices", Zero)
    BY <1>4, <1>7, <2>1 DEF TablesAfter
  <2>3. NamesAfter
    BY <1>7, <2>1 DEF NamesAfter
  <2> QED
    BY <1>0, <1>2, <1>7, <2>1, <2>2, <2>3, TableCallInv DEF identity, secrets
<1> QED
  BY <1>5, <1>6, <1>8, <1>9 DEF Hashes

-----------------------------------------------------------------------------
(* The invariant.                                                          *)

(* It holds of a zeroed store without a file.                              *)
LEMMA StoreInit == FileInit => SyncInv
<1> SUFFICES ASSUME FileInit PROVE SyncInv
  OBVIOUS
<1>1. /\ wpos = 0 /\ op = NoCall /\ before = NoSnapshot /\ ret # Pending
      /\ topics = Empty(E4_TOPICS_MAX) /\ devices = Empty(E4_DEVICES_MAX)
      /\ id = Zero /\ privkey = Zero /\ pubkey = Zero /\ c2key = Zero /\ file = NoFile
  BY DEF FileInit, Init, E4_RESULT_OK, Pending
<1>2. /\ Empty(E4_TOPICS_MAX) \in Tables(E4_TOPICS_MAX, FileRow)
      /\ Empty(E4_DEVICES_MAX) \in Tables(E4_DEVICES_MAX, FileRow)
      /\ Empty(E4_TOPICS_MAX).count = 0 /\ Empty(E4_DEVICES_MAX).count = 0
  BY Sizes, EmptyRows
<1>3. devices \in [count : Nat, slot : [0 .. E4_DEVICES_MAX - 1 -> FileRow]]
  BY <1>1, <1>2, WideTable
<1>4. FileOk(file)
  <2>1. 2 .. 5 \subseteq Units /\ HeadUnits \in Units
    BY Sizes DEF Units, DeviceUnit, HeadUnits
  <2> QED
    BY <1>1, <2>1 DEF FileOk, NoFile
<1>5. Idle /\ wpos \in 0 .. LastWrite + 1
  BY <1>1, <1>2 DEF Idle, LastWrite, HeadUnits
<1>6. StoreType
  BY <1>1, <1>2, <1>3, <1>4, <1>5 DEF StoreType, NoSnapshot, Values
<1>7. Written
  BY <1>1 DEF Written, Start, HeadUnits
<1>8. Unwritten /\ TablesOfCall /\ SameNames
  BY <1>1, <1>5 DEF Unwritten, TablesOfCall, SameNames, NoSnapshot, NoCall
<1> QED
  BY <1>6, <1>7, <1>8 DEF SyncInv

(* Every step keeps it.                                                    *)
LEMMA StoreNext ==
    ASSUME SyncInv, [FileNext]_fvars
    PROVE  SyncInv'
<1>1. CASE Change
  BY <1>1, FieldCallsInv, SetCallsInv, RemoveCallsInv DEF Change
<1>2. CASE Restart \/ ConfigureStorage \/ \E g \in Guesses : Load(g)
  BY <1>2, QuietInv
<1>3. CASE Sync
  BY <1>3, FieldCallsInv
<1>4. CASE WriteField
  BY <1>4, WriteFieldInv
<1>5. CASE WriteFail \/ SyncReturn
  BY <1>5, SyncEndInv
<1>6. CASE UNCHANGED fvars
  <2>1. /\ UNCHANGED <<id, ctrltopic, pubkey, privkey, c2key, c2sharedkey, devices, topics, ret>>
        /\ UNCHANGED <<file, op, arg, wpos, before>>
    BY <1>6 DEF fvars, vars, identity, secrets, tables, disk
  <2>2. StoreType'
    BY <2>1 DEF SyncInv, StoreType, LastWrite, Idle
  <2>3. Written'
    <3>1. \A u : Image(u)' = Image(u)
      BY <2>1 DEF Image
    <3> QED
      BY <2>1, <3>1 DEF SyncInv, Written
  <2>4. Unwritten' /\ TablesOfCall' /\ SameNames'
    BY <2>1 DEF SyncInv, Unwritten, TablesOfCall, SameNames, OldEnd, Idle
  <2> QED
    BY <2>2, <2>3, <2>4 DEF SyncInv
<1> QED
  BY <1>1, <1>2, <1>3, <1>4, <1>5, <1>6 DEF FileNext

(* At every moment of a sync the file consists of what the store holds, up *)
(* to where the writes have come, and behind that, when the file held the  *)
(* store before the call, of what the tables were then.                    *)
THEOREM PkFileStoreInvariant == FileSpec => []SyncInv
<1>1. FileInit => SyncInv
  BY StoreInit
<1>2. SyncInv /\ [FileNext]_fvars => SyncInv'
  BY StoreNext
<1> QED
  BY <1>1, <1>2, PTL DEF FileSpec

-----------------------------------------------------------------------------
(* What OK means.                                                          *)

(* From a call that waits for its sync only the end of the sync, a failed  *)
(* write or init leads on; of these only the first returns OK with a path. *)
LEMMA OkIsStored ==
    ASSUME SyncInv, [FileNext]_fvars, ret = Pending, ret' = E4_RESULT_OK, filepath' # Zero
    PROVE  Stored(file)'
<1>1. ~Idle /\ wpos # 0 /\ ret' # ret
  BY DEF SyncInv, StoreType, Idle, E4_RESULT_OK, Pending
<1>2. CASE SyncReturn
  <2>1. /\ UNCHANGED <<id, privkey, pubkey, c2key, topics, devices, file>>
        /\ wpos > LastWrite
    BY <1>2 DEF SyncReturn, identity, secrets, tables
  <2> DEFINE n == topics.count
             m == devices.count
  <2>2. /\ n \in Nat /\ m \in Nat
        /\ wpos \in 1 .. HeadUnits + 2 * n + 2 + 2 * m
    BY <1>1, Running DEF SyncInv
  <2>3. wpos > HeadUnits + 2 * n + 1 + 2 * m
    BY <2>1 DEF LastWrite
  <2>4. Start(n, wpos) = DeviceUnit(n, m)
    BY <2>2, <2>3, Starts
  <2>5. \A u \in 1 .. DeviceUnit(n, m) - 1 : file[u] = Image(u)
    BY <2>4 DEF SyncInv, Written
  <2>6. \A u : Image(u)' = Image(u)
    BY <2>1 DEF Image
  <2> QED
    BY <2>1, <2>5, <2>6 DEF Stored
<1>3. CASE WriteFail
  BY <1>3 DEF WriteFail, SyncResult, E4_RESULT_OK, E4_ERROR_PERSISTENCE_ERROR
<1>4. CASE Restart
  BY <1>4 DEF Restart, ZeroStore
<1>5. CASE WriteField \/ UNCHANGED fvars
  BY <1>1, <1>5 DEF WriteField, fvars, vars
<1>6. CASE ConfigureStorage \/ Sync \/ \E g \in Guesses : Load(g)
  BY <1>1, <1>6 DEF ConfigureStorage, Sync, Load, Ready
<1>7. CASE Change
  BY <1>1, <1>7 DEF Change, Ready, FileSetId, FileSetIdPubKey, FileSetIdSecKey, FileSetC2PubKey,
       FileSetC2SharedSecret, FileSetTopicKey, FileRemoveTopic, FileSetDeviceKey,
       FileRemoveDevice, FileResetTopics, FileResetDevices
<1> QED
  BY <1>2, <1>3, <1>4, <1>5, <1>6, <1>7 DEF FileNext

(* A table call or sync that returns OK leaves the file holding both       *)
(* tables and all keys exactly.                                            *)
THEOREM PkFileStoreDurableAfterOk == FileSpec => DurableAfterOk
<1>1. SyncInv /\ [FileNext]_fvars
      => [ret = Pending /\ ret' = E4_RESULT_OK /\ filepath' # Zero => Stored(file)']_fvars
  BY OkIsStored
<1> QED
  BY <1>1, PkFileStoreInvariant, PTL DEF FileSpec, DurableAfterOk

-----------------------------------------------------------------------------
(* The secret and the counts.                                              *)

(* Together with the type of the tables.                                   *)
SoundInv == SyncInv /\ SoundUnlessMisloaded

(* The count of the topics is right in any case.                           *)
LEMMA TopicCountSound ==
    ASSUME SyncInv
    PROVE  topics.count \in 0 .. E4_TOPICS_MAX
  BY Sizes, TableParts DEF SyncInv, StoreType

(* The count of the devices while there is a next call or a sync runs.     *)
LEMMA DeviceCountSound ==
    ASSUME SyncInv, Ready \/ ~Idle
    PROVE  devices.count \in 0 .. E4_DEVICES_MAX
<1>1. devices.count <= E4_DEVICES_MAX
  BY DEF SyncInv, StoreType, Ready
<1> QED
  BY <1>1, ReadyDevices, Sizes, TableParts DEF SyncInv

(* load.                                                                   *)
LEMMA LoadSound ==
    ASSUME SoundInv, SyncInv', NEW g \in Guesses, Load(g)
    PROVE  SoundUnlessMisloaded'
<1>1. topics'.count \in 0 .. E4_TOPICS_MAX
  BY TopicCountSound, Sizes, TableParts DEF SyncInv, StoreType
<1>2. CASE Loads(file, g)
  <2>1. DeriveLoaded
    BY <1>2 DEF Load
  <2>2. SecretMatchesKeys'
    BY <2>1 DEF DeriveLoaded, SecretMatchesKeys, Expected
  <2>3. HasDeviceCount(file) /\ DeviceCount(file, g) <= E4_DEVICES_MAX
    BY <1>2 DEF Loads
  <2>4. FileOk(file) /\ file[1] = <<"head", Magic>>
    BY <2>3 DEF SoundInv, SyncInv, StoreType, HasDeviceCount, TopicsRead
  <2>5. devices' = LoadDevices(file, g, devices)
    BY <2>4 DEF Load
  <2>6. devices'.count = DeviceCount(file, g)
    BY <2>3, <2>4, <2>5, DevicesLoaded DEF SoundInv, SyncInv, StoreType
  <2>7. DeviceCount(file, g) \in Nat
    BY <2>3, <2>4, DeviceCountTyped
  <2>8. devices'.count \in 0 .. E4_DEVICES_MAX
    BY <2>3, <2>6, <2>7, Sizes
  <2> QED
    BY <1>1, <2>2, <2>8 DEF SoundUnlessMisloaded
<1>3. CASE ~Loads(file, g)
  <2>1. /\ misloaded' = (misloaded \/ file[1] # Absent)
        /\ UNCHANGED <<c2sharedkey, foreign>>
    BY <1>3 DEF Load
  <2>2. CASE misloaded'
    BY <1>1, <2>2 DEF SoundUnlessMisloaded
  <2>3. CASE ~misloaded'
    <3>1. ~misloaded /\ file[1] = Absent
      BY <2>1, <2>3
    <3>2. <<"head", Magic>> \in Cells
      BY DEF Cells
    <3>3. file[1] # <<"head", Magic>>
      BY <3>1, <3>2, AbsentAssumption
    <3>4. UNCHANGED <<privkey, c2key, devices>>
      BY <3>3 DEF Load, tables
    <3> QED
      BY <1>1, <2>1, <3>1, <3>4 DEF SoundInv, SoundUnlessMisloaded, SecretMatchesKeys, Expected
  <2> QED
    BY <2>2, <2>3
<1> QED
  BY <1>2, <1>3

(* The steps that touch neither key nor secret.                            *)
LEMMA SameSecret ==
    ASSUME SoundInv, SyncInv', UNCHANGED <<secrets, misloaded>>,
           \/ UNCHANGED devices
           \/ devices'.count \in 0 .. E4_DEVICES_MAX
    PROVE  SoundUnlessMisloaded'
<1>1. topics'.count \in 0 .. E4_TOPICS_MAX
  BY Sizes, TableParts DEF SyncInv, StoreType
<1>2. ~misloaded' => SecretMatchesKeys'
  BY DEF SoundInv, SoundUnlessMisloaded, SecretMatchesKeys, Expected, secrets
<1>3. ~misloaded' => devices'.count \in 0 .. E4_DEVICES_MAX
  BY DEF SoundInv, SoundUnlessMisloaded
<1> QED
  BY <1>1, <1>2, <1>3 DEF SoundUnlessMisloaded

(* The calls on devices keep the count within the array.                   *)
LEMMA DeviceCallsSound ==
    ASSUME SoundInv, SyncInv',
           \/ \E d \in Ids, k \in PubKeys : FileSetDeviceKey(d, k)
           \/ \E d \in Ids : FileRemoveDevice(d)
           \/ FileResetDevices
    PROVE  SoundUnlessMisloaded'
<1>1. /\ Ready /\ UNCHANGED <<secrets, misloaded>>
  BY DEF FileSetDeviceKey, FileRemoveDevice, FileResetDevices, SetDeviceKey, RemoveDevice,
         ResetDevices, SaveUnless, StartSync
<1>2. devices.count \in 0 .. E4_DEVICES_MAX /\ devices.count \in Nat
  BY <1>1, DeviceCountSound, Sizes DEF SoundInv
<1>3. devices'.count \in 0 .. E4_DEVICES_MAX
  <2>1. ASSUME NEW d \in Ids, NEW k \in PubKeys, FileSetDeviceKey(d, k)
        PROVE  devices'.count \in 0 .. E4_DEVICES_MAX
    <3> DEFINE i == FirstSlot(devices, d)
    <3>1. SetDeviceKey(d, k)
      BY <2>1 DEF FileSetDeviceKey
    <3>2. i \in 0 .. devices.count
      BY <1>2, ScanFirst
    <3>3. CASE i >= E4_DEVICES_MAX
      BY <1>2, <3>1, <3>3 DEF SetDeviceKey
    <3>4. CASE ~(i >= E4_DEVICES_MAX)
      <4>1. devices' = PutAt(devices, i, d, k)
        BY <3>1, <3>4 DEF SetDeviceKey
      <4>2. devices'.count = IF i = devices.count THEN devices.count + 1 ELSE devices.count
        BY <4>1 DEF PutAt
      <4>3. i = devices.count => devices.count + 1 \in 0 .. E4_DEVICES_MAX
        BY <1>2, <3>4, Sizes
      <4> QED
        BY <1>2, <4>2, <4>3
    <3> QED
      BY <3>3, <3>4
  <2>2. ASSUME NEW d \in Ids, FileRemoveDevice(d)
        PROVE  devices'.count \in 0 .. E4_DEVICES_MAX
    <3> DEFINE i == FirstSlot(devices, d)
    <3>1. RemoveDevice(d)
      BY <2>2 DEF FileRemoveDevice
    <3>2. i \in 0 .. devices.count
      BY <1>2, ScanFirst
    <3>3. CASE i < devices.count
      <4>1. devices' = CloseGap(devices, i, topics.count, ZeroEntry)
        BY <3>1, <3>3 DEF RemoveDevice
      <4>2. devices'.count = devices.count - 1
        BY <4>1 DEF CloseGap
      <4>3. devices.count - 1 \in 0 .. E4_DEVICES_MAX
        BY <1>2, <3>2, <3>3, Sizes
      <4> QED
        BY <4>2, <4>3
    <3>4. CASE ~(i < devices.count)
      BY <1>2, <3>1, <3>4 DEF RemoveDevice, tables
    <3> QED
      BY <3>3, <3>4
  <2>3. CASE FileResetDevices
    BY <2>3, Sizes DEF FileResetDevices, ResetDevices, Empty
  <2> QED
    BY <2>1, <2>2, <2>3
<1> QED
  BY <1>1, <1>3, SameSecret

(* The calls that replace a key of the secret.                             *)
LEMMA KeyCallsSound ==
    ASSUME SoundInv, SyncInv',
           \/ \E k \in SecKeys : FileSetIdSecKey(k)
           \/ \E k \in C2Keys : FileSetC2PubKey(k)
    PROVE  SoundUnlessMisloaded'
<1>1. topics'.count \in 0 .. E4_TOPICS_MAX
  BY Sizes, TableParts DEF SyncInv, StoreType
<1>2. UNCHANGED <<devices, misloaded>>
  BY DEF FileSetIdSecKey, FileSetC2PubKey, SetIdSecKey, SetC2PubKey, StartSync, tables
<1>3. ~misloaded => SecretMatchesKeys /\ devices.count \in 0 .. E4_DEVICES_MAX
  BY DEF SoundInv, SoundUnlessMisloaded
<1>4. SecretMatchesKeys => SecretMatchesKeys'
  BY KeySecret DEF FileSetIdSecKey, FileSetC2PubKey
<1> QED
  BY <1>1, <1>2, <1>3, <1>4 DEF SoundUnlessMisloaded

(* Every step keeps secret and counts right.                               *)
LEMMA SoundNext ==
    ASSUME SoundInv, SyncInv', [FileNext]_fvars
    PROVE  SoundUnlessMisloaded'
<1>1. CASE \/ \E k \in SecKeys : FileSetIdSecKey(k)
           \/ \E k \in C2Keys : FileSetC2PubKey(k)
  BY <1>1, KeyCallsSound
<1>2. CASE \/ \E d \in Ids, k \in PubKeys : FileSetDeviceKey(d, k)
           \/ \E d \in Ids : FileRemoveDevice(d)
           \/ FileResetDevices
  BY <1>2, DeviceCallsSound
<1>3. CASE \E g \in Guesses : Load(g)
  BY <1>3, LoadSound
<1>4. CASE Restart
  <2>1. topics'.count \in 0 .. E4_TOPICS_MAX
    BY Sizes, TableParts DEF SyncInv, StoreType
  <2>2. devices'.count \in 0 .. E4_DEVICES_MAX
    BY <1>4, Sizes DEF Restart, ZeroStore, Empty
  <2>3. SecretMatchesKeys'
    BY <1>4 DEF Restart, ZeroStore, SecretMatchesKeys, Expected
  <2> QED
    BY <2>1, <2>2, <2>3 DEF SoundUnlessMisloaded
<1>5. CASE \E k \in TopicKeys : FileSetC2SharedSecret(k)
  <2>1. topics'.count \in 0 .. E4_TOPICS_MAX
    BY Sizes, TableParts DEF SyncInv, StoreType
  <2>2. foreign' = TRUE /\ UNCHANGED <<devices, misloaded>>
    BY <1>5 DEF FileSetC2SharedSecret, SetC2SharedSecret, tables
  <2> QED
    BY <2>1, <2>2 DEF SoundInv, SoundUnlessMisloaded, SecretMatchesKeys
<1>6. CASE UNCHANGED <<secrets, misloaded, devices>>
  BY <1>6, SameSecret
<1>7. CASE ConfigureStorage \/ Sync \/ WriteField \/ WriteFail \/ SyncReturn \/ UNCHANGED fvars
  BY <1>6, <1>7 DEF ConfigureStorage, Sync, StartSync, WriteField, WriteFail, SyncReturn,
                    fvars, vars, tables
<1>8. CASE \/ \E i \in SelfIds : FileSetId(i)
           \/ \E k \in SelfKeys : FileSetIdPubKey(k)
           \/ FileResetTopics
  BY <1>6, <1>8 DEF FileSetId, SetId, FileSetIdPubKey, SetIdPubKey, FileResetTopics, ResetTopics,
                    StartSync, tables
<1>9. CASE \/ \E t \in Topics, k \in TopicKeys : FileSetTopicKey(TopicHash(t), k)
           \/ \E t \in Topics : FileRemoveTopic(TopicHash(t))
  BY <1>6, <1>9 DEF FileSetTopicKey, SetTopicKey, FileRemoveTopic, RemoveTopic, SaveUnless,
                    StartSync
<1> QED
  BY <1>1, <1>2, <1>3, <1>4, <1>5, <1>7, <1>8, <1>9 DEF FileNext, Change

(* The cached secret is the one of the current keys and both counts lie    *)
(* within their arrays, unless a load has stopped part way; the count of   *)
(* the topics even then.                                                   *)
THEOREM PkFileStoreSoundUnlessMisloaded == FileSpec => []SoundUnlessMisloaded
<1>1. FileInit => SoundInv
  <2> SUFFICES ASSUME FileInit PROVE SoundUnlessMisloaded
    BY StoreInit DEF SoundInv
  <2>1. SecretMatchesKeys
    BY InitSecret DEF FileInit
  <2>2. topics.count = 0 /\ devices.count = 0
    BY DEF FileInit, Init, Empty
  <2> QED
    BY <2>1, <2>2, Sizes DEF SoundUnlessMisloaded
<1>2. SoundInv /\ [FileNext]_fvars => SoundInv'
  BY StoreNext, SoundNext DEF SoundInv
<1>3. SoundInv => SoundUnlessMisloaded
  BY DEF SoundInv
<1> QED
  BY <1>1, <1>2, <1>3, PTL DEF FileSpec

-----------------------------------------------------------------------------
(* What a program that stops during a sync leaves in the file.             *)

(* The units of the file as it was, when it held the store: each is old or *)
(* new, and the writes have come up to the first old one.                  *)
HalfWritten(s) ==
    /\ file[1] = <<"head", Magic>>
    /\ \A u \in 1 .. OldEnd : file[u] # Absent
    /\ \A u \in HeadUnits .. OldEnd :
          \/ u < s /\ file[u] = Picture(topics, devices, u)
          \/ u >= s /\ file[u] = Picture(before.topics, before.devices, u)

(* The numbers in it.                                                      *)
LEMMA CrashNumbers ==
    ASSUME SyncInv, before.clean
    PROVE  /\ ~Idle /\ StoreType
           /\ topics \in Tables(E4_TOPICS_MAX, FileRow)
           /\ devices \in Tables(E4_DEVICES_MAX, FileRow)
           /\ before.topics \in Tables(E4_TOPICS_MAX, FileRow)
           /\ before.devices \in Tables(E4_DEVICES_MAX, FileRow)
           /\ topics.count \in 0 .. E4_TOPICS_MAX /\ topics.count \in Nat
           /\ devices.count \in 0 .. E4_DEVICES_MAX /\ devices.count \in Nat
           /\ before.topics.count \in 0 .. E4_TOPICS_MAX /\ before.topics.count \in Nat
           /\ before.devices.count \in 0 .. E4_DEVICES_MAX /\ before.devices.count \in Nat
           /\ wpos \in 1 .. HeadUnits + 2 * topics.count + 2 + 2 * devices.count
           /\ OldEnd \in Nat /\ OldEnd >= 7 /\ 1 .. OldEnd \subseteq Units
<1>1. ~Idle /\ StoreType
  BY DEF SyncInv, Unwritten
<1>2. /\ topics \in Tables(E4_TOPICS_MAX, FileRow)
      /\ before.topics \in Tables(E4_TOPICS_MAX, FileRow)
      /\ before.devices \in Tables(E4_DEVICES_MAX, FileRow)
  BY <1>1 DEF StoreType
<1>3. /\ before.topics.count \in 0 .. E4_TOPICS_MAX /\ before.topics.count \in Nat
      /\ before.devices.count \in 0 .. E4_DEVICES_MAX /\ before.devices.count \in Nat
  BY <1>2, TableParts, Sizes
<1>4. OldEnd \in Nat /\ OldEnd >= 7 /\ 1 .. OldEnd \subseteq Units
  BY <1>3, Sizes DEF OldEnd, DeviceUnit, Units
<1> QED
  BY <1>1, <1>2, <1>3, <1>4, Running

(* The file is half written.                                               *)
LEMMA CrashFile ==
    ASSUME SyncInv, before.clean
    PROVE  HalfWritten(Start(topics.count, wpos))
<1> DEFINE n == topics.count
           m == devices.count
           s == Start(n, wpos)
<1>1. /\ ~Idle /\ StoreType /\ n \in Nat /\ m \in Nat
      /\ before.topics \in Tables(E4_TOPICS_MAX, FileRow)
      /\ before.devices \in Tables(E4_DEVICES_MAX, FileRow)
      /\ wpos \in 1 .. HeadUnits + 2 * n + 2 + 2 * m
      /\ OldEnd \in Nat /\ OldEnd >= 7
      /\ devices.count <= E4_DEVICES_MAX
  BY CrashNumbers, Sizes
<1>2. s \in Nat /\ s <= DeviceUnit(n, m) /\ DeviceUnit(n, m) \in Nat
  <2>1. DeviceUnit(n, m) \in Nat
    BY <1>1 DEF DeviceUnit
  <2> QED
    BY <1>1, <2>1, Starts
<1>3. /\ file[1] = <<"head", Magic>>
      /\ \A u \in 2 .. 5 : file[u] # Absent
      /\ \A u \in HeadUnits .. OldEnd : u >= s =>
            file[u] = Picture(before.topics, before.devices, u)
  BY DEF SyncInv, Unwritten
<1>4. \A u \in 1 .. s - 1 : file[u] = Image(u)
  BY DEF SyncInv, Written
<1> HIDE DEF s
<1>5. ASSUME NEW u \in HeadUnits .. OldEnd
      PROVE  /\ file[u] # Absent
             /\ \/ u < s /\ file[u] = Picture(topics, devices, u)
                \/ u >= s /\ file[u] = Picture(before.topics, before.devices, u)
  <2>1. u \in Nat /\ u >= HeadUnits /\ u <= OldEnd
    BY <1>1 DEF HeadUnits
  <2>2. CASE u < s
    <3>1. u \in 1 .. s - 1 /\ u \in 1 .. DeviceUnit(n, m) - 1
      BY <1>2, <2>1, <2>2 DEF HeadUnits
    <3>2. file[u] = Image(u) /\ Image(u) \in Cells
      BY <1>1, <1>4, <3>1, ImageTyped
    <3>3. Image(u) = Picture(topics, devices, u)
      BY <2>1, ImagePicture
    <3> QED
      BY <2>2, <3>2, <3>3, AbsentAssumption
  <2>3. CASE u >= s
    <3>1. file[u] = Picture(before.topics, before.devices, u)
      BY <1>3, <2>3
    <3>2. Picture(before.topics, before.devices, u) \in Cells
      BY <1>1, PictureTyped DEF OldEnd
    <3> QED
      BY <2>3, <3>1, <3>2, AbsentAssumption
  <2> QED
    BY <1>2, <2>1, <2>2, <2>3
<1>6. \A u \in 1 .. OldEnd : file[u] # Absent
  <2>1. <<"head", Magic>> # Absent
    BY AbsentAssumption DEF Cells
  <2>2. \A u \in 1 .. OldEnd : u = 1 \/ u \in 2 .. 5 \/ u \in HeadUnits .. OldEnd
    BY <1>1 DEF HeadUnits
  <2> QED
    BY <1>3, <1>5, <2>1, <2>2
<1> QED
  BY <1>3, <1>5, <1>6 DEF HalfWritten, s

(* The writes never stop inside of a field.                                *)
LEMMA WholeTopicField ==
    ASSUME NEW n \in Nat, NEW w \in Nat, NEW i \in 0 .. n - 1, NEW q \in {0, 2}
    PROVE  \/ TopicUnit(i) + q + 1 < Start(n, w)
           \/ TopicUnit(i) + q >= Start(n, w)
<1>1. CASE w <= HeadUnits + 1
  BY <1>1 DEF Start, HeadUnits, TopicUnit
<1>2. CASE w > HeadUnits + 1 /\ w <= HeadUnits + 1 + 2 * n
  BY <1>2 DEF Start, HeadUnits, TopicUnit
<1>3. CASE w > HeadUnits + 1 + 2 * n
  BY <1>3 DEF Start, HeadUnits, TopicUnit, DeviceUnit
<1> QED
  BY <1>1, <1>2, <1>3 DEF HeadUnits

(* Neither inside of one of a device.                                      *)
LEMMA WholeDeviceField ==
    ASSUME NEW n \in Nat, NEW w \in Nat, NEW j \in Nat, NEW q \in {0, 2}
    PROVE  \/ DeviceUnit(n, j) + q + 1 < Start(n, w)
           \/ DeviceUnit(n, j) + q >= Start(n, w)
<1>1. CASE w <= HeadUnits + 1
  BY <1>1 DEF Start, HeadUnits, TopicUnit, DeviceUnit
<1>2. CASE w > HeadUnits + 1 /\ w <= HeadUnits + 1 + 2 * n
  BY <1>2 DEF Start, HeadUnits, TopicUnit, DeviceUnit
<1>3. CASE w > HeadUnits + 1 + 2 * n
  BY <1>3 DEF Start, HeadUnits, TopicUnit, DeviceUnit
<1> QED
  BY <1>1, <1>2, <1>3 DEF HeadUnits

(* The units of the fields of a row in the file.                           *)
FieldsAt(t, d, u, e) ==
    /\ Picture(t, d, u) = <<"first", e.name>> /\ Picture(t, d, u + 1) = <<"second", e.name>>
    /\ Picture(t, d, u + 2) = <<"first", e.key>> /\ Picture(t, d, u + 3) = <<"second", e.key>>

(* Where the fields of a topic and of a device are.                        *)
LEMMA PictureRows ==
    ASSUME NEW t \in Tables(E4_TOPICS_MAX, FileRow), NEW d \in Tables(E4_DEVICES_MAX, FileRow),
           NEW n, n = t.count
    PROVE  /\ \A i \in LiveSlots(t) : FieldsAt(t, d, TopicUnit(i), t.slot[i])
           /\ \A j \in LiveSlots(d) : FieldsAt(t, d, DeviceUnit(n, j), d.slot[j])
           /\ Picture(t, d, DeviceCountUnit(n)) = <<"count", d.count>>
<1>1. /\ n \in Nat /\ LiveSlots(t) \subseteq Nat /\ LiveSlots(d) \subseteq Nat
      /\ \A i \in LiveSlots(t) : t.slot[i].name \in Values /\ t.slot[i].key \in Values
      /\ \A j \in LiveSlots(d) : d.slot[j].name \in Values /\ d.slot[j].key \in Values
  BY Sizes, TableParts
<1>2. 0 \in 0 .. 3 /\ 1 \in 0 .. 3 /\ 2 \in 0 .. 3 /\ 3 \in 0 .. 3
  OBVIOUS
<1>0. TopicCells(t, d) /\ DeviceCells(t, d)
  BY <1>1, PictureCells
<1>3. ASSUME NEW i \in LiveSlots(t) PROVE FieldsAt(t, d, TopicUnit(i), t.slot[i])
  <2>1. \A q \in 0 .. 3 : Picture(t, d, TopicUnit(i) + q) = RowUnit(t.slot[i], q)
    BY <1>0 DEF TopicCells
  <2>2. TopicUnit(i) + 0 = TopicUnit(i)
    BY <1>1 DEF TopicUnit
  <2>3. /\ Picture(t, d, TopicUnit(i)) = RowUnit(t.slot[i], 0)
        /\ Picture(t, d, TopicUnit(i) + 1) = RowUnit(t.slot[i], 1)
        /\ Picture(t, d, TopicUnit(i) + 2) = RowUnit(t.slot[i], 2)
        /\ Picture(t, d, TopicUnit(i) + 3) = RowUnit(t.slot[i], 3)
    BY <1>2, <2>1, <2>2
  <2> QED
    BY <1>1, <2>3, RowUnits DEF FieldsAt
<1>4. ASSUME NEW j \in LiveSlots(d) PROVE FieldsAt(t, d, DeviceUnit(n, j), d.slot[j])
  <2>1. \A q \in 0 .. 3 : Picture(t, d, DeviceUnit(n, j) + q) = RowUnit(d.slot[j], q)
    BY <1>0, <1>1 DEF DeviceCells
  <2>2. DeviceUnit(n, j) + 0 = DeviceUnit(n, j)
    BY <1>1 DEF DeviceUnit
  <2>3. /\ Picture(t, d, DeviceUnit(n, j)) = RowUnit(d.slot[j], 0)
        /\ Picture(t, d, DeviceUnit(n, j) + 1) = RowUnit(d.slot[j], 1)
        /\ Picture(t, d, DeviceUnit(n, j) + 2) = RowUnit(d.slot[j], 2)
        /\ Picture(t, d, DeviceUnit(n, j) + 3) = RowUnit(d.slot[j], 3)
    BY <1>2, <2>1, <2>2
  <2> QED
    BY <1>1, <2>3, RowUnits DEF FieldsAt
<1>5. Picture(t, d, DeviceCountUnit(n)) = <<"count", d.count>>
  BY <1>1, PictureCells
<1> QED
  BY <1>3, <1>4, <1>5

(* A field that both pictures have in the same place is read old or new.   *)
LEMMA FieldEither ==
    ASSUME NEW s \in Nat, HalfWritten(s), OldEnd \in Nat,
           NEW u \in Nat, u >= HeadUnits, u + 1 <= OldEnd, u + 1 < s \/ u >= s,
           NEW new \in Values, NEW old \in Values, NEW x,
           Picture(topics, devices, u) = <<"first", new>>,
           Picture(topics, devices, u + 1) = <<"second", new>>,
           Picture(before.topics, before.devices, u) = <<"first", old>>,
           Picture(before.topics, before.devices, u + 1) = <<"second", old>>
    PROVE  ReadField(file, u, x) \in {old, new}
<1>1. u \in HeadUnits .. OldEnd /\ u + 1 \in HeadUnits .. OldEnd
  BY DEF HeadUnits
<1>2. CASE u + 1 < s
  <2>1. u < s /\ ~(u >= s) /\ ~(u + 1 >= s)
    BY <1>2
  <2>2. file[u] = <<"first", new>> /\ file[u + 1] = <<"second", new>>
    BY <1>1, <2>1 DEF HalfWritten
  <2> QED
    BY <2>2, FieldRead
<1>3. CASE u >= s
  <2>1. ~(u < s) /\ ~(u + 1 < s)
    BY <1>3
  <2>2. file[u] = <<"first", old>> /\ file[u + 1] = <<"second", old>>
    BY <1>1, <2>1 DEF HalfWritten
  <2> QED
    BY <2>2, FieldRead
<1> QED
  BY <1>2, <1>3

(* A row of r is made of the fields of the rows of two other tables.       *)
RowEither(r, old, new, i) ==
    /\ r.slot[i].name \in {old.slot[i].name, new.slot[i].name}
    /\ r.slot[i].key \in {old.slot[i].key, new.slot[i].key}

(* A row that both pictures have in the same place.                        *)
LEMMA RowRead ==
    ASSUME NEW s \in Nat, HalfWritten(s), OldEnd \in Nat,
           NEW u \in Nat, u >= HeadUnits, u + 3 <= OldEnd,
           u + 1 < s \/ u >= s, u + 3 < s \/ u + 2 >= s,
           NEW old \in FileRow, NEW new \in FileRow, NEW x, NEW y,
           FieldsAt(topics, devices, u, new), FieldsAt(before.topics, before.devices, u, old)
    PROVE  /\ ReadField(file, u, x) \in {old.name, new.name}
           /\ ReadField(file, u + 2, y) \in {old.key, new.key}
<1>1. old.name \in Values /\ old.key \in Values /\ new.name \in Values /\ new.key \in Values
  BY DEF FileRow
<1>2. ReadField(file, u, x) \in {old.name, new.name}
  <2>1. u + 1 <= OldEnd
    OBVIOUS
  <2> QED
    BY <1>1, <2>1, FieldEither DEF FieldsAt
<1> DEFINE v == u + 2
<1>3. v \in Nat /\ v >= HeadUnits /\ v + 1 = u + 3
  BY DEF HeadUnits
<1> HIDE DEF v
<1>4. /\ Picture(topics, devices, v) = <<"first", new.key>>
      /\ Picture(topics, devices, v + 1) = <<"second", new.key>>
      /\ Picture(before.topics, before.devices, v) = <<"first", old.key>>
      /\ Picture(before.topics, before.devices, v + 1) = <<"second", old.key>>
  BY <1>3 DEF FieldsAt, v
<1>5. v + 1 <= OldEnd /\ (v + 1 < s \/ v >= s)
  BY <1>3 DEF v
<1>6. ReadField(file, v, y) \in {old.key, new.key}
  BY <1>1, <1>3, <1>4, <1>5, FieldEither
<1> QED
  BY <1>2, <1>6 DEF v

(* The topics a new process loads.                                         *)
LEMMA TopicsReload ==
    ASSUME SyncInv, before.clean
    PROVE  /\ file[HeadUnits] # Absent
           /\ TopicCount(file) \in {before.topics.count, topics.count}
           /\ ReloadTopics.count = TopicCount(file)
           /\ \A i \in LiveSlots(topics) \cap LiveSlots(before.topics) :
                 RowEither(ReloadTopics, before.topics, topics, i)
<1> DEFINE n == topics.count
           b == before.topics.count
           s == Start(n, wpos)
           e == Empty(E4_TOPICS_MAX)
<1>1. /\ StoreType /\ n \in Nat /\ b \in Nat /\ devices.count \in Nat
      /\ before.devices.count \in Nat
      /\ topics \in Tables(E4_TOPICS_MAX, FileRow)
      /\ before.topics \in Tables(E4_TOPICS_MAX, FileRow)
      /\ devices \in Tables(E4_DEVICES_MAX, FileRow)
      /\ before.devices \in Tables(E4_DEVICES_MAX, FileRow)
      /\ wpos \in 1 .. HeadUnits + 2 * n + 2 + 2 * devices.count
      /\ OldEnd \in Nat /\ OldEnd >= 7
  BY CrashNumbers
<1>2. HalfWritten(s) /\ s \in Nat /\ wpos \in Nat
  <2>1. wpos \in Nat
    BY <1>1 DEF HeadUnits
  <2> QED
    BY <1>1, <2>1, CrashFile, Starts
<1>3. file[HeadUnits] # Absent
  BY <1>1, <1>2 DEF HalfWritten, HeadUnits
<1>4. TopicCount(file) \in {b, n}
  <2>1. HeadUnits \in HeadUnits .. OldEnd
    BY <1>1 DEF HeadUnits
  <2>2. \/ file[HeadUnits] = Picture(topics, devices, HeadUnits)
        \/ file[HeadUnits] = Picture(before.topics, before.devices, HeadUnits)
    BY <1>2, <2>1 DEF HalfWritten
  <2>3. file[HeadUnits] = <<"count", n>> \/ file[HeadUnits] = <<"count", b>>
    BY <1>1, <2>2, PictureCells
  <2> QED
    BY <2>3 DEF TopicCount
<1>5. /\ ReloadTopics.count = TopicCount(file)
      /\ \A i \in 0 .. TopicCount(file) - 1 :
            ReloadTopics.slot[i] = [name |-> ReadField(file, TopicUnit(i), e.slot[i].name),
                                    key  |-> ReadField(file, TopicUnit(i) + 2, e.slot[i].key)]
  <2>1. e \in Tables(E4_TOPICS_MAX, FileRow) /\ FileOk(file)
    BY <1>1, Sizes, EmptyRows DEF StoreType
  <2> HIDE DEF e
  <2> QED
    BY <1>3, <2>1, TopicsLoaded DEF ReloadTopics, e
<1> HIDE DEF e
<1>6. ASSUME NEW i \in LiveSlots(topics) \cap LiveSlots(before.topics)
      PROVE  RowEither(ReloadTopics, before.topics, topics, i)
  <2>1. i \in Nat /\ i \in 0 .. n - 1 /\ i < n /\ i < b /\ i \in 0 .. TopicCount(file) - 1
    BY <1>1, <1>4 DEF LiveSlots
  <2>2. topics.slot[i] \in FileRow /\ before.topics.slot[i] \in FileRow
    BY <1>1, Sizes, TableParts
  <2> DEFINE u == TopicUnit(i)
  <2>3. u \in Nat /\ u >= HeadUnits /\ u + 3 <= OldEnd
    BY <1>1, <2>1 DEF TopicUnit, HeadUnits, OldEnd, DeviceUnit
  <2>4. /\ u + 0 + 1 < s \/ u + 0 >= s
        /\ u + 2 + 1 < s \/ u + 2 >= s
    BY <1>1, <1>2, <2>1, WholeTopicField
  <2>5. /\ FieldsAt(topics, devices, u, topics.slot[i])
        /\ FieldsAt(before.topics, before.devices, u, before.topics.slot[i])
    BY <1>1, PictureRows
  <2> HIDE DEF u, s
  <2>6. (u + 1 < s \/ u >= s) /\ (u + 3 < s \/ u + 2 >= s)
    BY <1>2, <2>3, <2>4
  <2>7. /\ ReadField(file, u, e.slot[i].name)
             \in {before.topics.slot[i].name, topics.slot[i].name}
        /\ ReadField(file, u + 2, e.slot[i].key)
             \in {before.topics.slot[i].key, topics.slot[i].key}
    BY <1>1, <1>2, <2>2, <2>3, <2>5, <2>6, RowRead
  <2>8. ReloadTopics.slot[i] = [name |-> ReadField(file, u, e.slot[i].name),
                             key  |-> ReadField(file, u + 2, e.slot[i].key)]
    BY <1>5, <2>1 DEF u
  <2> QED
    BY <2>7, <2>8 DEF RowEither
<1> QED
  BY <1>3, <1>4, <1>5, <1>6

(* The devices a new process loads, when the number of topics has not      *)
(* changed: they are where they were.                                      *)
LEMMA DevicesReload ==
    ASSUME SyncInv, before.clean, topics.count = before.topics.count, NEW g \in Guesses
    PROVE  /\ TopicCount(file) = topics.count
           /\ HasDeviceCount(file)
           /\ DeviceCount(file, g) \in {before.devices.count, devices.count}
           /\ ReloadDevices(g).count = DeviceCount(file, g)
           /\ devices.count <= before.devices.count => Loads(file, g)
           /\ \A j \in LiveSlots(devices) \cap LiveSlots(before.devices) :
                 RowEither(ReloadDevices(g), before.devices, devices, j)
<1> DEFINE n == topics.count
           m == devices.count
           b == before.devices.count
           s == Start(n, wpos)
           e == Empty(E4_DEVICES_MAX)
<1>1. /\ StoreType /\ n \in Nat /\ m \in Nat /\ b \in Nat
      /\ m \in 0 .. E4_DEVICES_MAX /\ b \in 0 .. E4_DEVICES_MAX
      /\ topics \in Tables(E4_TOPICS_MAX, FileRow)
      /\ before.topics \in Tables(E4_TOPICS_MAX, FileRow) /\ before.topics.count = n
      /\ devices \in Tables(E4_DEVICES_MAX, FileRow)
      /\ before.devices \in Tables(E4_DEVICES_MAX, FileRow)
      /\ wpos \in 1 .. HeadUnits + 2 * n + 2 + 2 * m
      /\ OldEnd \in Nat /\ OldEnd >= 7
      /\ OldEnd = DeviceUnit(n, b) - 1
  BY CrashNumbers DEF OldEnd
<1>2. HalfWritten(s) /\ s \in Nat /\ wpos \in Nat
  <2>1. wpos \in Nat
    BY <1>1 DEF HeadUnits
  <2> QED
    BY <1>1, <2>1, CrashFile, Starts
<1>3. TopicCount(file) = n
  BY TopicsReload
<1>4. TopicsRead(file)
  <2>1. \A u \in 2 .. HeadUnits : u \in 1 .. OldEnd
    BY <1>1 DEF HeadUnits
  <2>2. TopicUnit(n) - 1 \in 1 .. OldEnd
    BY <1>1 DEF TopicUnit, DeviceUnit
  <2> QED
    BY <1>2, <1>3, <2>1, <2>2 DEF TopicsRead, HalfWritten
<1>5. DeviceCountUnit(n) \in HeadUnits .. OldEnd /\ DeviceCountUnit(n) \in 1 .. OldEnd
  BY <1>1 DEF DeviceCountUnit, HeadUnits, DeviceUnit
<1>6. HasDeviceCount(file)
  BY <1>2, <1>3, <1>4, <1>5 DEF HasDeviceCount, HalfWritten
<1>7. DeviceCount(file, g) \in {b, m}
  <2>1. \/ file[DeviceCountUnit(n)] = Picture(topics, devices, DeviceCountUnit(n))
        \/ file[DeviceCountUnit(n)] = Picture(before.topics, before.devices, DeviceCountUnit(n))
    BY <1>2, <1>5 DEF HalfWritten
  <2>2. file[DeviceCountUnit(n)] = <<"count", m>> \/ file[DeviceCountUnit(n)] = <<"count", b>>
    BY <1>1, <2>1, PictureRows
  <2> QED
    BY <1>3, <2>2 DEF DeviceCount
<1>8. DeviceCount(file, g) <= E4_DEVICES_MAX
  BY <1>1, <1>7
<1>9. /\ ReloadDevices(g).count = DeviceCount(file, g)
      /\ \A j \in 0 .. DeviceCount(file, g) - 1 :
            ReloadDevices(g).slot[j] =
               [name |-> ReadField(file, DeviceUnit(n, j), e.slot[j].name),
                key  |-> ReadField(file, DeviceUnit(n, j) + 2, e.slot[j].key)]
  <2>1. FileOk(file) /\ e \in [count : Nat, slot : [0 .. E4_DEVICES_MAX - 1 -> FileRow]]
    BY <1>1, Sizes, EmptyRows, WideTable DEF StoreType
  <2> HIDE DEF e
  <2>2. ReloadDevices(g) = LoadDevices(file, g, e)
    BY DEF ReloadDevices, e
  <2> QED
    BY <1>3, <1>6, <1>8, <2>1, <2>2, DevicesLoaded
<1>10. ASSUME m <= b PROVE Loads(file, g)
  <2>1. DeviceUnit(n, DeviceCount(file, g)) - 1 \in 1 .. OldEnd
    BY <1>1, <1>7, <1>10 DEF DeviceUnit
  <2> QED
    BY <1>2, <1>3, <1>6, <1>8, <2>1 DEF Loads, HalfWritten
<1> HIDE DEF e
<1>11. ASSUME NEW j \in LiveSlots(devices) \cap LiveSlots(before.devices)
       PROVE  RowEither(ReloadDevices(g), before.devices, devices, j)
  <2>1. j \in Nat /\ j < m /\ j < b /\ j \in 0 .. DeviceCount(file, g) - 1
    BY <1>1, <1>7 DEF LiveSlots
  <2>2. devices.slot[j] \in FileRow /\ before.devices.slot[j] \in FileRow
    BY <1>1, Sizes, TableParts
  <2> DEFINE u == DeviceUnit(n, j)
  <2>3. u \in Nat /\ u >= HeadUnits /\ u + 3 <= OldEnd
    BY <1>1, <2>1 DEF TopicUnit, HeadUnits, OldEnd, DeviceUnit
  <2>4. /\ u + 0 + 1 < s \/ u + 0 >= s
        /\ u + 2 + 1 < s \/ u + 2 >= s
    BY <1>1, <1>2, <2>1, WholeDeviceField
  <2>5. /\ FieldsAt(topics, devices, u, devices.slot[j])
        /\ FieldsAt(before.topics, before.devices, u, before.devices.slot[j])
    BY <1>1, PictureRows
  <2> HIDE DEF u, s
  <2>6. (u + 1 < s \/ u >= s) /\ (u + 3 < s \/ u + 2 >= s)
    BY <1>2, <2>3, <2>4
  <2>7. /\ ReadField(file, u, e.slot[j].name)
             \in {before.devices.slot[j].name, devices.slot[j].name}
        /\ ReadField(file, u + 2, e.slot[j].key)
             \in {before.devices.slot[j].key, devices.slot[j].key}
    BY <1>1, <1>2, <2>2, <2>3, <2>5, <2>6, RowRead
  <2>8. ReloadDevices(g).slot[j] = [name |-> ReadField(file, u, e.slot[j].name),
                             key  |-> ReadField(file, u + 2, e.slot[j].key)]
    BY <1>9, <2>1 DEF u
  <2> QED
    BY <2>7, <2>8 DEF RowEither
<1> QED
  BY <1>3, <1>6, <1>7, <1>9, <1>10, <1>11

(* The two tables have the same names in the same slots.                   *)
NamesAgree(t, u) ==
    u.count = t.count /\ \A i \in LiveSlots(t) : u.slot[i].name = t.slot[i].name

(* Then a name is found in the same slot of both, or of neither.           *)
LEMMA ScanAgrees ==
    ASSUME NEW t, NEW u, t.count \in Nat, NamesAgree(t, u), NEW n
    PROVE  /\ n \in Names(u) <=> n \in Names(t)
           /\ n \in Names(t) => FirstSlot(u, n) = FirstSlot(t, n)
           /\ n \in Names(t) => FirstSlot(t, n) \in LiveSlots(t)
<1>1. LiveSlots(u) = LiveSlots(t) /\ \A i \in LiveSlots(t) : u.slot[i].name = t.slot[i].name
  BY DEF NamesAgree, LiveSlots
<1>2. Names(u) = Names(t)
  BY <1>1 DEF Names
<1>3. ASSUME n \in Names(t)
      PROVE  FirstSlot(u, n) = FirstSlot(t, n) /\ FirstSlot(t, n) \in LiveSlots(t)
  <2>1. FirstSlot(t, n) \in LiveSlots(t)
    BY <1>3, ScanFirst
  <2>2. u.count \in Nat /\ FirstSlot(t, n) < u.count
    BY <2>1 DEF NamesAgree, LiveSlots
  <2>3. 0 .. FirstSlot(t, n) \subseteq LiveSlots(t)
    BY <2>1 DEF LiveSlots
  <2>4. \A j \in 0 .. FirstSlot(t, n) : u.slot[j].name = t.slot[j].name
    BY <1>1, <2>3
  <2> QED
    BY <1>3, <2>1, <2>2, <2>4, ScanSame
<1> QED
  BY <1>2, <1>3

(* A table made of the rows of two others that have the same names.        *)
LEMMA LookupEither ==
    ASSUME NEW r, NEW old, NEW new, old.count \in Nat, r.count = old.count,
           NamesAgree(old, new),
           \A i \in LiveSlots(old) : RowEither(r, old, new, i), NEW names
    PROVE  OldOrNew(r, old, new, names)
<1>1. NamesAgree(old, r)
  BY DEF NamesAgree, RowEither
<1> SUFFICES ASSUME NEW n \in names
             PROVE  Lookup(r, n, Zero) \in {Lookup(old, n, Zero), Lookup(new, n, Zero)}
  BY DEF OldOrNew
<1>2. CASE n \in Names(old)
  <2> DEFINE i == FirstSlot(old, n)
  <2>1. /\ i \in LiveSlots(old) /\ n \in Names(r) /\ FirstSlot(r, n) = i
        /\ n \in Names(new) /\ FirstSlot(new, n) = i
    BY <1>1, <1>2, ScanAgrees
  <2>2. r.slot[i].key \in {old.slot[i].key, new.slot[i].key}
    BY <2>1 DEF RowEither
  <2> QED
    BY <1>2, <2>1, <2>2 DEF Lookup
<1>3. CASE n \notin Names(old)
  <2>1. n \notin Names(r)
    BY <1>1, <1>3, ScanAgrees
  <2> QED
    BY <1>3, <2>1 DEF Lookup
<1> QED
  BY <1>2, <1>3

(* Replacing a key.                                                        *)
LEMMA RekeySafe == SyncInv => RekeyCrashSafe
<1> SUFFICES ASSUME SyncInv, ~Idle, before.clean, topics.count = before.topics.count,
                    devices.count = before.devices.count, NEW g \in Guesses
             PROVE  /\ Loads(file, g)
                    /\ OldOrNew(ReloadTopics, before.topics, topics, Hashes)
                    /\ OldOrNew(ReloadDevices(g), before.devices, devices, Ids)
  BY DEF RekeyCrashSafe
<1>1. /\ before.topics.count \in Nat /\ before.devices.count \in Nat
      /\ LiveSlots(topics) = LiveSlots(before.topics)
      /\ LiveSlots(devices) = LiveSlots(before.devices)
      /\ devices.count <= before.devices.count
  BY CrashNumbers DEF LiveSlots
<1>2. NamesAgree(before.topics, topics) /\ NamesAgree(before.devices, devices)
  BY <1>1 DEF SyncInv, SameNames, NamesAgree
<1>3. /\ ReloadTopics.count = before.topics.count
      /\ \A i \in LiveSlots(before.topics) : RowEither(ReloadTopics, before.topics, topics, i)
  BY <1>1, TopicsReload
<1>4. /\ Loads(file, g) /\ ReloadDevices(g).count = before.devices.count
      /\ \A j \in LiveSlots(before.devices) :
            RowEither(ReloadDevices(g), before.devices, devices, j)
  BY <1>1, DevicesReload
<1>5. OldOrNew(ReloadTopics, before.topics, topics, Hashes)
  BY <1>1, <1>2, <1>3, LookupEither
<1>6. OldOrNew(ReloadDevices(g), before.devices, devices, Ids)
  BY <1>1, <1>2, <1>4, LookupEither
<1> QED
  BY <1>4, <1>5, <1>6

(* The rows up to the one that holds a name decide what a lookup finds.    *)
LEMMA LookupKept ==
    ASSUME NEW t, t.count \in Nat, NEW u, u.count \in Nat, u.count >= t.count,
           NEW n, n \in Names(t),
           \A i \in LiveSlots(t) : u.slot[i].name = t.slot[i].name,
           \A i \in LiveSlots(t) : t.slot[i].name = n => u.slot[i].key = t.slot[i].key
    PROVE  Lookup(u, n, Zero) = Lookup(t, n, Zero)
<1> DEFINE i == FirstSlot(t, n)
<1>1. i \in LiveSlots(t) /\ t.slot[i].name = n
  BY ScanFirst
<1>2. i < u.count /\ 0 .. i \subseteq LiveSlots(t)
  BY <1>1 DEF LiveSlots
<1>3. n \in Names(u) /\ FirstSlot(u, n) = i
  BY <1>2, ScanSame
<1> QED
  BY <1>1, <1>3 DEF Lookup

(* Adding a topic.                                                         *)
LEMMA TopicAppendSafe == SyncInv => TopicAppendConfined
<1> SUFFICES ASSUME SyncInv, op = "set_topic_key", before.clean, arg \notin Names(before.topics),
                    NEW h \in Names(before.topics)
             PROVE  Lookup(ReloadTopics, h, Zero) = Lookup(before.topics, h, Zero)
  BY DEF TopicAppendConfined
<1> DEFINE b == before.topics
<1>1. /\ b \in Tables(E4_TOPICS_MAX, FileRow) /\ b.count \in Nat /\ E4_TOPICS_MAX \in Nat
      /\ LiveSlots(b) \subseteq Nat
  BY CrashNumbers, Sizes, TableParts
<1>2. PICK k \in Values : /\ arg \in Values /\ FirstSlot(b, arg) < E4_TOPICS_MAX
                          /\ topics = PutAt(b, FirstSlot(b, arg), arg, k)
  BY DEF SyncInv, TablesOfCall
<1>3. /\ topics.count = b.count + 1
      /\ \A i \in LiveSlots(b) : topics.slot[i].name = b.slot[i].name
      /\ \A i \in LiveSlots(b) : b.slot[i].name # arg => topics.slot[i] = b.slot[i]
  BY <1>1, <1>2, PutNames
<1>4. \A i \in LiveSlots(b) : i \in LiveSlots(topics) /\ topics.slot[i] = b.slot[i]
  <2>1. LiveSlots(b) \subseteq LiveSlots(topics)
    BY <1>1, <1>3 DEF LiveSlots
  <2>2. \A i \in LiveSlots(b) : b.slot[i].name # arg
    BY DEF Names
  <2> QED
    BY <1>3, <2>1, <2>2
<1>5. /\ ReloadTopics.count \in {b.count, topics.count}
      /\ \A i \in LiveSlots(topics) \cap LiveSlots(b) : RowEither(ReloadTopics, b, topics, i)
  BY TopicsReload
<1>6. ReloadTopics.count \in Nat /\ ReloadTopics.count >= b.count
  BY <1>1, <1>3, <1>5
<1>7. \A i \in LiveSlots(b) : /\ ReloadTopics.slot[i].name = b.slot[i].name
                              /\ ReloadTopics.slot[i].key = b.slot[i].key
  BY <1>4, <1>5 DEF RowEither
<1> QED
  BY <1>1, <1>6, <1>7, LookupKept

(* The calls on devices.                                                   *)
LEMMA DeviceCallsSafe == SyncInv => DeviceCallsConfined
<1> SUFFICES ASSUME SyncInv, op \in {"set_device_key", "remove_device", "reset_devices"},
                    before.clean, topics = before.topics
             PROVE  /\ TopicsRead(file)
                    /\ OldOrNew(ReloadTopics, topics, topics, Hashes)
                    /\ op = "set_device_key" =>
                          \A g \in Guesses, d \in Names(before.devices) \ {arg} :
                             Lookup(ReloadDevices(g), d, Zero) = Lookup(before.devices, d, Zero)
                    /\ op # "set_device_key" => \A g \in Guesses : Loads(file, g)
  BY DEF DeviceCallsConfined
<1> DEFINE b == before.devices
<1>1. /\ b \in Tables(E4_DEVICES_MAX, FileRow) /\ b.count \in Nat /\ E4_DEVICES_MAX \in Nat
      /\ topics.count \in Nat /\ topics.count = before.topics.count /\ 0 \in Guesses
  BY CrashNumbers, Sizes DEF Guesses
<1>2. TopicsRead(file)
  BY <1>1, DevicesReload DEF HasDeviceCount
<1>3. OldOrNew(ReloadTopics, topics, topics, Hashes)
  <2>1. /\ ReloadTopics.count = topics.count
        /\ \A i \in LiveSlots(topics) : RowEither(ReloadTopics, topics, topics, i)
    BY TopicsReload
  <2>2. NamesAgree(topics, topics)
    BY DEF NamesAgree
  <2> QED
    BY <1>1, <2>1, <2>2, LookupEither
<1>4. ASSUME op = "set_device_key", NEW g \in Guesses, NEW d \in Names(b) \ {arg}
      PROVE  Lookup(ReloadDevices(g), d, Zero) = Lookup(b, d, Zero)
  <2>1. PICK k \in Values : /\ arg \in Values /\ FirstSlot(b, arg) < E4_DEVICES_MAX
                            /\ devices = PutAt(b, FirstSlot(b, arg), arg, k)
    BY <1>4 DEF SyncInv, TablesOfCall
  <2>2. /\ devices.count \in {b.count, b.count + 1}
        /\ \A i \in LiveSlots(b) : devices.slot[i].name = b.slot[i].name
        /\ \A i \in LiveSlots(b) : b.slot[i].name # arg => devices.slot[i] = b.slot[i]
    BY <1>1, <2>1, PutNames
  <2>3. LiveSlots(b) \subseteq LiveSlots(devices)
    BY <1>1, <2>2 DEF LiveSlots
  <2>4. /\ ReloadDevices(g).count \in {b.count, devices.count}
        /\ \A i \in LiveSlots(devices) \cap LiveSlots(b) :
              RowEither(ReloadDevices(g), b, devices, i)
    BY <1>1, DevicesReload
  <2>5. ReloadDevices(g).count \in Nat /\ ReloadDevices(g).count >= b.count
    BY <1>1, <2>2, <2>4
  <2>6. \A i \in LiveSlots(b) : ReloadDevices(g).slot[i].name = b.slot[i].name
    BY <2>2, <2>3, <2>4 DEF RowEither
  <2>7. \A i \in LiveSlots(b) : b.slot[i].name = d => ReloadDevices(g).slot[i].key = b.slot[i].key
    BY <2>2, <2>3, <2>4 DEF RowEither
  <2> QED
    BY <1>1, <2>5, <2>6, <2>7, LookupKept
<1>5. ASSUME op # "set_device_key", NEW g \in Guesses PROVE Loads(file, g)
  <2>1. devices.count <= b.count
    BY <1>5 DEF SyncInv, TablesOfCall
  <2> QED
    BY <1>1, <2>1, DevicesReload
<1> QED
  BY <1>2, <1>3, <1>4, <1>5

(* A call that changes neither count survives the end of the program at    *)
(* any write: the file loads, every name with its old or its new key.      *)
THEOREM PkFileStoreRekeyCrashSafe == FileSpec => []RekeyCrashSafe
<1>1. SyncInv => RekeyCrashSafe
  BY RekeySafe
<1> QED
  BY <1>1, PkFileStoreInvariant, PTL

(* A program that stops during a call on devices leaves the topics and,    *)
(* while a device is added, the other devices; one that stops while a      *)
(* topic is added leaves the other topics.                                 *)
THEOREM PkFileStoreTableCrashConfined == FileSpec => []TableCrashConfined
<1>1. SyncInv => TableCrashConfined
  BY DeviceCallsSafe, TopicAppendSafe DEF TableCrashConfined
<1> QED
  BY <1>1, PkFileStoreInvariant, PTL

=============================================================================

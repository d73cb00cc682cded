------------------------------ MODULE KeyTable ------------------------------
(***************************************************************************)
(* The fixed-size array of (name, key) entries behind every libe4 store:   *)
(* topic_key topics[E4_TOPICS_MAX] with topiccount, and device_key         *)
(* devices[E4_DEVICES_MAX] with devicecount.  A table is a record          *)
(*                                                                         *)
(*    count : the number of live entries,                                  *)
(*    slot  : a function from 0 .. max-1 to entries [name, key].           *)
(*                                                                         *)
(* Slots at or above count keep whatever was last written there, as the    *)
(* array does: a failed load can bring them back to life.                  *)
(***************************************************************************)
EXTENDS Integers

LiveSlots(t) == 0 .. t.count - 1

Names(t) == {t.slot[i].name : i \in LiveSlots(t)}

(* No two live slots hold the same name.                                   *)
UniqueNames(t) ==
    \A i, j \in LiveSlots(t) : t.slot[i].name = t.slot[j].name => i = j

(* A scan that stops one entry early.                                      *)
FirstSlotShort(t, n) ==
    IF \E i \in 0 .. t.count - 2 : t.slot[i].name = n
    THEN CHOOSE i \in 0 .. t.count - 2 :
            t.slot[i].name = n /\ \A j \in 0 .. i - 1 : t.slot[j].name # n
    ELSE t.count

(* The scan of gettopicindex, set_topic_key and remove_topic: the first    *)
(* live slot that holds name n, or count when there is none.               *)
FirstSlot(t, n) ==
    IF \E i \in LiveSlots(t) : t.slot[i].name = n
    THEN CHOOSE i \in LiveSlots(t) :
            t.slot[i].name = n /\ \A j \in 0 .. i - 1 : t.slot[j].name # n
    ELSE t.count

(* A new entry goes first and pushes the others down.                      *)
PutAtFront(t, i, n, k) ==
    LET e == [name |-> n, key |-> k]
    IN  IF i = t.count
        THEN [count |-> t.count + 1,
              slot  |-> [j \in DOMAIN t.slot |-> IF j = 0 THEN e ELSE t.slot[j - 1]]]
        ELSE [t EXCEPT !.slot[i] = e]

(* Write the entry over slot i, which is either live or the first free     *)
(* one; the latter becomes live.                                           *)
PutAt(t, i, n, k) ==
    [count |-> IF i = t.count THEN t.count + 1 ELSE t.count,
     slot  |-> [t.slot EXCEPT ![i] = [name |-> n, key |-> k]]]

(* A removal that stops moving entries one slot early.                     *)
CloseGapShort(t, i, limit, zero) ==
    [count |-> t.count - 1,
     slot  |-> [j \in DOMAIN t.slot |->
                  IF j = t.count THEN zero
                  ELSE IF i <= j /\ j + 2 < limit THEN t.slot[j + 1]
                  ELSE t.slot[j]]]

(* Remove the entry of slot i: entries i+1 .. limit-1 move up by one, the  *)
(* slot numbered with the OLD count is zeroed (when the array has it), and *)
(* count goes down.                                                        *)
CloseGap(t, i, limit, zero) ==
    [count |-> t.count - 1,
     slot  |-> [j \in DOMAIN t.slot |->
                  IF j = t.count THEN zero
                  ELSE IF i <= j /\ j + 1 < limit THEN t.slot[j + 1]
                  ELSE t.slot[j]]]

(* What a lookup by name finds: the key of the first live slot with that   *)
(* name, or none.                                                          *)
Lookup(t, n, none) ==
    IF n \in Names(t) THEN t.slot[FirstSlot(t, n)].key ELSE none

=============================================================================

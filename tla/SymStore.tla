------------------------------ MODULE SymStore ------------------------------
(***************************************************************************)
(* What the two symmetric-key stores share: struct e4storage_symkey of     *)
(* e4c_sym_store_file.h, which both e4c_store_mem.c and e4c_store_file.c   *)
(* use, and its table of topic keys.                                       *)
(***************************************************************************)
EXTENDS E4Proto, KeyTable

CONSTANTS
    Ids,            \* client ids
    Keys,           \* symmetric keys
    Topics,         \* names of ordinary topics
    E4_TOPICS_MAX,  \* size of the topic table (100 unless the build sets it)
    Zero            \* a zeroed field

(* What is hashed to a row of the table: ordinary topics and, as nothing   *)
(* in the code excludes them, control topics.                              *)
Hashes == {TopicHash(t) : t \in Topics}
            \cup {TopicHash(ControlTopic(i)) : i \in Ids}

ASSUME MaxAssumption  == E4_TOPICS_MAX \in Nat \ {0}
ASSUME ZeroAssumption == Zero \notin Ids \cup Keys \cup Hashes

ZeroEntry == [name |-> Zero, key |-> Zero]

EmptyTable == [count |-> 0, slot |-> [i \in 0 .. E4_TOPICS_MAX - 1 |-> ZeroEntry]]

Entry == [name : Hashes \cup {Zero}, key : Keys \cup {Zero}]

Table == [count : 0 .. E4_TOPICS_MAX, slot : [0 .. E4_TOPICS_MAX - 1 -> Entry]]

=============================================================================

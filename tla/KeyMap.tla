------------------------------- MODULE KeyMap -------------------------------
(***************************************************************************)
(* What a table of keys promises its callers, whatever its representation: *)
(* a partial map from names to keys that holds at most Capacity of them.   *)
(* A call that reports failure leaves the map alone.                       *)
(***************************************************************************)
EXTENDS Integers, FiniteSets

CONSTANTS
    Name,      \* names that can be bound
    Key,       \* keys they can be bound to
    Capacity,  \* how many bindings fit
    NoKey      \* stands for "not bound"

VARIABLES
    map,       \* the bindings
    ok         \* whether the last call reported success

vars == <<map, ok>>

Bound(m) == {n \in Name : m[n] # NoKey}

Init ==
    /\ map = [n \in Name |-> NoKey]
    /\ ok = TRUE

Bind(n, k) ==
    /\ n \in Bound(map) \/ Cardinality(Bound(map)) < Capacity
    /\ map' = [map EXCEPT ![n] = k]
    /\ ok' = TRUE

BindFull(n) ==
    /\ n \notin Bound(map)
    /\ Cardinality(Bound(map)) = Capacity
    /\ ok' = FALSE
    /\ UNCHANGED map

Unbind(n) ==
    /\ n \in Bound(map)
    /\ map' = [map EXCEPT ![n] = NoKey]
    /\ ok' = TRUE

UnbindMissing(n) ==
    /\ n \notin Bound(map)
    /\ ok' = FALSE
    /\ UNCHANGED map

Clear ==
    /\ map' = [n \in Name |-> NoKey]
    /\ ok' = TRUE

(* A call about something else than the map.                               *)
Other ==
    /\ ok' = TRUE
    /\ UNCHANGED map

Next ==
    \/ \E n \in Name, k \in Key : Bind(n, k)
    \/ \E n \in Name : BindFull(n) \/ Unbind(n) \/ UnbindMissing(n)
    \/ Clear
    \/ Other

Spec == Init /\ [][Next]_vars

=============================================================================

---------------------------- MODULE MCSymClient ----------------------------
(* SymClient for TLC.                                                      *)
EXTENDS SymClient, TLC

(* Ordinary topics are interchangeable, and so are id keys not yet sent.   *)
MCSymmetry == Permutations(Topics) \cup Permutations(IdKeys \ {FirstIdKey})

(* The results of calls are never read again, neither by the client nor in *)
(* a property: states that differ in them only are explored once.          *)
MCView == <<HasRTC, id, key, ctrltopic, topics, now, secs1970, net, c2, history>>

=============================================================================

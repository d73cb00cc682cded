---------------------------- MODULE MCPkClient -----------------------------
(* PkClient for TLC.                                                       *)
EXTENDS PkClient, TLC

(* Signing keys are interchangeable, and so are the private keys the C2    *)
(* has not used yet: no definition tells one from another.                 *)
MCSymmetry == Permutations(PubKeys) \cup Permutations(SecKeys \ {FirstSecKey})

(* No step and no property of the run reads the results of calls or        *)
(* revoked: states that differ in them only are explored once.             *)
MCView == <<HasRTC, identity, secrets, tables, now, secs1970, net, c2view, accepted, unsigned>>

=============================================================================

------------------------------ MODULE E4Proto ------------------------------
(***************************************************************************)
(* Vocabulary shared by every module: the result codes of error.h and the  *)
(* two name derivations of e4util.c.                                       *)
(*                                                                         *)
(* Byte strings are abstracted to values that keep the equalities the code *)
(* can observe with memcmp.  A derivation is modelled by what it does to   *)
(* those equalities: sha3_256_trunc is taken to be collision free and the  *)
(* hex rendering of a client id is injective, so each derivation wraps its *)
(* argument in a record with a field of its own.                           *)
(***************************************************************************)

E4_RESULT_OK                  == "E4_RESULT_OK"
E4_RESULT_OK_CONTROL          == "E4_RESULT_OK_CONTROL"
E4_ERROR_INTERNAL             == "E4_ERROR_INTERNAL"
E4_ERROR_INVALID_TAG          == "E4_ERROR_INVALID_TAG"
E4_ERROR_TIMESTAMP_IN_FUTURE  == "E4_ERROR_TIMESTAMP_IN_FUTURE"
E4_ERROR_TIMESTAMP_TOO_OLD    == "E4_ERROR_TIMESTAMP_TOO_OLD"
E4_ERROR_CIPHERTEXT_TOO_SHORT == "E4_ERROR_CIPHERTEXT_TOO_SHORT"
E4_ERROR_TOPICKEY_MISSING     == "E4_ERROR_TOPICKEY_MISSING"
E4_ERROR_INVALID_COMMAND      == "E4_ERROR_INVALID_COMMAND"
E4_ERROR_PERSISTENCE_ERROR    == "E4_ERROR_PERSISTENCE_ERROR"
E4_ERROR_DEVICEPK_MISSING     == "E4_ERROR_DEVICEPK_MISSING"
E4_ERROR_PK_SIGVERIF_FAILED   == "E4_ERROR_PK_SIGVERIF_FAILED"
E4_ERROR_PARAMETER_OVERFLOW   == "E4_ERROR_PARAMETER_OVERFLOW"
E4_ERROR_PARAMETER_INVALID    == "E4_ERROR_PARAMETER_INVALID"

(* e4c_derive_control_topic: "e4/" followed by the hex form of the id.     *)
ControlTopic(id) == [ctrltopic |-> id]

(* e4c_derive_topichash: SHA3-256 of the topic name, cut to 16 bytes.      *)
TopicHash(topic) == [topichash |-> topic]

=============================================================================

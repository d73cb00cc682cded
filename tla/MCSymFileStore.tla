--------------------------- MODULE MCSymFileStore ---------------------------
(* Instances of SymFileStore for TLC.                                      *)
EXTENDS SymFileStore, TLC

(* A first start without a file.                                           *)
MCNoFile == {NoFile}
=============================================================================

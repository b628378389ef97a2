------------------------------- MODULE MCBlob -------------------------------
(* Two requests beside the collector. *)
EXTENDS BlobHistory

CONSTANT c1

(* Every page is in the one notebook. *)
Home == [o \in Objects |-> c1]
=============================================================================

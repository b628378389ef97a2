------------------------------ MODULE MCUpload ------------------------------
(* Instances of UploadSession for TLC. *)
EXTENDS UploadSession, TLC

CONSTANTS r1, r2, a, b

(* Requests are interchangeable, and so are chunk bodies. *)
Sym == Permutations(Requests) \cup Permutations(Bodies)
=============================================================================

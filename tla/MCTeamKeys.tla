----------------------------- MODULE MCTeamKeys -----------------------------
(* One notebook shared by two users; the proofs cover teams with children. *)
EXTENDS KeySweep

Parent == [c \in Containers |-> NoTeam]
=============================================================================

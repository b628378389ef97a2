---------------------------- MODULE MCNotebookNav ----------------------------
(* Two notebooks with a page each, one to create, and a new page for the first. *)
EXTENDS NotebookNav

Owner == [p \in 1..3 |-> IF p \in {1, 3} THEN "a" ELSE "b"]
=============================================================================

----------------------------- MODULE MCKeyVault -----------------------------
(* A small instance of KeyVault: two tabs, two keys listed for the         *)
(* colleague.                                                              *)
EXTENDS KeyVault, TLC

Symmetry == Permutations(Tabs)
=============================================================================

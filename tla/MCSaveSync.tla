----------------------------- MODULE MCSaveSync -----------------------------
(* Small instances of SaveSync: one tab, and two tabs of one browser. *)
EXTENDS SaveSync, TLC

TabSymmetry == Permutations(Tabs)
=============================================================================

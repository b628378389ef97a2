--------------------------- MODULE MCIdentityLife ---------------------------
(* Small instances of IdentityLife: two tabs, in one browser or in two.    *)
EXTENDS IdentityLife, TLC

AnyLayout == [Tabs -> Browsers]

Symmetry == {p @@ q : p \in Permutations(Tabs), q \in Permutations(Browsers)}
=============================================================================

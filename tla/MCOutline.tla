------------------------------ MODULE MCOutline ------------------------------
(* Notebooks of a few pages, sections and groups for Outline. *)
EXTENDS Outline, TLC

At(in, order, level) == [ver |-> 1, in |-> in, order |-> order, level |-> level]

(* What a notebook holds at the start, and what may be created in it. *)
Book(placed, fresh) == [o \in Objects |-> IF o \in DOMAIN placed THEN placed[o] ELSE IF o \in fresh THEN Unborn ELSE None]

(* Pages 1..3, sections 4 and 5, groups 6..8. *)
PageBooks ==
    { Book(1 :> At(Top, <<1>>, 0) @@ 2 :> At(Top, <<1>>, 1) @@ 3 :> At(Top, <<2>>, 2), {}),
      Book(1 :> At(4, <<1>>, 0) @@ 2 :> At(4, <<1, 0, 1>>, 1) @@ 3 :> At(5, NoOrder, 2)
           @@ 4 :> At(Top, <<1>>, 0), {}) }

GroupBooks ==
    { Book(4 :> At(6, <<1>>, 0) @@ 6 :> At(Top, <<1>>, 0)
           @@ 7 :> At(Top, <<1>>, 0) @@ 8 :> At(Top, <<2>>, 0), {2}),
      Book(4 :> At(6, NoOrder, 0) @@ 6 :> At(7, <<1>>, 0) @@ 7 :> At(6, <<2>>, 0), {5, 8}) }

Books == PageBooks \cup GroupBooks
Symmetry == Permutations(Tabs) \cup Permutations(Browsers)
=============================================================================

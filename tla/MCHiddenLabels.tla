--------------------------- MODULE MCHiddenLabels ---------------------------
(* The explorer with edge labels hidden: hub has more neighbors into it than *)
(* the threshold, but few by edges of labels that are shown.                 *)
EXTENDS Explorer, TLC

CONSTANTS hub, leaf, o1
From == (1 :> leaf) @@ (2 :> leaf)
To == (1 :> hub) @@ (2 :> hub)
ManyNeighbors == {<<hub, "in">>}
NoSides == {}
OneRow == 1 :> leaf
=============================================================================

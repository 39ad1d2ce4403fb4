----------------------------- MODULE MCSelfLoop -----------------------------
(* The explorer on a database where hub has an edge to itself and leaf three to it. *)
EXTENDS Explorer, TLC

CONSTANTS hub, leaf, o1
From == (1 :> hub) @@ (2 :> leaf) @@ (3 :> leaf) @@ (4 :> leaf) @@ (5 :> hub)
To == (1 :> leaf) @@ (2 :> hub) @@ (3 :> hub) @@ (4 :> hub) @@ (5 :> hub)
NoSides == {}
OneRow == 1 :> leaf
=============================================================================

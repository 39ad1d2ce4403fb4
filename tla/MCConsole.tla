------------------------------ MODULE MCConsole ------------------------------
(* The console's parts on small instances. *)
EXTENDS Console, TLC

\* Two alike: Explorer's operations, Session's instances, Revision's items,
\* Chat's texts or DataTree's pages.
CONSTANTS o1, o2
Two == {o1, o2}
Symmetry == Permutations(Two)

CallTabs == ("a" :> 1) @@ ("b" :> 2)
UnsafeTabs == ("a" :> 1) @@ ("a2" :> 1) @@ ("b" :> 2)
Files == ("f1" :> 1) @@ ("f2" :> 1) @@ ("f3" :> 2)
Chosen == ("f1" :> {"f1"}) @@ ("f2" :> {"f2", "f3"}) @@ ("f3" :> {"f2", "f3"})
OneKind == <<"k">>
\* The folder f holds the first of two connections; a third is made meanwhile.
SameKind == [c \in {1, 2, 3} |-> "k"]
LayoutAtFirst ==
  [names |-> [k |-> "none", f |-> "n", g |-> "none", documents |-> "none"], folders |-> <<"f">>,
   order |-> [k |-> <<>>, f |-> <<1>>, g |-> <<>>, root |-> <<>>]]
SomeChanges ==
  {[type |-> "move-root", key |-> "documents", before |-> "k"],
   [type |-> "move-connector", id |-> 2, to |-> "f", before |-> 1],
   [type |-> "move-connector", id |-> 3, to |-> "none", before |-> 2],
   [type |-> "create-folder", key |-> "g", name |-> "m"],
   [type |-> "rename", key |-> "k", name |-> "m"],
   [type |-> "delete-folder", key |-> "f"]}
\* h has more neighbors than the threshold, but few by edges of labels shown; d
\* has more edges than it; s is small.
From == (1 :> "s") @@ (2 :> "d") @@ (3 :> "s")
To == (1 :> "h") @@ (2 :> "h") @@ (3 :> "d")
LabelRows == (1 :> "s") @@ (2 :> "d") @@ (3 :> "h")
BigSides == {<<"h", "in">>}
DenseSides == {<<"d", "out">>}
VeiledSides == {<<"h", "in">>}
OneWait == <<1>>

ASSUME S!SessionConstants /\ K!CsrfConstants /\ G!LoginConstants
ASSUME L!LimiterConstants /\ N!LateConstants /\ X!ExplorerConstants
ASSUME R!RevisionConstants /\ U!UploadConstants /\ T!TourConstants
ASSUME D!DataTreeConstants /\ C!ChatConstants /\ Q!ChatConstants
=============================================================================

--------------------------- MODULE ExplorerProofs ---------------------------
(* Theorems about the graph explorer: the counts of its labels that come     *)
(* late (N) and its canvas (X).                                              *)
EXTENDS Console, Integers, FiniteSetTheorems, WellFoundedInduction, TLAPS

\* What the variables hold in each part.
overview == v1
rail == v2
marked == v3
backlog == v4
late == v5
counting == v6
failures == v7
counts == v8
boots == v9
USE DEF
  overview, rail, marked, backlog, late, counting, failures, counts, boots

store == v1
edges == v2
hidden == v3
probes == v4
counted == v5
confirmed == v6
cursors == v7
labelRows == v8
phase == v9
warned == v10
offer == v11
large == v12
seeding == v13
epoch == v14
askings == v15
op == v16
seen == v17
degrees == v18
heavy == v19
thinned == v20
USE DEF
  store, edges, hidden, probes, counted, degrees, heavy, confirmed, cursors,
  labelRows, phase, warned, offer, large, seeding, epoch, askings, op, seen, thinned

-----------------------------------------------------------------------------
(* What a recursive function on a sequence computes, by least counterexample. *)

LEMMA LeastOf ==
  ASSUME NEW V \in SUBSET Nat, V # {}
  PROVE  \E n \in V : \A m \in V : n <= m
<1> DEFINE Less == {ss \in Nat \X Nat : ss[1] < ss[2]}
<1>1. IsWellFoundedOn(Less, Nat)
  <2>1. Less = OpToRel(<, Nat)
    BY DEF OpToRel
  <2> QED BY <2>1, NatLessThanWellFounded
<1>2. PICK n \in V : \A m \in V : <<m, n>> \notin Less
  BY <1>1, WFMin
<1>3. \A i, j \in Nat : i < j => <<i, j>> \in Less
  OBVIOUS
<1> HIDE DEF Less
<1>4. n \in Nat /\ \A m \in V : m \in Nat /\ ~(m < n)
  BY <1>2, <1>3
<1> QED BY <1>4

-----------------------------------------------------------------------------
(* The counts of the explorer's labels that come late. *)

CountBatches == [labels : SUBSET N!Labels, fromBacklog : BOOLEAN, boot : Nat, waits : BOOLEAN]
CountsTyped == N!LateTypeOK /\ counts \subseteq CountBatches /\ \A c \in counts : c.boot <= boots

\* Until a boot's first counts are in, nothing is counted in the background.
NotBegun ==
  overview # "ready" => rail = N!Absent /\ marked = {} /\ backlog = {} /\ failures = 0 /\ ~counting /\ late = 0
\* A batch under way is the only one, may be tried again, and paid for itself.
Batch(c) ==
  /\ counting
  /\ \A l \in c.labels : rail[l] = "uncounted" /\ l \in marked
  /\ failures <= RetryWaits
  /\ ~c.fromBacklog => late >= 1
Tried == \A l \in marked : rail[l] = "uncounted" => N!Stopped \/ \E c \in N!Current : l \in c.labels
CountsInv ==
  /\ CountsTyped /\ NotBegun /\ Tried
  /\ \A c \in N!Current : Batch(c)
  /\ \A c, d \in N!Current : c = d
  /\ N!Stopped <=> failures > RetryWaits

LEMMA CountsStart == ASSUME N!LateConstants, N!LateInit PROVE CountsInv
<1>1. /\ N!Absent \in [N!Labels -> {"absent", "uncounted", "counted", "empty"}] /\ 0 \in 0..LateBudget
      /\ 0 \in 0..(RetryWaits + 1) /\ 1 \in 1..MaxBoots
  BY DEF N!LateConstants, N!Absent
<1>2. CountsTyped /\ NotBegun /\ Tried
  BY <1>1 DEF N!LateInit, CountsTyped, NotBegun, Tried, N!LateTypeOK
<1>3. N!Current = {} /\ ~N!Stopped /\ ~(failures > RetryWaits)
  BY DEF N!LateInit, N!LateConstants, N!Current, N!Stopped
<1> QED BY <1>2, <1>3 DEF CountsInv

\* With none of this boot's batches under way, and the counting not stopped.
LEMMA NoBatch ==
  ASSUME N!LateConstants, CountsTyped', NotBegun', N!Current' = {}, ~counting', failures' <= RetryWaits,
         \A l \in marked' : rail'[l] # "uncounted"
  PROVE  CountsInv'
BY DEF CountsInv, Tried, N!Stopped, CountsTyped, N!LateTypeOK, N!LateConstants

LEMMA CountsBegin ==
  ASSUME N!LateConstants, CountsInv, N!LabelsAnswered \/ N!RetryOverview \/ N!Boot
  PROVE  CountsInv'
<1>1. CASE N!LabelsAnswered
  <2>1. /\ rail = N!Absent /\ marked = {} /\ backlog = {} /\ failures = 0 /\ ~counting /\ late = 0
        /\ N!Current = {}
    BY <1>1 DEF N!LabelsAnswered, CountsInv, NotBegun, Batch
  <2>2. N!FirstOf(Named) \subseteq Named
    BY DEF N!FirstOf
  <2>3. CountsTyped' /\ NotBegun'
    BY <1>1, <2>1, <2>2 DEF N!LabelsAnswered, CountsInv, CountsTyped, NotBegun, N!LateTypeOK, N!Labels, N!Absent
  <2>4. \A l \in marked' : rail'[l] # "uncounted"
    BY <1>1, <2>1, <2>2 DEF N!LabelsAnswered, N!Labels, N!Absent
  <2>5. N!Current' = {} /\ ~counting' /\ failures' <= RetryWaits
    BY <1>1, <2>1 DEF N!LabelsAnswered, N!Current, N!LateConstants
  <2> QED BY <2>3, <2>4, <2>5, NoBatch
<1>2. CASE N!RetryOverview
  <2>1. /\ rail = N!Absent /\ marked = {} /\ failures = 0 /\ ~counting /\ N!Current = {}
    BY <1>2 DEF N!RetryOverview, CountsInv, NotBegun, Batch
  <2>2. CountsTyped' /\ NotBegun'
    BY <1>2 DEF N!RetryOverview, CountsInv, CountsTyped, NotBegun, N!LateTypeOK
  <2>3. N!Current' = {} /\ ~counting' /\ failures' <= RetryWaits /\ marked' = {}
    BY <1>2, <2>1 DEF N!RetryOverview, N!Current, N!LateConstants
  <2> QED BY <2>2, <2>3, NoBatch
<1>3. CASE N!Boot
  <2>1. /\ N!Absent \in [N!Labels -> {"absent", "uncounted", "counted", "empty"}] /\ 0 \in 0..LateBudget
        /\ 0 \in 0..(RetryWaits + 1)
    BY DEF N!LateConstants, N!Absent
  <2>2. CountsTyped' /\ NotBegun'
    <3>1. /\ counts \subseteq CountBatches /\ boots' = boots + 1 /\ boots' \in 1..MaxBoots
          /\ \A c \in counts : c.boot \in Nat /\ c.boot <= boots /\ boots \in Nat
      BY <1>3 DEF N!Boot, CountsInv, CountsTyped, N!LateTypeOK, N!LateConstants, CountBatches
    <3>2. \A c \in counts : c.boot <= boots'
      BY <3>1
    <3> QED BY <1>3, <2>1, <3>1, <3>2 DEF N!Boot, CountsTyped, NotBegun, N!LateTypeOK
  <2>3. N!Current' = {}
    BY <1>3 DEF N!Boot, CountsInv, CountsTyped, N!LateTypeOK, N!Current, CountBatches
  <2>4. ~counting' /\ failures' <= RetryWaits /\ marked' = {}
    BY <1>3 DEF N!Boot, N!LateConstants
  <2> QED BY <2>2, <2>3, <2>4, NoBatch
<1> QED BY <1>1, <1>2, <1>3

LEMMA SeenKeeps == ASSUME N!LateConstants, CountsInv, NEW l \in N!Labels, N!Seen(l) PROVE CountsInv'
<1>1. /\ rail[l] = "absent" /\ overview = "ready" /\ rail \in [N!Labels -> {"absent", "uncounted", "counted", "empty"}]
      /\ rail' = [rail EXCEPT ![l] = IF l \in marked THEN "empty" ELSE "uncounted"]
      /\ UNCHANGED <<overview, marked, backlog, late, counting, failures, counts, boots>>
  BY DEF N!Seen, CountsInv, CountsTyped, N!LateTypeOK
<1>2. \A k \in N!Labels : k # l => rail'[k] = rail[k]
  BY <1>1
<1>3. /\ rail' \in [N!Labels -> {"absent", "uncounted", "counted", "empty"}]
      /\ l \in marked => rail'[l] # "uncounted"
  BY <1>1
<1>4. N!Current' = N!Current /\ (N!Stopped' <=> N!Stopped)
  BY <1>1 DEF N!Current, N!Stopped
<1>5. CountsTyped' /\ NotBegun'
  BY <1>1, <1>3 DEF CountsInv, CountsTyped, N!LateTypeOK, NotBegun
<1>6. \A c \in N!Current : Batch(c)'
  <2> SUFFICES ASSUME NEW c \in N!Current PROVE Batch(c)'
    OBVIOUS
  <2>1. Batch(c) /\ c.labels \subseteq N!Labels
    BY DEF CountsInv, CountsTyped, N!Current, CountBatches
  <2>2. l \notin c.labels
    BY <1>1, <2>1 DEF Batch
  <2> QED BY <1>1, <1>2, <2>1, <2>2 DEF Batch
<1>7. Tried'
  BY <1>1, <1>2, <1>3, <1>4 DEF Tried, CountsInv, CountsTyped, N!LateTypeOK
<1> QED BY <1>1, <1>4, <1>5, <1>6, <1>7 DEF CountsInv

LEMMA CountLaterKeeps == ASSUME N!LateConstants, CountsInv, N!CountLater PROVE CountsInv'
<1>1. PICK new : new = [labels |-> N!Wanted, fromBacklog |-> N!Pending \cap backlog # {}, boot |-> boots, waits |-> FALSE]
  OBVIOUS
<1>2. /\ overview = "ready" /\ ~counting /\ counting' = TRUE /\ marked' = marked \cup N!Wanted
      /\ counts' = counts \cup {new} /\ UNCHANGED <<overview, rail, backlog, failures, boots>>
      /\ late' = (IF N!Pending \cap backlog # {} THEN late ELSE late + 1)
      /\ N!Pending \cap backlog # {} \/ late < LateBudget
  BY <1>1 DEF N!CountLater
<1>3. N!Wanted \subseteq N!Pending
  BY DEF N!Wanted, N!FirstOf
<1>4. N!Pending \subseteq N!Labels /\ \A l \in N!Pending : rail[l] = "uncounted"
  BY DEF N!Pending
<1>5. N!Current = {} /\ ~N!Stopped /\ failures <= RetryWaits
  <2>1. N!Current = {} /\ ~N!Stopped
    BY <1>2 DEF CountsInv, Batch, N!Stopped
  <2> QED BY <2>1 DEF CountsInv, CountsTyped, N!LateTypeOK, N!LateConstants
<1>6. boots \in Nat /\ late \in 0..LateBudget
  BY DEF CountsInv, CountsTyped, N!LateTypeOK
<1>7. /\ new \in CountBatches /\ new.boot = boots /\ new.labels = N!Wanted
      /\ (new.fromBacklog <=> N!Pending \cap backlog # {})
  BY <1>1, <1>3, <1>4, <1>6 DEF CountBatches
<1>8. N!Current' = {new}
  BY <1>2, <1>5, <1>7 DEF N!Current
<1>9. late' \in 0..LateBudget /\ (~new.fromBacklog => late' >= 1)
  BY <1>2, <1>6, <1>7 DEF N!LateConstants
<1>10. CountsTyped'
  BY <1>2, <1>3, <1>4, <1>6, <1>7, <1>9 DEF CountsInv, CountsTyped, N!LateTypeOK
<1>11. Batch(new)'
  <2>1. \A l \in new.labels : rail'[l] = "uncounted" /\ l \in marked'
    BY <1>2, <1>3, <1>4, <1>7
  <2> QED BY <1>2, <1>5, <1>9, <2>1 DEF Batch
<1>12. Tried'
  <2> SUFFICES ASSUME NEW l \in marked', rail'[l] = "uncounted" PROVE l \in new.labels
    BY <1>8 DEF Tried
  <2>1. l \notin marked
    BY <1>2, <1>5 DEF CountsInv, Tried
  <2> QED BY <1>2, <1>7, <2>1
<1>13. ~N!Stopped' /\ failures' <= RetryWaits
  BY <1>2, <1>5, <1>8 DEF N!Stopped
<1>14. NotBegun'
  BY <1>2 DEF NotBegun
<1>15. failures' \in Nat /\ RetryWaits \in Nat
  BY <1>10 DEF CountsTyped, N!LateTypeOK, N!LateConstants
<1> QED BY <1>8, <1>10, <1>11, <1>12, <1>13, <1>14, <1>15 DEF CountsInv

\* One more batch, of this boot, settled.
LEMMA SettleKeeps == ASSUME N!LateConstants, CountsInv, NEW c \in counts, N!CountSettles(c) PROVE CountsInv'
<1>1. CASE N!Outdated(c)
  <2>1. N!Current' = N!Current /\ (N!Stopped' <=> N!Stopped)
    BY <1>1 DEF N!Outdated, N!Current, N!Stopped
  <2>2. CountsTyped' /\ NotBegun' /\ Tried' /\ \A d \in N!Current : Batch(d)'
    BY <1>1, <2>1 DEF N!Outdated, CountsInv, CountsTyped, NotBegun, Tried, N!LateTypeOK, Batch
  <2> QED BY <1>1, <2>1, <2>2 DEF CountsInv, N!Outdated
<1>2. ASSUME c.boot = boots
      PROVE  /\ N!Current = {c} /\ Batch(c) /\ ~N!Stopped /\ overview = "ready" /\ c \in CountBatches /\ late \in 0..LateBudget
             /\ \A l \in marked : rail[l] = "uncounted" => l \in c.labels
  <2>1. c \in N!Current
    BY <1>2 DEF N!Current
  <2>2. N!Current = {c} /\ Batch(c) /\ ~N!Stopped
    BY <2>1 DEF CountsInv, N!Stopped
  <2>3. overview = "ready"
    BY <2>2 DEF CountsInv, NotBegun, Batch
  <2>4. \A l \in marked : rail[l] = "uncounted" => l \in c.labels
    BY <2>2 DEF CountsInv, Tried
  <2> QED BY <2>2, <2>3, <2>4 DEF CountsInv, CountsTyped, N!LateTypeOK
<1>3. CASE N!CountedLater(c)
  <2>1. /\ c.boot = boots /\ counts' = counts \ {c} /\ failures' = 0 /\ counting' = FALSE
        /\ UNCHANGED <<overview, marked, backlog, late, boots>>
    BY <1>3 DEF N!CountedLater
  <2>2. PICK held \in SUBSET c.labels :
          rail' = [l \in N!Labels |-> IF l \in held THEN "counted" ELSE IF l \in c.labels THEN "absent" ELSE rail[l]]
    BY <1>3 DEF N!CountedLater
  <2>3. N!Current' = {}
    BY <1>2, <2>1 DEF N!Current
  <2>4. CountsTyped' /\ NotBegun'
    <3>1. rail' \in [N!Labels -> {"absent", "uncounted", "counted", "empty"}]
      BY <2>2 DEF CountsInv, CountsTyped, N!LateTypeOK
    <3>2. 0 \in 0..(RetryWaits + 1)
      BY DEF N!LateConstants
    <3> QED BY <1>2, <2>1, <3>1, <3>2 DEF CountsInv, CountsTyped, N!LateTypeOK, NotBegun
  <2>5. \A l \in marked' : rail'[l] # "uncounted"
    BY <1>2, <2>1, <2>2 DEF CountsInv, CountsTyped, N!LateTypeOK
  <2>6. failures' <= RetryWaits
    BY <2>1 DEF N!LateConstants
  <2> QED BY <2>1, <2>3, <2>4, <2>5, <2>6, NoBatch
<1>4. CASE N!CountFailed(c)
  <2>1. /\ c.boot = boots /\ failures' = failures + 1 /\ UNCHANGED <<overview, rail, marked, backlog, late, counting, boots>>
        /\ counts' = (counts \ {c}) \cup (IF failures < RetryWaits THEN {[c EXCEPT !.waits = TRUE]} ELSE {})
    BY <1>4 DEF N!CountFailed
  <2>2. failures \in Nat /\ failures <= RetryWaits /\ RetryWaits \in Nat /\ counting
    BY <1>2, <2>1 DEF Batch, CountsInv, CountsTyped, N!LateTypeOK, N!LateConstants
  <2>3. PICK d : d = [c EXCEPT !.waits = TRUE]
    OBVIOUS
  <2>4. d \in CountBatches /\ d.boot = boots /\ d.labels = c.labels /\ d.fromBacklog = c.fromBacklog
    BY <1>2, <2>1, <2>3 DEF CountBatches
  <2>5. N!Current' = IF failures < RetryWaits THEN {d} ELSE {}
    <3>1. \A e \in counts \ {c} : e.boot # boots
      BY <1>2, <2>1 DEF N!Current
    <3> QED BY <2>1, <2>3, <2>4, <3>1 DEF N!Current
  <2>6. CountsTyped'
    <3>1. failures' \in 0..(RetryWaits + 1)
      BY <2>1, <2>2
    <3>2. \A e \in counts' : e \in counts \/ e = d
      BY <2>1, <2>3
    <3>3. counts' \subseteq CountBatches /\ \A e \in counts' : e.boot <= boots'
      BY <2>1, <2>4, <3>2 DEF CountsInv, CountsTyped, N!LateTypeOK
    <3> QED BY <2>1, <3>1, <3>3 DEF CountsInv, CountsTyped, N!LateTypeOK
  <2>7. NotBegun'
    BY <1>2, <2>1 DEF NotBegun
  <2>8. CASE failures < RetryWaits
    <3>1. N!Current' = {d} /\ ~N!Stopped' /\ failures' <= RetryWaits
      BY <2>1, <2>2, <2>5, <2>8 DEF N!Stopped
    <3>2. Batch(d)'
      BY <1>2, <2>1, <2>4, <3>1 DEF Batch
    <3>3. Tried'
      BY <1>2, <2>1, <2>4, <3>1 DEF Tried
    <3> QED BY <2>6, <2>7, <2>1, <2>2, <3>1, <3>2, <3>3 DEF CountsInv
  <2>9. CASE ~(failures < RetryWaits)
    <3>1. N!Current' = {} /\ N!Stopped' /\ failures' > RetryWaits
      BY <2>1, <2>2, <2>5, <2>9 DEF N!Stopped
    <3> QED BY <2>6, <2>7, <3>1 DEF CountsInv, Tried
  <2> QED BY <2>8, <2>9
<1>5. CASE N!WaitOver(c)
  <2>1. /\ c.boot = boots /\ counts' = counts \ {c} /\ counting' = FALSE /\ marked' = marked \ c.labels
        /\ late' = (IF c.fromBacklog THEN late ELSE late - 1)
        /\ UNCHANGED <<overview, rail, backlog, failures, boots>>
    BY <1>5 DEF N!WaitOver
  <2>2. N!Current' = {}
    BY <1>2, <2>1 DEF N!Current
  <2>3. late' \in 0..LateBudget
    BY <1>2, <2>1 DEF Batch, N!LateConstants
  <2>4. CountsTyped' /\ NotBegun'
    BY <1>2, <2>1, <2>3 DEF CountsInv, CountsTyped, N!LateTypeOK, NotBegun
  <2>5. \A l \in marked' : rail'[l] # "uncounted"
    BY <1>2, <2>1
  <2>6. failures' <= RetryWaits
    BY <1>2, <2>1 DEF Batch
  <2> QED BY <2>1, <2>2, <2>4, <2>5, <2>6, NoBatch
<1> QED BY <1>1, <1>3, <1>4, <1>5 DEF N!CountSettles

LEMMA AtMostOne ==
  ASSUME NEW W, \A x, y \in W : x = y
  PROVE  Cardinality(W) <= 1
<1>1. CASE W = {}
  BY <1>1, FS_EmptySet
<1>2. ASSUME NEW x \in W PROVE Cardinality(W) <= 1
  <2>1. W = {x}
    BY <1>2
  <2>2. Cardinality({x}) = 1
    BY ONLY FS_Singleton
  <2> QED BY <2>1, <2>2
<1> QED BY <1>1, <1>2

\* No label is lost, and none is counted twice, whatever is read, fails, is
\* waited for and boots again: one marked and without a count is in the one
\* batch under way, or every retry failed.
THEOREM CountsHold ==
  ASSUME N!LateConstants
  PROVE  N!LateSpec => [](N!LateTypeOK /\ N!NoLabelLost)
<1>1. CountsInv /\ [N!LateNext]_(N!lateVars) => CountsInv'
  <2>1. CASE N!LateNext
    BY <2>1, CountsBegin, SeenKeeps, CountLaterKeeps, SettleKeeps DEF N!LateNext
  <2>2. CASE UNCHANGED N!lateVars
    BY <2>2 DEF N!lateVars, CountsInv, CountsTyped, NotBegun, Tried, Batch, N!Current, N!Stopped, N!LateTypeOK
  <2> QED BY <2>1, <2>2
<1>2. ASSUME CountsInv PROVE N!LateTypeOK /\ N!NoLabelLost
  <2>1. \A W : N!Cardinality(W) = Cardinality(W)
    BY DEF N!Cardinality, Cardinality
  <2>2. N!Cardinality(N!Current) <= 1
    BY <1>2, <2>1, AtMostOne DEF CountsInv
  <2>3. N!Current # {} => counting
    BY <1>2 DEF CountsInv, Batch
  <2> QED BY <1>2, <2>2, <2>3 DEF CountsInv, CountsTyped, Batch, Tried, N!NoLabelLost
<1> QED BY CountsStart, <1>1, <1>2, PTL DEF N!LateSpec

-----------------------------------------------------------------------------
(* The canvas: what the operations carry. *)

Stages ==
  {"none", "labels", "candidates", "sample", "seedProbe", "seedCount", "ring", "seedConnect", "probe", "count",
   "connect", "size", "page", "rows", "reveal", "fetch", "degreeProbe", "degree", "countAll"}
OpKinds ==
  {"idle", "boot", "sample", "more", "expand", "rows", "reveal", "fetch", "connect", "degree", "count"}
Keys == Nodes \cup {"none", "boot", "sample", "more", "rows", "reveal", "fetch", "connect", "degree", "countAll"}
Marks == [X!Sides -> 0..X!Done]
Ops ==
  [kind : OpKinds, stage : Stages, key : Keys, node : Nodes \cup {X!Idle.node}, sides : SUBSET X!Sides,
   queue : SUBSET X!Sides, from : Marks, cand : SUBSET Nodes, batch : SUBSET Nodes, rest : SUBSET Nodes,
   with : SUBSET Nodes, mode : {"auto", "explicit", "confirmed"},
   round : {"none", "seeds", "first", "second", "more", "outer", "sampled"}, size : Nat, tries : Nat,
   live : BOOLEAN, epoch : Nat]
Seedings == [sized : SUBSET Nodes, tallied : SUBSET Nodes, expanded : SUBSET Nodes, frontier : SUBSET Nodes]
Canvases ==
  [store : SUBSET Nodes, probes : SUBSET Nodes, counted : SUBSET Nodes, degrees : SUBSET Nodes,
   heavy : SUBSET X!NodeSides, cursors : [Nodes -> Marks], seeding : Seedings]
Outs == [op : Ops, spawn : Ops, offer : SUBSET Nodes, large : SUBSET Nodes, ring : SUBSET Nodes]

\* No edge goes from a node to itself.
NoLoops == \A e \in X!EdgeIds : Src[e] # Dst[e]
\* The edges of n up to the marks are among those returned, sn.
MarksSeen(n, marks, sn) ==
  NoLoops => \A s \in X!Sides : \A e \in X!EdgesOf(n, s) : e <= marks[s] => <<n, e>> \in sn
CursorsSeen(cur, sn) == \A n \in Nodes : MarksSeen(n, cur[n], sn)

\* What makes a large side one to read, cf: the user chose it, or a degree
\* without the hidden labels found it small, and of nodes only that.
Chosen(n, sides, cf) == ({n} \X sides) \cap Big \subseteq cf.chosen \cup cf.thin
Mild(ns, cf) == X!LargeSides(ns) \subseteq cf.thin
\* A live operation, at the refresh ep ...
Base(rec, ep, sn) ==
  /\ rec \in Ops /\ rec.kind # "idle" /\ rec.live /\ rec.epoch = ep
  /\ rec.kind = "expand" => rec.node \in Nodes /\ MarksSeen(rec.node, rec.from, sn)
\* ... past the check of a node's size ...
Follows(rec, cf, ep, sn) ==
  Base(rec, ep, sn) /\ (rec.kind = "expand" => Chosen(rec.node, rec.sides \cup rec.queue, cf))
\* ... and fit for its stage.
Apt(rec, cf) ==
  /\ rec.stage \in {"page", "size"} => rec.kind = "expand"
  /\ rec.stage \in {"reveal", "degreeProbe", "degree", "countAll"} => rec.node \in Nodes
  /\ rec.stage = "connect" /\ rec.mode # "confirmed" => Mild(rec.cand, cf)
  /\ rec.stage = "connect" /\ rec.mode = "explicit" => Mild(rec.batch, cf)
  /\ rec.stage = "ring" => X!Quiet(rec.batch) /\ rec.round \in {"first", "second", "more"}
  /\ rec.stage = "seedConnect" => X!Quiet(rec.cand)
  /\ rec.stage = "seedProbe" => rec.round \in {"seeds", "second", "more", "outer"}
  /\ rec.stage = "seedCount" => rec.round \in {"first", "second", "more", "outer"}
Staged(rec, cf) ==
  (rec.kind = "expand" /\ rec.stage # "size" => Chosen(rec.node, rec.sides \cup rec.queue, cf)) /\ Apt(rec, cf)
OpFits(rec, cf, ep, sn) ==
  /\ rec \in Ops
  /\ rec.kind = "idle" => rec = X!Idle
  /\ rec.kind # "idle" => rec.epoch <= ep /\ (rec.live => Base(rec, ep, sn) /\ Staged(rec, cf))
Good(r, cf, ep, sn) == r \in Outs /\ OpFits(r.op, cf, ep, sn) /\ OpFits(r.spawn, cf, ep, sn)

LEMMA Counts == \A W : X!Cardinality(W) = Cardinality(W)
BY DEF X!Cardinality, Cardinality

\* A finite set of numbers has a greatest, by least counterexample.
LEMMA Greatest ==
  ASSUME NEW W \in SUBSET Nat, IsFiniteSet(W), W # {}
  PROVE  X!Max(W) \in W /\ \A y \in W : y <= X!Max(W)
<1> DEFINE Unbound(V) == V \in SUBSET Nat /\ IsFiniteSet(V) /\ V # {} /\ ~\E x \in V : \A y \in V : x >= y
           Bad == {n \in Nat : \E V : Unbound(V) /\ Cardinality(V) = n}
<1>1. Bad = {}
  <2>1. SUFFICES ASSUME Bad # {} PROVE FALSE
    OBVIOUS
  <2>2. PICK n \in Bad : \A m \in Bad : n <= m
    <3>1. Bad \in SUBSET Nat
      OBVIOUS
    <3> HIDE DEF Bad
    <3> QED BY <2>1, <3>1, LeastOf
  <2>3. PICK V : Unbound(V) /\ Cardinality(V) = n
    BY <2>2
  <2>4. PICK x \in V : TRUE
    BY <2>3
  <2>5. V \in SUBSET Nat /\ x \in Nat /\ n \in Nat /\ ~\E a \in V : \A b \in V : a >= b
    BY <2>2, <2>3, <2>4
  <2>6. IsFiniteSet(V \ {x}) /\ Cardinality(V \ {x}) = n - 1 /\ Cardinality(V \ {x}) \in Nat
    BY <2>3, <2>4, FS_RemoveElement, FS_CardinalityType
  <2>7. V \ {x} # {}
    <3>1. SUFFICES ASSUME V = {x} PROVE FALSE
      BY <2>4
    <3> QED BY <2>5, <3>1
  <2>8. ~Unbound(V \ {x})
    <3>1. n - 1 \notin Bad
      <4> HIDE DEF Bad
      <4> QED BY <2>2, <2>5, <2>6
    <3> QED BY <2>6, <3>1
  <2>9. PICK z \in V \ {x} : \A y \in V \ {x} : z >= y
    BY <2>5, <2>6, <2>7, <2>8
  <2>10. z \in Nat /\ \A y \in V : y = x \/ y \in V \ {x}
    BY <2>5, <2>9
  <2>11. CASE z >= x
    BY <2>5, <2>9, <2>10, <2>11
  <2>12. CASE ~(z >= x)
    <3>1. \A y \in V : x >= y
      BY <2>5, <2>9, <2>10, <2>12
    <3> QED BY <2>4, <2>5, <3>1
  <2> QED BY <2>11, <2>12
<1>2. Cardinality(W) \in Nat
  BY FS_CardinalityType
<1>3. \E x \in W : \A y \in W : x >= y
  BY <1>1, <1>2
<1>4. X!Max(W) \in W /\ \A y \in W : X!Max(W) >= y
  BY <1>3 DEF X!Max
<1>5. \A y \in W : y \in Nat
  OBVIOUS
<1> QED BY <1>4, <1>5

LEMMA Marked ==
  ASSUME X!ExplorerConstants
  PROVE  /\ X!Done \in Nat \ {0} /\ \A e \in X!EdgeIds : e \in Nat \ {0} /\ e < X!Done
         /\ X!Fresh \in Marks /\ \A s \in X!Sides : X!Fresh[s] = 0
<1>1. IsFiniteSet(X!EdgeIds \cup {0}) /\ X!EdgeIds \cup {0} \in SUBSET Nat
  <2>1. IsFiniteSet(X!EdgeIds) /\ X!EdgeIds \subseteq Nat \ {0}
    BY DEF X!ExplorerConstants, X!IsFiniteSet, IsFiniteSet
  <2>2. IsFiniteSet(X!EdgeIds \cup {0})
    BY <2>1, FS_AddElement
  <2> QED BY <2>1, <2>2
<1>2. /\ X!Max(X!EdgeIds \cup {0}) \in Nat
      /\ \A e \in X!EdgeIds \cup {0} : e \in Nat /\ e <= X!Max(X!EdgeIds \cup {0})
  BY <1>1, Greatest
<1>3. X!Done \in Nat \ {0} /\ \A e \in X!EdgeIds : e < X!Done
  BY <1>2 DEF X!Done
<1>4. 0 \in 0..X!Done
  BY <1>3
<1> QED BY <1>3, <1>4 DEF X!Fresh, X!Unstarted, Marks, X!ExplorerConstants

LEMMA IdleFits ==
  ASSUME X!ExplorerConstants, NEW cf, NEW ep \in Nat, NEW sn
  PROVE  X!Idle \in Ops /\ X!Idle.kind = "idle" /\ OpFits(X!Idle, cf, ep, sn)
<1>1. X!Idle \in Ops
  <2>1. X!Fresh \in Marks
    BY Marked
  <2>2. X!Idle.node \in Nodes \cup {X!Idle.node}
    OBVIOUS
  <2>3. PICK nn : nn = X!Idle.node
    OBVIOUS
  <2>4. X!Idle = [kind |-> "idle", stage |-> "none", key |-> "none", node |-> nn,
         sides |-> {}, queue |-> {}, from |-> X!Fresh, cand |-> {}, batch |-> {}, rest |-> {},
         with |-> {}, mode |-> "auto",
         round |-> "none", size |-> 0, tries |-> 0, live |-> TRUE, epoch |-> 0]
    BY <2>3 DEF X!Idle
  <2> QED BY <2>1, <2>3, <2>4 DEF Ops, OpKinds, Stages, Keys
<1>2. X!Idle.kind = "idle"
  BY DEF X!Idle
<1> QED BY <1>1, <1>2 DEF OpFits

LEMMA LiveFits ==
  ASSUME NEW cf, NEW ep \in Nat, NEW sn, NEW rec, Base(rec, ep, sn), Staged(rec, cf)
  PROVE  OpFits(rec, cf, ep, sn)
BY DEF OpFits, Base

\* An operation of the same chain.
Alike(q, rec) ==
  /\ q \in Ops /\ q.kind = rec.kind /\ q.node = rec.node /\ q.sides = rec.sides /\ q.queue = rec.queue
  /\ q.from = rec.from /\ q.live = rec.live /\ q.epoch = rec.epoch
LEMMA Along ==
  ASSUME NEW cf, NEW ep, NEW sn, NEW rec, Follows(rec, cf, ep, sn), NEW q, Alike(q, rec)
  PROVE  Follows(q, cf, ep, sn)
BY DEF Follows, Base, Alike

\* What a page request of these sides is.
LEMMA PageOfFits ==
  ASSUME X!ExplorerConstants, NEW cf, NEW ep \in Nat, NEW sn, NEW k \in Canvases, CursorsSeen(k.cursors, sn),
         NEW rec, Base(rec, ep, sn), rec.kind = "expand", NEW ss \in SUBSET X!Sides, NEW after \in SUBSET X!Sides,
         Chosen(rec.node, ss \cup after, cf)
  PROVE  OpFits(X!PageOf(k, rec, ss, after), cf, ep, sn)
<1> DEFINE tr == IF X!Small(k, rec.node, ss) THEN MaxRequests ELSE 1
<1>1. tr \in Nat
  BY DEF X!ExplorerConstants
<1>2. X!PageOf(k, rec, ss, after) = [rec EXCEPT !.stage = "page", !.sides = ss, !.queue = after, !.from = k.cursors[rec.node], !.tries = tr]
  BY DEF X!PageOf
<1> HIDE DEF tr
<1>3. rec \in Ops /\ rec.node \in Nodes /\ k.cursors[rec.node] \in Marks /\ MarksSeen(rec.node, k.cursors[rec.node], sn)
  BY DEF Base, Canvases, CursorsSeen
<1>4. PICK pg : pg = X!PageOf(k, rec, ss, after)
  OBVIOUS
<1>5. /\ pg \in Ops /\ pg.kind = "expand" /\ pg.stage = "page" /\ pg.node = rec.node /\ pg.sides = ss /\ pg.queue = after
      /\ pg.from = k.cursors[rec.node] /\ pg.live = rec.live /\ pg.epoch = rec.epoch
  BY <1>1, <1>2, <1>3, <1>4, ZenonT(60) DEF Ops, Stages
<1>6. Base(pg, ep, sn)
  BY <1>3, <1>5 DEF Base
<1>7. Staged(pg, cf)
  BY <1>5 DEF Staged, Apt
<1> QED BY <1>4, <1>6, <1>7, LiveFits

LEMMA Outcomes ==
  ASSUME X!ExplorerConstants, NEW cf, NEW ep \in Nat, NEW sn, seeding \in Seedings, NEW rec, OpFits(rec, cf, ep, sn)
  PROVE  Good(X!Next1(rec), cf, ep, sn)
<1>1. rec \in Ops /\ X!Idle \in Ops /\ OpFits(X!Idle, cf, ep, sn) /\ seeding.frontier \in SUBSET Nodes
  BY IdleFits DEF OpFits, Seedings
<1>2. PICK idle : idle = X!Idle
  OBVIOUS
<1>3. X!Next1(rec) = [op |-> rec, spawn |-> idle, offer |-> {}, large |-> {}, ring |-> seeding.frontier]
  BY <1>2 DEF X!Next1
<1> QED BY <1>1, <1>2, <1>3 DEF Good, Outs

LEMMA EndsWell ==
  ASSUME X!ExplorerConstants, NEW cf, NEW ep \in Nat, NEW sn, seeding \in Seedings
  PROVE  \A r \in X!Ended : Good(r, cf, ep, sn)
BY IdleFits, Outcomes DEF X!Ended

LEMMA OutcomesWith ==
  ASSUME NEW cf, NEW ep, NEW sn, NEW r, Good(r, cf, ep, sn), NEW ns \in SUBSET Nodes, NEW q, OpFits(q, cf, ep, sn)
  PROVE  /\ Good([r EXCEPT !.offer = ns], cf, ep, sn) /\ Good([r EXCEPT !.large = ns], cf, ep, sn)
         /\ Good([r EXCEPT !.ring = ns], cf, ep, sn) /\ Good([r EXCEPT !.spawn = q], cf, ep, sn)
<1>1. r \in Outs /\ OpFits(r.op, cf, ep, sn) /\ OpFits(r.spawn, cf, ep, sn) /\ q \in Ops
  BY DEF Good, OpFits
<1>2. ASSUME NEW x, x = [r EXCEPT !.offer = ns] \/ x = [r EXCEPT !.large = ns] \/ x = [r EXCEPT !.ring = ns]
      PROVE  Good(x, cf, ep, sn)
  <2>1. x \in Outs /\ x.op = r.op /\ x.spawn = r.spawn
    BY <1>1, <1>2 DEF Outs
  <2> QED BY <1>1, <2>1 DEF Good
<1>3. ASSUME NEW x, x = [r EXCEPT !.spawn = q] PROVE Good(x, cf, ep, sn)
  <2>1. x \in Outs /\ x.op = r.op /\ x.spawn = q
    BY <1>1, <1>3 DEF Outs
  <2> QED BY <1>1, <2>1 DEF Good
<1> QED BY <1>2, <1>3

\* A large side of which the degree is known was found large, or is in cf.
Known(k, cf) == X!LargeSides(k.degrees) \subseteq k.heavy \cup cf.thin

LEMMA Small ==
  ASSUME NEW k, NEW cf, Known(k, cf), NEW n, NEW s \in X!Sides, X!SideSize(k, n, s) = "small"
  PROVE  <<n, s>> \in Big => <<n, s>> \in cf.thin
<1>1. CASE n \in k.degrees
  <2>1. <<n, s>> \notin k.heavy
    BY <1>1 DEF X!SideSize
  <2>2. <<n, s>> \in Big => <<n, s>> \in X!LargeSides(k.degrees)
    BY <1>1 DEF X!LargeSides
  <2> QED BY <2>1, <2>2 DEF Known
<1>2. CASE n \notin k.degrees
  BY <1>2 DEF X!SideSize, X!ProbedOver
<1> QED BY <1>1, <1>2

LEMMA QuietSubsets ==
  ASSUME NEW ns, X!Quiet(ns), NEW b \in SUBSET ns
  PROVE  X!Quiet(b)
BY DEF X!Quiet, X!LargeSides

LEMMA MildSubsets ==
  ASSUME NEW cf, NEW ns, Mild(ns, cf), NEW b \in SUBSET ns
  PROVE  Mild(b, cf)
BY DEF Mild, X!LargeSides

LEMMA CostedAreMild ==
  ASSUME NEW k, NEW cf, Known(k, cf), NEW ns
  PROVE  Mild(X!Costed(k, ns), cf) /\ X!Costed(k, ns) \subseteq ns
<1>1. ASSUME NEW n \in X!Costed(k, ns), NEW s \in X!Sides, <<n, s>> \in Big \cup Dense PROVE <<n, s>> \in cf.thin
  <2>1. X!Size(k, n) = "small" /\ n \in k.counted \cup k.degrees
    BY DEF X!Costed
  <2>2. X!SideSize(k, n, s) # "large"
    BY <2>1 DEF X!Size
  <2>3. n \in k.degrees
    BY <1>1, <2>1, <2>2 DEF X!SideSize, X!ProbedOver
  <2>4. <<n, s>> \notin k.heavy
    BY <2>2, <2>3 DEF X!SideSize
  <2>5. <<n, s>> \in X!LargeSides(k.degrees)
    BY <1>1, <2>3 DEF X!LargeSides
  <2> QED BY <2>4, <2>5 DEF Known
<1>2. X!Costed(k, ns) \subseteq ns
  BY DEF X!Costed, X!Present
<1> QED BY <1>1, <1>2 DEF Mild, X!LargeSides

LEMMA FirstsAreSome == ASSUME NEW ns PROVE \A b \in X!Firsts(ns) : b \subseteq ns
BY DEF X!Firsts, X!kSubset

LEMMA ReadableAreQuiet ==
  ASSUME NEW k, NEW ns
  PROVE  X!Quiet(X!Readable(k, ns)) /\ X!Readable(k, ns) \subseteq ns
BY DEF X!Quiet, X!LargeSides, X!Readable

\* ... and one that no second page follows.
LEMMA LastPageFits ==
  ASSUME X!ExplorerConstants, NEW cf, NEW ep \in Nat, NEW sn, NEW k \in Canvases, CursorsSeen(k.cursors, sn),
         NEW rec, Base(rec, ep, sn), rec.kind = "expand", NEW ss \in SUBSET X!Sides, NEW after \in SUBSET X!Sides,
         Chosen(rec.node, ss \cup after, cf)
  PROVE  OpFits([X!PageOf(k, rec, ss, after) EXCEPT !.tries = 1], cf, ep, sn)
<1>1. PICK asked : asked = X!PageOf(k, rec, ss, after)
  OBVIOUS
<1>2. OpFits(asked, cf, ep, sn)
  BY <1>1, PageOfFits
<1>3. PICK one : one = [asked EXCEPT !.tries = 1]
  OBVIOUS
<1>4. asked \in Ops /\ asked.kind = "expand" /\ asked.stage = "page" /\ asked.live /\ asked.epoch = ep
  <2>1. asked.kind = rec.kind /\ asked.stage = "page" /\ asked.live = rec.live /\ asked.epoch = rec.epoch
    BY <1>1 DEF X!PageOf, Ops, Base
  <2> QED BY <1>2, <2>1 DEF OpFits, Base
<1>5. Alike(one, asked) /\ one.stage = "page"
  BY <1>3, <1>4 DEF Alike, Ops
<1>6. Follows(asked, cf, ep, sn)
  BY <1>2, <1>4 DEF OpFits, Follows, Staged
<1>7. Follows(one, cf, ep, sn)
  BY <1>5, <1>6, Along
<1>8. Staged(one, cf)
  BY <1>4, <1>5, <1>7 DEF Staged, Apt, Alike, Follows
<1> QED BY <1>1, <1>3, <1>7, <1>8, LiveFits DEF Follows

\* The pages a read of a node's sides begins with.
LEMMA ReadsWell ==
  ASSUME X!ExplorerConstants, NEW cf, NEW ep \in Nat, NEW sn, seeding \in Seedings,
         NEW k \in Canvases, CursorsSeen(k.cursors, sn), NEW rec, Base(rec, ep, sn), rec.kind = "expand",
         Chosen(rec.node, rec.sides, cf), NEW r \in X!ReadSides(k, rec)
  PROVE  Good(r, cf, ep, sn)
<1> DEFINE open == X!OpenSides(k, rec.node, rec.sides)
           asked == X!PageOf(k, rec, rec.sides, {})
<1>1. rec \in Ops /\ rec.sides \in SUBSET X!Sides /\ open \subseteq rec.sides /\ open \in SUBSET X!Sides
  BY DEF Base, Ops, X!OpenSides
<1>2. ASSUME NEW ss \in SUBSET rec.sides, NEW after \in SUBSET rec.sides
      PROVE  /\ OpFits(X!PageOf(k, rec, ss, after), cf, ep, sn)
             /\ Good(X!Next1(X!PageOf(k, rec, ss, after)), cf, ep, sn)
  <2>1. Chosen(rec.node, ss \cup after, cf) /\ ss \in SUBSET X!Sides /\ after \in SUBSET X!Sides
    BY <1>1, <1>2 DEF Chosen
  <2> QED BY <2>1, PageOfFits, Outcomes
<1>3. CASE \A s \in rec.sides : k.cursors[rec.node][s] = X!Unstarted
  <2>1. r = X!Next1([asked EXCEPT !.tries = 1])
    BY <1>3 DEF X!ReadSides
  <2>2. OpFits([asked EXCEPT !.tries = 1], cf, ep, sn)
    <3>1. rec.sides \cup {} = rec.sides
      OBVIOUS
    <3> QED BY <1>1, <3>1, LastPageFits
  <2> QED BY <2>1, <2>2, Outcomes
<1>4. CASE ~\A s \in rec.sides : k.cursors[rec.node][s] = X!Unstarted
  <2>1. \/ r \in X!Ended
        \/ \E s \in open : r = X!Next1(X!PageOf(k, rec, {s}, open \ {s}))
        \/ r = X!Next1(X!PageOf(k, rec, open, {}))
        \/ /\ open # {} /\ X!Cardinality(open) # 1
           /\ r = [X!Next1(X!PageOf(k, rec, {"out"}, {})) EXCEPT !.spawn = X!PageOf(k, rec, {"in"}, {})]
    BY <1>4 DEF X!ReadSides
  <2>2. CASE r \in X!Ended
    BY <2>2, EndsWell
  <2>3. ASSUME NEW s \in open, r = X!Next1(X!PageOf(k, rec, {s}, open \ {s})) PROVE Good(r, cf, ep, sn)
    BY <1>1, <1>2, <2>3
  <2>4. CASE r = X!Next1(X!PageOf(k, rec, open, {}))
    BY <1>1, <1>2, <2>4
  <2>5. ASSUME open # {}, X!Cardinality(open) # 1,
               r = [X!Next1(X!PageOf(k, rec, {"out"}, {})) EXCEPT !.spawn = X!PageOf(k, rec, {"in"}, {})]
        PROVE  Good(r, cf, ep, sn)
    <3>1. \A s \in X!Sides : open # {s}
      BY <2>5, Counts, FS_Singleton
    <3>2. open = X!Sides
      BY <1>1, <2>5, <3>1 DEF X!Sides
    <3>3. {"out"} \in SUBSET rec.sides /\ {"in"} \in SUBSET rec.sides
      BY <1>1, <3>2 DEF X!Sides
    <3>4. Good(X!Next1(X!PageOf(k, rec, {"out"}, {})), cf, ep, sn) /\ OpFits(X!PageOf(k, rec, {"in"}, {}), cf, ep, sn)
      BY <1>2, <3>3
    <3> QED BY <2>5, <3>4, OutcomesWith
  <2> QED BY <2>1, <2>2, <2>3, <2>4, <2>5
<1> QED BY <1>3, <1>4

\* What the lemmas on the operations' next steps stand on.
Ground(k, cf, ep, sn) ==
  /\ X!ExplorerConstants /\ ep \in Nat /\ seeding \in Seedings /\ k \in Canvases /\ CursorsSeen(k.cursors, sn)
  /\ Known(k, cf)

LEMMA GroundEnds ==
  ASSUME NEW k, NEW cf, NEW ep, NEW sn, Ground(k, cf, ep, sn)
  PROVE  \A r \in X!Ended : Good(r, cf, ep, sn)
BY EndsWell DEF Ground

LEMMA Turns ==
  ASSUME NEW k, NEW cf, NEW ep, NEW sn, Ground(k, cf, ep, sn), NEW rec, Follows(rec, cf, ep, sn),
         NEW q, Alike(q, rec), Apt(q, cf)
  PROVE  Good(X!Next1(q), cf, ep, sn)
<1>1. Follows(q, cf, ep, sn)
  BY Along
<1>2. Staged(q, cf)
  BY <1>1 DEF Staged, Follows
<1>3. OpFits(q, cf, ep, sn)
  BY <1>1, <1>2, LiveFits DEF Follows, Ground
<1> QED BY <1>3, Outcomes DEF Ground

LEMMA SeedConnects ==
  ASSUME NEW k, NEW cf, NEW ep, NEW sn, Ground(k, cf, ep, sn), NEW rec, Follows(rec, cf, ep, sn),
         NEW ring \in SUBSET Nodes, NEW r \in X!SeedConnect(k, rec, ring)
  PROVE  Good(r, cf, ep, sn)
<1>1. CASE X!Readable(k, rec.rest) = {}
  <2>1. PICK e \in X!Ended : r = [e EXCEPT !.ring = ring]
    BY <1>1 DEF X!SeedConnect
  <2>2. Good(e, cf, ep, sn) /\ OpFits(e.op, cf, ep, sn)
    BY GroundEnds DEF Good
  <2> QED BY <2>1, <2>2, OutcomesWith
<1>2. CASE X!Readable(k, rec.rest) # {}
  <2>1. PICK q : q = [rec EXCEPT !.stage = "seedConnect", !.cand = X!Readable(k, rec.rest), !.batch = ring, !.with = k.store]
    OBVIOUS
  <2>2. r = X!Next1(q)
    BY <1>2, <2>1 DEF X!SeedConnect
  <2>3. rec \in Ops /\ k.store \in SUBSET Nodes /\ X!Readable(k, rec.rest) \in SUBSET Nodes
    BY ReadableAreQuiet DEF Follows, Base, Ops, Ground, Canvases
  <2>4. Alike(q, rec) /\ q.stage = "seedConnect" /\ q.cand = X!Readable(k, rec.rest)
    BY <2>1, <2>3 DEF Alike, Ops, Stages
  <2>5. Apt(q, cf)
    BY <2>4, ReadableAreQuiet DEF Apt
  <2> QED BY <2>2, <2>4, <2>5, Turns
<1> QED BY <1>1, <1>2

LEMMA SeedRings ==
  ASSUME NEW k, NEW cf, NEW ep, NEW sn, Ground(k, cf, ep, sn), NEW rec, Follows(rec, cf, ep, sn),
         rec.round \in {"first", "second", "more", "outer"}, NEW r \in X!SeedRing(k, rec)
  PROVE  Good(r, cf, ep, sn)
<1> DEFINE plan == IF rec.round = "more" /\ X!Room(k.store, hidden) = 0 THEN {} ELSE X!Readable(k, rec.cand) \ k.seeding.expanded
<1>1. rec \in Ops /\ rec.cand \in SUBSET Nodes
  BY DEF Follows, Base, Ops
<1>2. X!Quiet(plan) /\ plan \in SUBSET Nodes
  <2>1. plan \in SUBSET X!Readable(k, rec.cand)
    OBVIOUS
  <2> QED BY <1>1, <2>1, ReadableAreQuiet, QuietSubsets
<1>3. \/ r \in X!SeedConnect(k, rec, rec.cand)
      \/ rec.round # "outer" /\ r = X!Next1([rec EXCEPT !.stage = "ring", !.batch = plan])
      \/ r \in X!SeedConnect(k, [rec EXCEPT !.rest = rec.cand], {})
  BY DEF X!SeedRing
<1> HIDE DEF plan
<1>4. CASE r \in X!SeedConnect(k, rec, rec.cand)
  BY <1>1, <1>4, SeedConnects
<1>5. CASE rec.round # "outer" /\ r = X!Next1([rec EXCEPT !.stage = "ring", !.batch = plan])
  <2>1. PICK q : q = [rec EXCEPT !.stage = "ring", !.batch = plan]
    OBVIOUS
  <2>2. Alike(q, rec) /\ q.stage = "ring" /\ q.batch = plan /\ q.round = rec.round
    BY <1>1, <1>2, <2>1 DEF Alike, Ops, Stages
  <2>3. Apt(q, cf)
    BY <1>2, <1>5, <2>2 DEF Apt
  <2> QED BY <1>5, <2>1, <2>2, <2>3, Turns
<1>6. CASE r \in X!SeedConnect(k, [rec EXCEPT !.rest = rec.cand], {})
  <2>1. PICK q : q = [rec EXCEPT !.rest = rec.cand]
    OBVIOUS
  <2>2. Alike(q, rec)
    BY <1>1, <2>1 DEF Alike, Ops
  <2>3. Follows(q, cf, ep, sn)
    BY <2>2, Along
  <2> QED BY <1>6, <2>1, <2>3, SeedConnects
<1> QED BY <1>3, <1>4, <1>5, <1>6

LEMMA SeedCounts ==
  ASSUME NEW k, NEW cf, NEW ep, NEW sn, Ground(k, cf, ep, sn), NEW rec, Follows(rec, cf, ep, sn),
         rec.round \in {"first", "second", "more", "outer"}, NEW r \in X!SeedCount(k, rec)
  PROVE  Good(r, cf, ep, sn)
<1>1. CASE X!Countable(k, rec.cand) # {}
  <2>1. PICK q : q = [rec EXCEPT !.stage = "seedCount"]
    OBVIOUS
  <2>2. r = X!Next1(q) /\ rec \in Ops
    BY <1>1, <2>1 DEF X!SeedCount, Follows, Base
  <2>3. Alike(q, rec) /\ q.stage = "seedCount" /\ q.round = rec.round
    BY <2>1, <2>2 DEF Alike, Ops, Stages
  <2>4. Apt(q, cf)
    BY <2>3 DEF Apt
  <2> QED BY <2>2, <2>3, <2>4, Turns
<1>2. CASE X!Countable(k, rec.cand) = {}
  BY <1>2, SeedRings DEF X!SeedCount
<1> QED BY <1>1, <1>2

LEMMA SeedProbes ==
  ASSUME NEW k, NEW cf, NEW ep, NEW sn, Ground(k, cf, ep, sn), NEW rec, Follows(rec, cf, ep, sn),
         rec.round \in {"second", "more", "outer"}, NEW r \in X!SeedProbe(k, rec)
  PROVE  Good(r, cf, ep, sn)
<1> DEFINE todo == rec.cand \ k.seeding.sized
<1>1. rec \in Ops /\ todo \in SUBSET Nodes
  BY DEF Follows, Base, Ops
<1>2. CASE todo # {}
  <2>1. PICK q : q = [rec EXCEPT !.stage = "seedProbe", !.batch = todo]
    OBVIOUS
  <2>2. r = X!Next1(q)
    BY <1>2, <2>1 DEF X!SeedProbe
  <2> HIDE DEF todo
  <2>3. Alike(q, rec) /\ q.stage = "seedProbe" /\ q.round = rec.round
    BY <1>1, <2>1 DEF Alike, Ops, Stages
  <2>4. Apt(q, cf)
    BY <2>3 DEF Apt
  <2> QED BY <2>2, <2>3, <2>4, Turns
<1>3. CASE todo = {}
  BY <1>3, SeedCounts DEF X!SeedProbe
<1> QED BY <1>2, <1>3

LEMMA RingsDone ==
  ASSUME NEW k, NEW cf, NEW ep, NEW sn, Ground(k, cf, ep, sn), NEW rec, Follows(rec, cf, ep, sn),
         rec.round \in {"first", "second", "more"}, NEW added \in SUBSET Nodes, NEW r \in X!RingDone(k, rec, added)
  PROVE  Good(r, cf, ep, sn)
<1>1. rec \in Ops /\ rec.cand \in SUBSET Nodes
  BY DEF Follows, Base, Ops
<1>2. ASSUME NEW round \in {"second", "outer"},
             r \in X!SeedProbe(k, [rec EXCEPT !.round = round, !.cand = added, !.rest = rec.cand \cup added])
      PROVE  Good(r, cf, ep, sn)
  <2>1. PICK q : q = [rec EXCEPT !.round = round, !.cand = added, !.rest = rec.cand \cup added]
    OBVIOUS
  <2>2. rec.cand \cup added \in SUBSET Nodes
    BY <1>1
  <2>3. Alike(q, rec) /\ q.round = round
    BY <1>1, <2>1, <2>2 DEF Alike, Ops
  <2>4. Follows(q, cf, ep, sn)
    BY <2>3, Along
  <2> QED BY <1>2, <2>1, <2>3, <2>4, SeedProbes
<1>3. CASE rec.round = "first"
  <2>1. r \in X!SeedProbe(k, [rec EXCEPT !.round = "second", !.cand = added, !.rest = rec.cand \cup added])
    BY <1>3 DEF X!RingDone
  <2> QED BY <1>2, <2>1
<1>4. CASE rec.round = "more"
  <2>1. r \in X!SeedProbe(k, [rec EXCEPT !.round = "outer", !.cand = added, !.rest = rec.cand \cup added])
    BY <1>4 DEF X!RingDone
  <2> QED BY <1>2, <2>1
<1>5. CASE rec.round = "second"
  <2>1. PICK ring : ring = IF added = {} THEN rec.cand ELSE added
    OBVIOUS
  <2>2. r \in X!SeedConnect(k, rec, ring) /\ ring \in SUBSET Nodes
    BY <1>1, <1>5, <2>1 DEF X!RingDone
  <2> QED BY <2>2, SeedConnects
<1> QED BY <1>3, <1>4, <1>5

LEMMA Resumes ==
  ASSUME NEW k, NEW cf, NEW ep, NEW sn, Ground(k, cf, ep, sn), NEW rec, Follows(rec, cf, ep, sn), NEW r \in X!Resume(k, rec)
  PROVE  Good(r, cf, ep, sn)
<1>1. /\ rec \in Ops /\ rec.batch \in SUBSET Nodes /\ rec.queue \in SUBSET X!Sides /\ rec.sides \in SUBSET X!Sides
      /\ rec.from \in Marks /\ rec.tries \in Nat /\ Base(rec, ep, sn)
  BY DEF Follows, Base, Ops
<1>2. CASE rec.kind = "expand" /\ ~(rec.tries > 1) /\ rec.queue # {}
  <2>1. PICK s \in rec.queue : r = X!Next1([X!PageOf(k, rec, {s}, rec.queue \ {s}) EXCEPT !.from = rec.from])
    BY <1>2 DEF X!Resume
  <2>2. PICK pg : pg = X!PageOf(k, rec, {s}, rec.queue \ {s})
    OBVIOUS
  <2>3. {s} \in SUBSET X!Sides /\ rec.queue \ {s} \in SUBSET X!Sides /\ Chosen(rec.node, {s} \cup (rec.queue \ {s}), cf)
    BY <1>1, <1>2 DEF Follows, Chosen
  <2>4. OpFits(pg, cf, ep, sn)
    BY <1>1, <1>2, <2>2, <2>3, PageOfFits DEF Ground
  <2>5. pg.kind = "expand" /\ pg.stage = "page" /\ pg.live /\ pg.node = rec.node
    BY <1>1, <1>2, <2>2 DEF X!PageOf, Ops, Base
  <2>6. Follows(pg, cf, ep, sn)
    BY <2>4, <2>5 DEF OpFits, Staged, Follows
  <2>7. PICK q : q = [pg EXCEPT !.from = rec.from]
    OBVIOUS
  <2>8. /\ q \in Ops /\ q.kind = pg.kind /\ q.node = pg.node /\ q.sides = pg.sides /\ q.queue = pg.queue /\ q.stage = "page"
        /\ q.from = rec.from /\ q.live = pg.live /\ q.epoch = pg.epoch
    <3>1. pg \in Ops
      BY <2>4 DEF OpFits
    <3> QED BY <1>1, <2>5, <2>7, <3>1 DEF Ops
  <2>9. Base(q, ep, sn) /\ Staged(q, cf)
    BY <1>1, <1>2, <2>5, <2>6, <2>8 DEF Base, Follows, Staged, Apt
  <2>10. OpFits(q, cf, ep, sn)
    BY <2>9, LiveFits DEF Ground
  <2>11. r = X!Next1(q)
    BY <2>1, <2>2, <2>7
  <2> QED BY <2>10, <2>11, Outcomes DEF Ground
<1>3. CASE rec.kind = "expand" /\ rec.tries > 1
  <2>1. PICK q : q = [rec EXCEPT !.stage = "page", !.tries = @ - 1]
    OBVIOUS
  <2>2. r = X!Next1(q)
    BY <1>3, <2>1 DEF X!Resume
  <2>3. rec.tries - 1 \in Nat
    BY <1>1, <1>3 DEF Ops
  <2>4. Alike(q, rec) /\ q.stage = "page" /\ q.kind = "expand"
    BY <1>1, <1>3, <2>1, <2>3 DEF Alike, Ops, Stages
  <2>5. Apt(q, cf)
    BY <2>4 DEF Apt
  <2> QED BY <2>2, <2>4, <2>5, Turns
<1>4. CASE rec.kind # "expand" /\ rec.round = "first"
  <2>1. PICK q : q = [rec EXCEPT !.cand = rec.batch, !.batch = {}]
    OBVIOUS
  <2>2. r \in X!SeedCount(k, q)
    BY <1>4, <2>1 DEF X!Resume
  <2>3. Alike(q, rec) /\ q.round = "first"
    BY <1>1, <1>4, <2>1 DEF Alike, Ops
  <2>4. Follows(q, cf, ep, sn)
    BY <2>3, Along
  <2> QED BY <2>2, <2>3, <2>4, SeedCounts
<1>5. CASE IF rec.kind = "expand" THEN ~(~(rec.tries > 1) /\ rec.queue # {}) /\ ~(rec.tries > 1) ELSE rec.round # "first"
  <2>1. r \in X!Ended
    BY <1>5 DEF X!Resume
  <2> QED BY <2>1, GroundEnds
<1> QED BY <1>2, <1>3, <1>4, <1>5

LEMMA PlansWell ==
  ASSUME NEW k, NEW cf, NEW ep, NEW sn, Ground(k, cf, ep, sn), NEW rec, Follows(rec, cf, ep, sn), NEW r \in X!Plan(k, rec)
  PROVE  Good(r, cf, ep, sn)
<1> DEFINE all == X!Present(k, rec.cand)
           small == X!Costed(k, all)
           rest == all \ small
<1>1. rec \in Ops /\ k.store \in SUBSET Nodes /\ all \in SUBSET Nodes /\ rest \in SUBSET Nodes /\ small \in SUBSET Nodes
  BY CostedAreMild DEF Follows, Base, Ops, X!Present, Ground, Canvases
<1>2. Mild(small, cf)
  BY CostedAreMild DEF Ground
<1>3. \/ \E b \in X!Firsts(small) :
           IF b = {} THEN \E e \in X!Resume(k, rec) : r = [e EXCEPT !.offer = all]
           ELSE /\ rec.mode = "auto"
                /\ r = [X!Next1([rec EXCEPT !.stage = "connect", !.cand = b, !.with = k.store]) EXCEPT !.offer = all \ b]
      \/ \E b \in X!Firsts(small) :
           /\ rec.mode # "auto"
           /\ r = X!Next1([rec EXCEPT !.stage = "connect", !.cand = b, !.batch = small \ b, !.rest = rest, !.with = k.store])
      \/ \E n \in rest :
           /\ rec.mode = "confirmed"
           /\ r = X!Next1([rec EXCEPT !.stage = "connect", !.cand = {n}, !.batch = {}, !.rest = rest \ {n}, !.with = k.store])
      \/ \E e \in X!Ended : r = [e EXCEPT !.large = rest]
  <2>1. CASE rec.mode = "auto"
    <3>1. \E b \in X!Firsts(small) :
            r \in (IF b = {} THEN {[e EXCEPT !.offer = all] : e \in X!Resume(k, rec)}
                  ELSE {[X!Next1([rec EXCEPT !.stage = "connect", !.cand = b, !.with = k.store]) EXCEPT !.offer = all \ b]})
      BY <2>1 DEF X!Plan
    <3> HIDE DEF all, small
    <3>2. PICK b \in X!Firsts(small) :
            r \in (IF b = {} THEN {[e EXCEPT !.offer = all] : e \in X!Resume(k, rec)}
                  ELSE {[X!Next1([rec EXCEPT !.stage = "connect", !.cand = b, !.with = k.store]) EXCEPT !.offer = all \ b]})
      BY <3>1
    <3>3. CASE b = {}
      <4>1. \E e \in X!Resume(k, rec) : r = [e EXCEPT !.offer = all]
        BY <3>2, <3>3
      <4> QED BY <3>3, <4>1
    <3>4. CASE b # {}
      BY <2>1, <3>2, <3>4
    <3> QED BY <3>3, <3>4
  <2>2. CASE rec.mode # "auto" /\ small # {}
    BY <2>2 DEF X!Plan
  <2>3. CASE rec.mode # "auto" /\ small = {}
    <3>1. \/ rec.mode = "confirmed" /\ r \in {X!Next1([rec EXCEPT !.stage = "connect", !.cand = {n}, !.batch = {}, !.rest = rest \ {n}, !.with = k.store]) : n \in rest}
          \/ r \in {[e EXCEPT !.large = rest] : e \in X!Ended}
      BY <2>3 DEF X!Plan
    <3> HIDE DEF all, small, rest
    <3> QED BY <3>1
  <2> QED BY <2>1, <2>2, <2>3
<1> HIDE DEF all, rest
<1>4. \A b \in X!Firsts(small) : b \in SUBSET Nodes /\ Mild(b, cf) /\ Mild(small \ b, cf)
  BY <1>1, <1>2, FirstsAreSome, MildSubsets
<1> HIDE DEF small
<1>5. ASSUME NEW b \in X!Firsts(small), NEW e \in X!Resume(k, rec), r = [e EXCEPT !.offer = all]
      PROVE  Good(r, cf, ep, sn)
  <2>1. Good(e, cf, ep, sn) /\ OpFits(e.op, cf, ep, sn)
    BY Resumes DEF Good
  <2> QED BY <1>1, <1>5, <2>1, OutcomesWith
<1>6. ASSUME NEW b \in X!Firsts(small), rec.mode = "auto",
             r = [X!Next1([rec EXCEPT !.stage = "connect", !.cand = b, !.with = k.store]) EXCEPT !.offer = all \ b]
      PROVE  Good(r, cf, ep, sn)
  <2>1. PICK q : q = [rec EXCEPT !.stage = "connect", !.cand = b, !.with = k.store]
    OBVIOUS
  <2>2. Alike(q, rec) /\ q.stage = "connect" /\ q.cand = b /\ q.mode = "auto"
    BY <1>1, <1>4, <1>6, <2>1 DEF Alike, Ops, Stages
  <2>3. Apt(q, cf)
    BY <1>4, <2>2 DEF Apt
  <2>4. Good(X!Next1(q), cf, ep, sn) /\ OpFits(X!Next1(q).op, cf, ep, sn) /\ all \ b \in SUBSET Nodes
    BY <1>1, <2>2, <2>3, Turns DEF Good
  <2> QED BY <1>6, <2>1, <2>4, OutcomesWith
<1>7. ASSUME NEW b \in X!Firsts(small), rec.mode # "auto",
             r = X!Next1([rec EXCEPT !.stage = "connect", !.cand = b, !.batch = small \ b, !.rest = rest, !.with = k.store])
      PROVE  Good(r, cf, ep, sn)
  <2>1. PICK q : q = [rec EXCEPT !.stage = "connect", !.cand = b, !.batch = small \ b, !.rest = rest, !.with = k.store]
    OBVIOUS
  <2>2. small \ b \in SUBSET Nodes
    BY <1>1
  <2>3. Alike(q, rec) /\ q.stage = "connect" /\ q.cand = b /\ q.batch = small \ b
    BY <1>1, <1>4, <2>1, <2>2 DEF Alike, Ops, Stages
  <2>4. Apt(q, cf)
    BY <1>4, <2>3 DEF Apt
  <2> QED BY <1>7, <2>1, <2>3, <2>4, Turns
<1>8. ASSUME NEW n \in rest, rec.mode = "confirmed",
             r = X!Next1([rec EXCEPT !.stage = "connect", !.cand = {n}, !.batch = {}, !.rest = rest \ {n}, !.with = k.store])
      PROVE  Good(r, cf, ep, sn)
  <2>1. PICK q : q = [rec EXCEPT !.stage = "connect", !.cand = {n}, !.batch = {}, !.rest = rest \ {n}, !.with = k.store]
    OBVIOUS
  <2>2. rest \ {n} \in SUBSET Nodes /\ {n} \in SUBSET Nodes
    BY <1>1
  <2>3. Alike(q, rec) /\ q.stage = "connect" /\ q.mode = "confirmed"
    BY <1>1, <1>8, <2>1, <2>2 DEF Alike, Ops, Stages
  <2>4. Apt(q, cf)
    BY <2>3 DEF Apt
  <2> QED BY <1>8, <2>1, <2>3, <2>4, Turns
<1>9. ASSUME NEW e \in X!Ended, r = [e EXCEPT !.large = rest] PROVE Good(r, cf, ep, sn)
  <2>1. Good(e, cf, ep, sn) /\ OpFits(e.op, cf, ep, sn)
    BY GroundEnds DEF Good
  <2> QED BY <1>1, <1>9, <2>1, OutcomesWith
<1> QED BY <1>3, <1>5, <1>6, <1>7, <1>8, <1>9

LEMMA CountsWell ==
  ASSUME NEW k, NEW cf, NEW ep, NEW sn, Ground(k, cf, ep, sn), NEW rec, Follows(rec, cf, ep, sn), NEW r \in X!CountNext(k, rec)
  PROVE  Good(r, cf, ep, sn)
<1>1. r \in X!Plan(k, rec) \/ r = X!Next1([rec EXCEPT !.stage = "count"])
  BY DEF X!CountNext
<1>2. CASE r \in X!Plan(k, rec)
  BY <1>2, PlansWell
<1>3. CASE r = X!Next1([rec EXCEPT !.stage = "count"])
  <2>1. PICK q : q = [rec EXCEPT !.stage = "count"]
    OBVIOUS
  <2>2. Alike(q, rec) /\ q.stage = "count"
    BY <2>1 DEF Alike, Ops, Stages, Follows, Base
  <2>3. Apt(q, cf)
    BY <2>2 DEF Apt
  <2> QED BY <1>3, <2>1, <2>2, <2>3, Turns
<1> QED BY <1>1, <1>2, <1>3

LEMMA ProbesWell ==
  ASSUME NEW k, NEW cf, NEW ep, NEW sn, Ground(k, cf, ep, sn), NEW rec, Follows(rec, cf, ep, sn), NEW r \in X!ProbeNext(k, rec)
  PROVE  Good(r, cf, ep, sn)
<1>1. r \in X!CountNext(k, rec) \/ r = X!Next1([rec EXCEPT !.stage = "probe"])
  BY DEF X!ProbeNext
<1>2. CASE r \in X!CountNext(k, rec)
  BY <1>2, CountsWell
<1>3. CASE r = X!Next1([rec EXCEPT !.stage = "probe"])
  <2>1. PICK q : q = [rec EXCEPT !.stage = "probe"]
    OBVIOUS
  <2>2. Alike(q, rec) /\ q.stage = "probe"
    BY <2>1 DEF Alike, Ops, Stages, Follows, Base
  <2>3. Apt(q, cf)
    BY <2>2 DEF Apt
  <2> QED BY <1>3, <2>1, <2>2, <2>3, Turns
<1> QED BY <1>1, <1>2, <1>3

LEMMA ConnectsWell ==
  ASSUME NEW k, NEW cf, NEW ep, NEW sn, Ground(k, cf, ep, sn), NEW rec, Follows(rec, cf, ep, sn), NEW added,
         NEW r \in X!ConnectNew(k, rec, added)
  PROVE  Good(r, cf, ep, sn)
<1>1. PICK q : q = [rec EXCEPT !.cand = X!Present(k, added)]
  OBVIOUS
<1>2. r \in X!Resume(k, rec) \/ r \in X!Plan(k, q) \/ r \in X!ProbeNext(k, q)
  BY <1>1 DEF X!ConnectNew
<1>3. Alike(q, rec)
  <2>1. X!Present(k, added) \in SUBSET Nodes /\ rec \in Ops
    BY DEF X!Present, Ground, Canvases, Follows, Base
  <2> QED BY <1>1, <2>1 DEF Alike, Ops
<1>4. Follows(q, cf, ep, sn)
  BY <1>3, Along
<1> QED BY <1>2, <1>4, Resumes, PlansWell, ProbesWell

LEMMA BatchesWell ==
  ASSUME NEW cf, NEW ep, NEW sn, Ground(X!Canvas, cf, ep, sn), store \in SUBSET Nodes,
         NEW rec, OpFits(rec, cf, ep, sn), Follows(rec, cf, ep, sn), rec.stage = "connect", NEW r \in X!NextBatch(rec)
  PROVE  Good(r, cf, ep, sn)
<1>1. rec \in Ops /\ rec.batch \in SUBSET Nodes /\ rec.rest \in SUBSET Nodes /\ rec.live /\ rec.mode \in {"auto", "explicit", "confirmed"}
  BY DEF Follows, Base, Ops
<1>2. rec.mode = "explicit" => Mild(rec.batch, cf)
  BY <1>1 DEF OpFits, Follows, Base, Staged, Apt
<1>3. \/ rec.mode = "auto" /\ r \in X!Resume(X!Canvas, rec)
      \/ /\ rec.mode # "auto"
         /\ \E b \in X!Firsts(rec.batch) : r = X!Next1([rec EXCEPT !.cand = b, !.batch = @ \ b, !.with = store])
      \/ /\ rec.mode = "confirmed"
         /\ \E n \in rec.rest : r = X!Next1([rec EXCEPT !.cand = {n}, !.rest = @ \ {n}, !.with = store])
      \/ \E e \in X!Ended : r = [e EXCEPT !.large = IF rec.mode = "explicit" THEN rec.rest \cap store ELSE {}]
  BY <1>1 DEF X!NextBatch
<1>4. CASE rec.mode = "auto" /\ r \in X!Resume(X!Canvas, rec)
  BY <1>4, Resumes
<1>5. ASSUME rec.mode # "auto", NEW b \in X!Firsts(rec.batch), r = X!Next1([rec EXCEPT !.cand = b, !.batch = @ \ b, !.with = store])
      PROVE  Good(r, cf, ep, sn)
  <2>1. PICK q : q = [rec EXCEPT !.cand = b, !.batch = @ \ b, !.with = store]
    OBVIOUS
  <2>2. b \subseteq rec.batch /\ rec.batch \ b \in SUBSET Nodes
    BY <1>1, FirstsAreSome
  <2>3. Alike(q, rec) /\ q.stage = "connect" /\ q.cand = b /\ q.batch = rec.batch \ b /\ q.mode = rec.mode
    BY <1>1, <2>1, <2>2 DEF Alike, Ops
  <2>4. rec.mode = "explicit" => Mild(b, cf) /\ Mild(rec.batch \ b, cf)
    BY <1>2, <2>2, MildSubsets
  <2>5. Apt(q, cf)
    BY <1>1, <1>5, <2>3, <2>4 DEF Apt
  <2> QED BY <1>5, <2>1, <2>3, <2>5, Turns
<1>6. ASSUME rec.mode = "confirmed", NEW n \in rec.rest, r = X!Next1([rec EXCEPT !.cand = {n}, !.rest = @ \ {n}, !.with = store])
      PROVE  Good(r, cf, ep, sn)
  <2>1. PICK q : q = [rec EXCEPT !.cand = {n}, !.rest = @ \ {n}, !.with = store]
    OBVIOUS
  <2>2. {n} \in SUBSET Nodes /\ rec.rest \ {n} \in SUBSET Nodes
    BY <1>1
  <2>3. Alike(q, rec) /\ q.stage = "connect" /\ q.mode = "confirmed"
    BY <1>1, <1>6, <2>1, <2>2 DEF Alike, Ops
  <2>4. Apt(q, cf)
    BY <2>3 DEF Apt
  <2> QED BY <1>6, <2>1, <2>3, <2>4, Turns
<1>7. ASSUME NEW e \in X!Ended, r = [e EXCEPT !.large = IF rec.mode = "explicit" THEN rec.rest \cap store ELSE {}]
      PROVE  Good(r, cf, ep, sn)
  <2>1. PICK lg : lg = IF rec.mode = "explicit" THEN rec.rest \cap store ELSE {}
    OBVIOUS
  <2>2. lg \in SUBSET Nodes /\ Good(e, cf, ep, sn) /\ OpFits(e.op, cf, ep, sn)
    BY <1>1, <2>1, GroundEnds DEF Good
  <2> QED BY <1>7, <2>1, <2>2, OutcomesWith
<1> QED BY <1>3, <1>4, <1>5, <1>6, <1>7

-----------------------------------------------------------------------------
(* The canvas keeps its cap, whatever is merged or taken away. *)

CanvasFits(st, ed, hid) ==
  /\ st \in SUBSET Nodes /\ Cardinality(st) <= Cap /\ hid \in SUBSET st
  /\ ed \in SUBSET X!EdgeIds /\ \A e \in ed : X!Ends(e) \in SUBSET st

LEMMA Finite ==
  ASSUME X!ExplorerConstants
  PROVE  /\ \A W \in SUBSET Nodes : IsFiniteSet(W) /\ Cardinality(W) \in Nat
         /\ \A W \in SUBSET X!EdgeIds : IsFiniteSet(W) /\ Cardinality(W) \in Nat
         /\ Cap \in Nat \ {0} /\ Limit \in Nat \ {0} /\ PageSize \in Nat \ {0} /\ MaxRequests \in Nat \ {0} /\ MaxAsks \in Nat
         /\ \A e \in X!EdgeIds : Src[e] \in Nodes /\ Dst[e] \in Nodes /\ X!Ends(e) \in SUBSET Nodes
<1>1. IsFiniteSet(Nodes) /\ IsFiniteSet(X!EdgeIds)
  BY DEF X!ExplorerConstants, X!IsFiniteSet, IsFiniteSet
<1>2. \A W \in SUBSET Nodes : IsFiniteSet(W) /\ Cardinality(W) \in Nat
  BY <1>1, FS_Subset, FS_CardinalityType
<1>3. \A W \in SUBSET X!EdgeIds : IsFiniteSet(W) /\ Cardinality(W) \in Nat
  BY <1>1, FS_Subset, FS_CardinalityType
<1>4. Cap \in Nat \ {0} /\ Limit \in Nat \ {0} /\ PageSize \in Nat \ {0} /\ MaxRequests \in Nat \ {0} /\ MaxAsks \in Nat
  BY DEF X!ExplorerConstants
<1>5. \A e \in X!EdgeIds : Src[e] \in Nodes /\ Dst[e] \in Nodes /\ X!Ends(e) \in SUBSET Nodes
  BY DEF X!ExplorerConstants, X!Ends
<1> QED BY <1>2, <1>3, <1>4, <1>5

\* What a merge, or a removal, leaves of the canvas.
Fitting(m) == m.store \in SUBSET Nodes /\ Cardinality(m.store) <= Cap /\ m.added \in SUBSET Nodes

LEMMA MergedFits ==
  ASSUME X!ExplorerConstants, CanvasFits(store, edges, hidden), NEW ns \in SUBSET Nodes, NEW m \in X!Merged(ns)
  PROVE  Fitting(m)
<1>1. PICK gone \in SUBSET store, new \in SUBSET (ns \ store) :
        /\ m = [store |-> (store \ gone) \cup new, added |-> new, gone |-> gone]
        /\ Cardinality(new) = IF Cap - Cardinality(store \ gone) < Cardinality(ns \ store)
                              THEN Cap - Cardinality(store \ gone) ELSE Cardinality(ns \ store)
  BY Counts DEF X!Merged, X!kSubset
<1>2. store \ gone \in SUBSET Nodes /\ new \in SUBSET Nodes /\ ns \ store \in SUBSET Nodes
  BY DEF CanvasFits
<1>3. /\ IsFiniteSet(store \ gone) /\ IsFiniteSet(new) /\ Cardinality(store \ gone) \in Nat /\ Cardinality(new) \in Nat
      /\ Cardinality(ns \ store) \in Nat /\ Cap \in Nat
  BY <1>2, Finite
<1>4. (store \ gone) \cap new = {} /\ Cardinality({}) = 0
  BY FS_EmptySet
<1>5. Cardinality((store \ gone) \cup new) = Cardinality(store \ gone) + Cardinality(new)
  <2>1. PICK left : left = store \ gone
    OBVIOUS
  <2>2. IsFiniteSet(left) /\ IsFiniteSet(new) /\ left \cap new = {}
    BY <1>3, <1>4, <2>1
  <2>3. Cardinality(left \cup new) = Cardinality(left) + Cardinality(new) - Cardinality(left \cap new)
    BY <2>2, FS_Union
  <2>4. Cardinality(left \cap new) = 0
    BY <1>4, <2>2
  <2>5. Cardinality(left \cup new) = Cardinality(left) + Cardinality(new)
    BY <1>3, <2>1, <2>3, <2>4
  <2> QED BY <2>1, <2>5
<1>6. Cardinality(new) <= Cap - Cardinality(store \ gone)
  BY <1>1, <1>3
<1>7. m.store = (store \ gone) \cup new /\ m.added = new
  BY <1>1
<1>8. Cardinality(m.store) <= Cap
  BY <1>3, <1>5, <1>6, <1>7
<1> QED BY <1>2, <1>7, <1>8 DEF Fitting

LEMMA WithoutFits ==
  ASSUME X!ExplorerConstants, CanvasFits(store, edges, hidden), NEW ns
  PROVE  Fitting(X!Without(ns))
<1>1. store \ ns \in SUBSET Nodes /\ store \in SUBSET Nodes /\ store \ ns \in SUBSET store
  BY DEF CanvasFits
<1>2. Cardinality(store \ ns) <= Cardinality(store) /\ Cardinality(store \ ns) \in Nat /\ Cardinality(store) \in Nat /\ Cap \in Nat
  BY <1>1, Finite, FS_Subset
<1>3. X!Without(ns).store = store \ ns /\ X!Without(ns).added = {}
  BY DEF X!Without
<1> QED BY <1>1, <1>2, <1>3 DEF Fitting, CanvasFits

LEMMA KeptFits ==
  ASSUME X!ExplorerConstants, NEW sn, NEW cur \in [Nodes -> Marks], CursorsSeen(cur, sn), NEW m
  PROVE  X!Kept(cur, m) \in [Nodes -> Marks] /\ CursorsSeen(X!Kept(cur, m), sn)
<1>1. X!Fresh \in Marks /\ \A n \in Nodes : MarksSeen(n, X!Fresh, sn)
  BY Marked DEF MarksSeen, X!EdgesOf
<1>2. CASE m.gone = {}
  BY <1>2 DEF X!Kept
<1>3. CASE m.gone # {}
  <2>1. X!Kept(cur, m) = [n \in Nodes |-> IF n \in m.store THEN cur[n] ELSE X!Fresh]
    BY <1>3 DEF X!Kept
  <2>2. \A n \in Nodes : X!Kept(cur, m)[n] \in {cur[n], X!Fresh}
    BY <2>1
  <2>3. \A n \in Nodes : MarksSeen(n, X!Kept(cur, m)[n], sn)
    BY <1>1, <2>2 DEF CursorsSeen
  <2>4. X!Kept(cur, m) \in [Nodes -> Marks]
    BY <1>1, <2>1
  <2> QED BY <2>3, <2>4 DEF CursorsSeen
<1> QED BY <1>2, <1>3

LEMMA DrawnFits ==
  ASSUME CanvasFits(store, edges, hidden), NEW es \in SUBSET X!EdgeIds, NEW m, Fitting(m), NEW gone
  PROVE  CanvasFits(m.store, X!Drawn(es, m.store), (hidden \cap m.store) \ gone)
BY DEF CanvasFits, Fitting, X!Drawn

LEMMA PlaceFits ==
  ASSUME CanvasFits(store, edges, hidden), NEW es \in SUBSET X!EdgeIds, NEW m, Fitting(m), NEW cur, NEW ph, X!Place(m, es, cur, ph)
  PROVE  CanvasFits(store', edges', hidden') /\ cursors' = cur /\ phase' = ph
<1>1. CanvasFits(m.store, X!Drawn(es, m.store), (hidden \cap m.store) \ {})
  BY DrawnFits
<1>2. (hidden \cap m.store) \ {} = hidden \cap m.store
  OBVIOUS
<1> QED BY <1>1, <1>2 DEF X!Place

Phases == {"loading", "ready", "empty", "error"}
LEMMA RecoveredFits == ASSUME phase \in Phases, NEW added PROVE X!Recovered(added) \in Phases
BY DEF X!Recovered, Phases

-----------------------------------------------------------------------------
(* Operations in their slots. *)

OpsFit(cf, ep, sn, ops) == ops \in [Slots -> Ops] /\ \A o \in Slots : OpFits(ops[o], cf, ep, sn)

\* What one may be read for, the other is too.
Wider(cf, cf2) == cf.chosen \subseteq cf2.chosen /\ cf.thin \subseteq cf2.thin

LEMMA StillFits ==
  ASSUME NEW cf, NEW cf2, Wider(cf, cf2), NEW ep, NEW sn, NEW sn2, sn \subseteq sn2, NEW rec, OpFits(rec, cf, ep, sn)
  PROVE  OpFits(rec, cf2, ep, sn2)
<1>1. rec.kind # "idle" /\ rec.live /\ Base(rec, ep, sn) => Base(rec, ep, sn2)
  BY DEF Base, MarksSeen
<1>2. Staged(rec, cf) => Staged(rec, cf2)
  BY DEF Staged, Chosen, Apt, Mild, Wider
<1> QED BY <1>1, <1>2 DEF OpFits

LEMMA OpsStillFit ==
  ASSUME NEW cf, NEW cf2, Wider(cf, cf2), NEW ep, NEW sn, NEW ops, OpsFit(cf, ep, sn, ops)
  PROVE  OpsFit(cf2, ep, sn, ops)
BY StillFits DEF OpsFit

LEMMA SlotsFit ==
  ASSUME NEW cf, NEW ep, NEW sn, NEW ops, OpsFit(cf, ep, sn, ops), NEW o \in Slots, NEW rec, OpFits(rec, cf, ep, sn)
  PROVE  OpsFit(cf, ep, sn, [ops EXCEPT ![o] = rec])
<1>1. PICK f : f = [ops EXCEPT ![o] = rec]
  OBVIOUS
<1>2. f \in [Slots -> Ops] /\ \A p \in Slots : f[p] = IF p = o THEN rec ELSE ops[p]
  BY <1>1 DEF OpsFit, OpFits
<1> QED BY <1>1, <1>2 DEF OpsFit

LEMMA GoesWell ==
  ASSUME NEW cf, NEW ep, NEW sn, OpsFit(cf, ep, sn, op), NEW o \in Slots, NEW r, Good(r, cf, ep, sn),
         NEW s \in Seedings, offer \in SUBSET Nodes, large \in SUBSET Nodes, X!Goes(o, r, s)
  PROVE  /\ OpsFit(cf, ep, sn, op') /\ offer' \in SUBSET Nodes /\ large' \in SUBSET Nodes /\ seeding' \in Seedings
         /\ \A q \in Slots : q # o /\ op[q].kind # "idle" => op'[q] = op[q]
<1>1. r \in Outs /\ OpFits(r.op, cf, ep, sn) /\ OpFits(r.spawn, cf, ep, sn) /\ op \in [Slots -> Ops]
  BY DEF Good, OpsFit
<1>2. offer' \in SUBSET Nodes /\ large' \in SUBSET Nodes
  BY <1>1 DEF X!Goes, Outs
<1>3. seeding' \in Seedings
  <2>1. seeding' = [s EXCEPT !.frontier = r.ring] /\ r.ring \in SUBSET Nodes
    BY <1>1 DEF X!Goes, Outs
  <2> QED BY <2>1 DEF Seedings
<1>4. PICK ops : ops = [op EXCEPT ![o] = r.op]
  OBVIOUS
<1>5. OpsFit(cf, ep, sn, ops)
  BY <1>1, <1>4, SlotsFit
<1>6. CASE op' = ops
  BY <1>1, <1>2, <1>3, <1>4, <1>5, <1>6 DEF OpsFit
<1>7. CASE op' # ops
  <2>1. PICK p \in Slots \ {o} : op[p].kind = "idle" /\ op' = [op EXCEPT ![o] = r.op, ![p] = r.spawn]
    BY <1>4, <1>7 DEF X!Goes
  <2>2. op' = [ops EXCEPT ![p] = r.spawn]
    BY <1>1, <1>4, <2>1
  <2>3. OpsFit(cf, ep, sn, op')
    <3>1. PICK q : q = r.spawn
      OBVIOUS
    <3>2. OpFits(q, cf, ep, sn) /\ p \in Slots
      BY <1>1, <3>1
    <3>3. OpsFit(cf, ep, sn, [ops EXCEPT ![p] = q])
      BY <1>5, <3>2, SlotsFit
    <3> QED BY <2>2, <3>1, <3>3
  <2>4. \A q \in Slots : q # o /\ q # p => op'[q] = op[q]
    BY <1>1, <2>1
  <2> QED BY <1>2, <1>3, <2>1, <2>3, <2>4
<1> QED BY <1>6, <1>7

\* An operation the user starts.
LEMMA Begins ==
  ASSUME X!ExplorerConstants, epoch \in Nat, NEW kind \in OpKinds, NEW stage \in Stages, NEW key \in Keys
  PROVE  /\ X!Start(kind, stage, key) \in Ops /\ X!Start(kind, stage, key).kind = kind
         /\ X!Start(kind, stage, key).stage = stage /\ X!Start(kind, stage, key).live
         /\ X!Start(kind, stage, key).epoch = epoch /\ X!Start(kind, stage, key).from = X!Fresh
         /\ X!Start(kind, stage, key).queue = {} /\ X!Start(kind, stage, key).mode = "auto"
<1>1. PICK q : q = X!Start(kind, stage, key)
  OBVIOUS
<1>2. X!Idle \in Ops
  BY IdleFits DEF OpFits
<1>3. X!Idle.live /\ X!Idle.from = X!Fresh /\ X!Idle.queue = {} /\ X!Idle.mode = "auto"
  BY DEF X!Idle
<1>4. PICK idle : idle = X!Idle
  OBVIOUS
<1>5. q = [idle EXCEPT !.kind = kind, !.stage = stage, !.key = key, !.epoch = epoch] /\ idle \in Ops
  BY <1>1, <1>2, <1>4 DEF X!Start
<1>6. /\ q \in Ops /\ q.kind = kind /\ q.stage = stage /\ q.epoch = epoch /\ q.live = idle.live /\ q.from = idle.from
      /\ q.queue = idle.queue /\ q.mode = idle.mode
  BY <1>5 DEF Ops
<1> QED BY <1>1, <1>3, <1>4, <1>6

\* One of no node: it follows its check.
LEMMA Started ==
  ASSUME X!ExplorerConstants, epoch \in Nat, NEW cf, NEW sn, NEW q, q \in Ops, q.kind \notin {"idle", "expand"}, q.live, q.epoch = epoch
  PROVE  Follows(q, cf, epoch, sn)
BY DEF Follows, Base

-----------------------------------------------------------------------------
(* A page returns the first edges of a side past its mark, and where the side *)
(* stands after it leaves none of them out.                                  *)

LEMMA PageHolds ==
  ASSUME NEW rec, NEW s \in rec.sides
  PROVE  /\ X!SidePage(rec, s) \subseteq X!Past(rec, s) /\ X!Past(rec, s) \subseteq X!EdgesOf(rec.node, s)
         /\ X!SidePage(rec, s) \subseteq X!PageEdges(rec) \cap X!EdgesOf(rec.node, s)
         /\ X!PageEdges(rec) \subseteq X!EdgeIds /\ X!EdgesOf(rec.node, s) \subseteq X!EdgeIds
         /\ \A t \in rec.sides : X!EdgesOf(rec.node, t) \subseteq X!EdgeIds
<1>1. X!SidePage(rec, s) \subseteq X!Past(rec, s) /\ X!Past(rec, s) \subseteq X!EdgesOf(rec.node, s)
  BY DEF X!SidePage, X!Past
<1>2. \A t : X!EdgesOf(rec.node, t) \subseteq X!EdgeIds /\ X!SidePage(rec, t) \subseteq X!EdgeIds
  BY DEF X!EdgesOf, X!SidePage, X!Past
<1>3. X!PageEdges(rec) = UNION {X!SidePage(rec, t) : t \in rec.sides}
  BY DEF X!PageEdges
<1>4. X!PageEdges(rec) \subseteq X!EdgeIds
  BY <1>2, <1>3
<1>5. X!SidePage(rec, s) \subseteq X!PageEdges(rec)
  BY <1>3
<1> QED BY <1>1, <1>2, <1>4, <1>5

\* Without loops, what the page returned of a side is that side's page.
LEMMA PageOfSide ==
  ASSUME NoLoops, NEW rec, rec.sides \in SUBSET X!Sides, NEW s \in rec.sides
  PROVE  X!PageEdges(rec) \cap X!EdgesOf(rec.node, s) = X!SidePage(rec, s)
<1>1. SUFFICES ASSUME NEW e \in X!PageEdges(rec), e \in X!EdgesOf(rec.node, s) PROVE e \in X!SidePage(rec, s)
  BY PageHolds
<1>2. PICK t \in rec.sides : e \in X!SidePage(rec, t)
  BY <1>1 DEF X!PageEdges
<1>3. e \in X!EdgesOf(rec.node, t) /\ e \in X!EdgeIds
  BY <1>2, PageHolds
<1>4. CASE t # s
  <2>1. Src[e] = rec.node /\ Dst[e] = rec.node
    BY <1>1, <1>3, <1>4 DEF X!EdgesOf, X!Sides
  <2> QED BY <1>3, <2>1 DEF NoLoops
<1> QED BY <1>2, <1>4

LEMMA PageIsFirst ==
  ASSUME X!ExplorerConstants, NEW rec, NEW s \in rec.sides, NEW e \in X!Past(rec, s)
  PROVE  /\ e \in X!SidePage(rec, s) => \A f \in X!Past(rec, s) : f < e => f \in X!SidePage(rec, s)
         /\ e \notin X!SidePage(rec, s) => /\ Cardinality(X!SidePage(rec, s)) >= Limit
                                           /\ Cardinality(X!Past(rec, s)) > Limit
<1> DEFINE past == X!Past(rec, s)
           page == X!SidePage(rec, s)
           before(f) == {g \in past : g < f}
<1>1. past \in SUBSET X!EdgeIds /\ page \in SUBSET past
  BY PageHolds
<1>2. \A f \in past : f \in Nat
  BY <1>1, Marked
<1>3. \A f : f \in page <=> f \in past /\ Cardinality(before(f)) < Limit
  <2>1. \A f : X!Cardinality({g \in past : g < f}) = Cardinality(before(f))
    BY Counts
  <2> QED BY <2>1 DEF X!SidePage
<1>4. \A f : before(f) \in SUBSET past
  OBVIOUS
<1>5. \A W \in SUBSET past : IsFiniteSet(W) /\ Cardinality(W) \in Nat
  BY <1>1, Finite
<1>6. Limit \in Nat
  BY Finite
<1>7. \A f, g \in past : f < g => before(f) \in SUBSET before(g)
  BY <1>2
<1> HIDE DEF page, before
<1>8. ASSUME e \in page, NEW f \in past, f < e PROVE f \in page
  <2>1. before(f) \in SUBSET before(e) /\ IsFiniteSet(before(e)) /\ Cardinality(before(f)) \in Nat /\ Cardinality(before(e)) \in Nat
    BY <1>4, <1>5, <1>7, <1>8
  <2>2. Cardinality(before(f)) <= Cardinality(before(e))
    BY <2>1, FS_Subset
  <2> QED BY <1>3, <1>6, <1>8, <2>1, <2>2
<1>9. ASSUME e \notin page PROVE Cardinality(page) >= Limit /\ Cardinality(past) > Limit
  <2>1. PICK n \in past \ page : \A m \in past \ page : n <= m
    <3>1. past \ page \in SUBSET Nat /\ past \ page # {}
      BY <1>2, <1>9
    <3> QED BY <3>1, LeastOf
  <2>2. n \in past /\ n \in Nat /\ n \notin page /\ n \notin before(n)
    BY <1>2, <2>1 DEF before
  <2>3. before(n) \in SUBSET page
    <3>1. \A g \in before(n) : g \in past /\ g \in Nat /\ g < n
      BY <1>2 DEF before
    <3> QED BY <2>1, <2>2, <3>1
  <2>4. Cardinality(before(n)) \in Nat /\ Cardinality(before(n)) >= Limit
    BY <1>3, <1>4, <1>5, <1>6, <2>2
  <2>5. IsFiniteSet(page) /\ Cardinality(page) \in Nat /\ IsFiniteSet(past) /\ Cardinality(past) \in Nat
    BY <1>1, <1>5
  <2>6. Cardinality(before(n)) <= Cardinality(page)
    BY <2>3, <2>5, FS_Subset
  <2>7. Cardinality(past) > Limit
    <3>1. Cardinality(past \ {n}) = Cardinality(past) - 1 /\ IsFiniteSet(past \ {n})
      BY <2>2, <2>5, FS_RemoveElement
    <3>2. before(n) \in SUBSET (past \ {n})
      BY <1>4, <2>2
    <3>3. Cardinality(before(n)) <= Cardinality(past \ {n})
      BY <3>1, <3>2, FS_Subset
    <3> QED BY <1>6, <2>4, <2>5, <3>1, <3>3
  <2> QED BY <1>6, <2>4, <2>5, <2>6, <2>7
<1> QED BY <1>8, <1>9 DEF page

LEMMA SideCursors ==
  ASSUME X!ExplorerConstants, NEW rec, rec.from \in Marks, rec.sides \in SUBSET X!Sides, NEW s \in rec.sides
  PROVE  X!SideCursorAfter(rec, s) \in 0..X!Done
<1> DEFINE mine == X!PageEdges(rec) \cap X!EdgesOf(rec.node, s)
<1>1. mine \in SUBSET X!EdgeIds /\ IsFiniteSet(mine) /\ Cardinality(mine) \in Nat /\ Limit \in Nat \ {0}
  BY PageHolds, Finite
<1>2. mine \in SUBSET Nat /\ X!Done \in Nat /\ \A e \in mine : e < X!Done
  BY <1>1, Marked
<1>3. mine = {} => Cardinality(mine) < Limit
  BY <1>1, FS_EmptySet
<1>4. X!SideCursorAfter(rec, s) = X!Done \/ (~(Cardinality(mine) < Limit) /\ X!SideCursorAfter(rec, s) = X!Max(mine))
  BY Counts DEF X!SideCursorAfter
<1> HIDE DEF mine
<1>5. mine # {} => X!Max(mine) \in mine
  BY <1>1, <1>2, Greatest
<1>6. CASE X!SideCursorAfter(rec, s) = X!Done
  BY <1>2, <1>6
<1>7. CASE ~(Cardinality(mine) < Limit) /\ X!SideCursorAfter(rec, s) = X!Max(mine)
  <2>1. X!Max(mine) \in mine
    BY <1>3, <1>5, <1>7
  <2>2. X!Max(mine) \in Nat /\ X!Max(mine) < X!Done
    BY <1>2, <2>1
  <2> QED BY <1>2, <1>7, <2>2
<1> QED BY <1>4, <1>6, <1>7

LEMMA PageSkipsNone ==
  ASSUME X!ExplorerConstants, NoLoops, NEW sn, NEW rec, rec.from \in Marks, rec.sides \in SUBSET X!Sides,
         MarksSeen(rec.node, rec.from, sn), NEW s \in rec.sides,
         NEW e \in X!EdgesOf(rec.node, s), e <= X!SideCursorAfter(rec, s)
  PROVE  <<rec.node, e>> \in sn \cup {rec.node} \X X!PageEdges(rec)
<1> DEFINE page == X!SidePage(rec, s)
           past == X!Past(rec, s)
<1>1. /\ page \in SUBSET past /\ page \subseteq X!PageEdges(rec) /\ e \in X!EdgeIds /\ page \in SUBSET X!EdgeIds
      /\ past \in SUBSET X!EdgeIds
  BY PageHolds
<1>2. e \in Nat /\ rec.from[s] \in Nat /\ X!Done \in Nat
  <2>1. X!Done \in Nat /\ e \in Nat
    BY <1>1, Marked
  <2>2. rec.from[s] \in 0..X!Done
    BY DEF Marks
  <2> QED BY <2>1, <2>2
<1>3. e <= rec.from[s] => <<rec.node, e>> \in sn
  BY DEF MarksSeen
<1>4. ~(e <= rec.from[s]) => e \in past
  BY <1>1, <1>2 DEF X!Past
<1>5. X!PageEdges(rec) \cap X!EdgesOf(rec.node, s) = page
  BY PageOfSide
<1>6. IsFiniteSet(page) /\ Cardinality(page) \in Nat /\ Cardinality(past) \in Nat /\ Limit \in Nat \ {0} /\ page \in SUBSET Nat
  BY <1>1, Finite, Marked
<1>7. page # {} => X!Max(page) \in page /\ ~(X!Max(page) <= rec.from[s])
  <2>1. page # {} => X!Max(page) \in page
    BY <1>6, Greatest
  <2>2. \A f \in past : f > rec.from[s]
    BY DEF X!Past
  <2>3. \A f \in page : f \in Nat /\ f > rec.from[s]
    BY <1>1, <1>6, <2>2
  <2> QED BY <1>2, <2>1, <2>3
<1>8. Cardinality(page) >= Limit => page # {}
  BY <1>6, FS_EmptySet
<1>9. ~X!Truncated(rec) => Cardinality(past) <= Limit
  BY <1>6, Counts DEF X!Truncated
<1>10. X!SideCursorAfter(rec, s) = IF ~X!Truncated(rec) \/ Cardinality(page) < Limit \/ X!Max(page) <= rec.from[s]
                                   THEN X!Done ELSE X!Max(page)
  BY <1>5, Counts DEF X!SideCursorAfter
<1>11. CASE e \in past /\ (~X!Truncated(rec) \/ Cardinality(page) < Limit \/ X!Max(page) <= rec.from[s])
  <2>1. ~(Cardinality(page) >= Limit /\ Cardinality(past) > Limit)
    BY <1>6, <1>7, <1>8, <1>9, <1>11
  <2>2. e \in page
    BY <1>11, <2>1, PageIsFirst
  <2> QED BY <1>1, <2>2
<1>12. CASE e \in past /\ ~(~X!Truncated(rec) \/ Cardinality(page) < Limit \/ X!Max(page) <= rec.from[s])
  <2>1. e <= X!Max(page) /\ X!Max(page) \in page /\ X!Max(page) \in past /\ X!Max(page) \in Nat
    BY <1>1, <1>6, <1>7, <1>8, <1>10, <1>12
  <2>2. e \in page
    BY <1>2, <1>12, <2>1, PageIsFirst
  <2> QED BY <1>1, <2>2
<1> QED BY <1>3, <1>4, <1>11, <1>12

-----------------------------------------------------------------------------
(* The invariant, and what an action's step leaves to show. *)

CanvasInv ==
  /\ CanvasFits(store, edges, hidden)
  /\ cursors \in [Nodes -> Marks] /\ CursorsSeen(cursors, seen)
  /\ phase \in Phases
\* What makes a large side one to read now.
excuse == [chosen |-> confirmed, thin |-> thinned]
DegreesInv ==
  /\ degrees \in SUBSET Nodes /\ heavy \in SUBSET (degrees \X X!Sides) /\ thinned \in SUBSET Veiled
  /\ X!LargeSides(degrees) \subseteq heavy \cup thinned
SizesInv == probes \in SUBSET Nodes /\ counted \in SUBSET Nodes /\ DegreesInv
RestInv ==
  confirmed \in SUBSET X!NodeSides /\ warned \in [Nodes -> SUBSET X!Sides] /\ labelRows \in 0..X!AllRows
TrayInv == offer \in SUBSET Nodes /\ large \in SUBSET Nodes /\ seeding \in Seedings
RunsInv == OpsFit(excuse, epoch, seen, op)
ViewInv ==
  /\ X!ExplorerConstants /\ epoch \in Nat
  /\ CanvasInv /\ SizesInv /\ RestInv /\ TrayInv /\ RunsInv
\* The other operations go on as they were.
Apart(o) == \A q \in Slots : q # o /\ op[q].kind # "idle" => op'[q] = op[q]
Landed(o) == CanvasInv' /\ SizesInv' /\ RestInv' /\ TrayInv' /\ RunsInv' /\ Apart(o)

LEMMA Stays ==
  ASSUME ViewInv
  PROVE  /\ UNCHANGED X!canvas => CanvasInv' /\ UNCHANGED seen /\ UNCHANGED <<store, edges, hidden, cursors, phase>>
         /\ UNCHANGED X!sizes => SizesInv' /\ UNCHANGED <<probes, counted>> /\ UNCHANGED X!degree
         /\ UNCHANGED X!degree => DegreesInv'
         /\ UNCHANGED X!degree /\ confirmed' = confirmed => excuse' = excuse
         /\ UNCHANGED X!Rested => RestInv' /\ UNCHANGED <<warned, confirmed, epoch, labelRows>>
         /\ UNCHANGED <<offer, large, seeding>> => TrayInv'
         /\ UNCHANGED <<excuse, epoch, seen, op>> => RunsInv'
<1>1. UNCHANGED X!canvas => CanvasInv' /\ UNCHANGED seen /\ UNCHANGED <<store, edges, hidden, cursors, phase>>
  BY DEF X!canvas, CanvasInv, ViewInv
<1>2. UNCHANGED X!degree => DegreesInv'
  BY DEF X!degree, DegreesInv, SizesInv, ViewInv
<1>3. UNCHANGED X!Rested => RestInv' /\ UNCHANGED <<warned, confirmed, epoch, labelRows>>
  BY DEF X!Rested, RestInv, ViewInv
<1>4. UNCHANGED <<offer, large, seeding>> => TrayInv'
  BY DEF TrayInv, ViewInv
<1>5. UNCHANGED <<excuse, epoch, seen, op>> => RunsInv'
  BY DEF RunsInv, ViewInv
<1>6. UNCHANGED X!degree /\ confirmed' = confirmed => excuse' = excuse
  BY DEF X!degree, excuse
<1>7. UNCHANGED X!sizes => SizesInv' /\ UNCHANGED <<probes, counted>> /\ UNCHANGED X!degree
  BY <1>2 DEF X!sizes, X!degree, SizesInv, ViewInv
<1> QED BY <1>1, <1>2, <1>3, <1>4, <1>5, <1>6, <1>7

LEMMA Grounds ==
  ASSUME ViewInv, NEW st \in SUBSET Nodes, NEW P \in SUBSET Nodes, NEW Y \in SUBSET Nodes, NEW s \in Seedings,
         NEW sn, NEW cur \in [Nodes -> Marks], CursorsSeen(cur, sn),
         NEW k, k = [store |-> st, probes |-> P, counted |-> Y, degrees |-> degrees, heavy |-> heavy, cursors |-> cur, seeding |-> s]
  PROVE  Ground(k, excuse, epoch, sn)
<1>1. /\ X!ExplorerConstants /\ epoch \in Nat /\ seeding \in Seedings /\ degrees \in SUBSET Nodes
      /\ heavy \in SUBSET X!NodeSides
  BY DEF ViewInv, TrayInv, SizesInv, DegreesInv, X!NodeSides
<1>2. k \in Canvases /\ k.cursors = cur /\ k.degrees = degrees /\ k.heavy = heavy
  BY <1>1 DEF Canvases
<1>3. Known(k, excuse)
  BY <1>2 DEF Known, excuse, ViewInv, SizesInv, DegreesInv
<1> QED BY <1>1, <1>2, <1>3 DEF Ground

LEMMA GroundNow ==
  ASSUME ViewInv
  PROVE  /\ Ground(X!Canvas, excuse, epoch, seen) /\ store \in SUBSET Nodes
         /\ X!Canvas = [store |-> store, probes |-> probes, counted |-> counted, degrees |-> degrees, heavy |-> heavy, cursors |-> cursors, seeding |-> seeding]
<1>1. /\ store \in SUBSET Nodes /\ probes \in SUBSET Nodes /\ counted \in SUBSET Nodes /\ seeding \in Seedings
      /\ cursors \in [Nodes -> Marks] /\ CursorsSeen(cursors, seen)
  BY DEF ViewInv, CanvasInv, CanvasFits, SizesInv, TrayInv
<1>2. X!Canvas = [store |-> store, probes |-> probes, counted |-> counted, degrees |-> degrees, heavy |-> heavy, cursors |-> cursors, seeding |-> seeding]
  BY DEF X!Canvas
<1> QED BY <1>1, <1>2, Grounds

LEMMA Answering ==
  ASSUME ViewInv, NEW o \in Slots, op[o].live, op[o].stage # "none"
  PROVE  /\ op[o] \in Ops /\ op[o].kind # "idle" /\ Base(op[o], epoch, seen) /\ Staged(op[o], excuse)
         /\ OpFits(op[o], excuse, epoch, seen)
         /\ op[o].stage # "size" => Follows(op[o], excuse, epoch, seen)
<1>1. OpFits(op[o], excuse, epoch, seen)
  BY DEF ViewInv, RunsInv, OpsFit
<1>2. op[o].kind # "idle"
  BY <1>1 DEF OpFits, X!Idle
<1>3. Base(op[o], epoch, seen) /\ Staged(op[o], excuse)
  BY <1>1, <1>2 DEF OpFits
<1> QED BY <1>1, <1>2, <1>3 DEF OpFits, Follows, Staged

\* A confirmation, or more edges seen, takes nothing from the operations there.
LEMMA OpsGoWider ==
  ASSUME ViewInv, NEW o \in Slots, NEW cf, Wider(excuse, cf), NEW sn, seen \subseteq sn,
         NEW r, Good(r, cf, epoch, sn), NEW s \in Seedings, X!Goes(o, r, s)
  PROVE  TrayInv' /\ OpsFit(cf, epoch, sn, op') /\ Apart(o)
<1>1. OpsFit(cf, epoch, sn, op)
  BY StillFits DEF ViewInv, RunsInv, OpsFit
<1> QED BY <1>1, GoesWell DEF ViewInv, TrayInv, Apart

LEMMA OpsGoOn ==
  ASSUME ViewInv, NEW o \in Slots, NEW sn, seen \subseteq sn,
         NEW r, Good(r, excuse, epoch, sn), NEW s \in Seedings, X!Goes(o, r, s)
  PROVE  TrayInv' /\ OpsFit(excuse, epoch, sn, op') /\ Apart(o)
<1>1. PICK cf : cf = excuse
  OBVIOUS
<1>2. Wider(excuse, cf)
  BY <1>1 DEF Wider
<1> QED BY <1>1, <1>2, OpsGoWider

LEMMA OneMoves ==
  ASSUME ViewInv, NEW o \in Slots, NEW rec, OpFits(rec, excuse, epoch, seen), op' = [op EXCEPT ![o] = rec]
  PROVE  OpsFit(excuse, epoch, seen, op') /\ Apart(o)
<1>1. OpsFit(excuse, epoch, seen, op')
  BY SlotsFit DEF ViewInv, RunsInv
<1>2. op \in [Slots -> Ops]
  BY DEF ViewInv, RunsInv, OpsFit
<1> QED BY <1>1, <1>2 DEF Apart

LEMMA EndsOne ==
  ASSUME ViewInv, NEW o \in Slots, op' = [op EXCEPT ![o] = X!Idle]
  PROVE  OpsFit(excuse, epoch, seen, op') /\ Apart(o) /\ op'[o] = X!Idle
<1>1. OpFits(X!Idle, excuse, epoch, seen) /\ op \in [Slots -> Ops]
  BY IdleFits DEF ViewInv, RunsInv, OpsFit
<1> QED BY <1>1, OneMoves

\* An operation that ends and leaves the rest alone.
LEMMA EndedLands ==
  ASSUME ViewInv, NEW o \in Slots, X!Cancelled(o) \/ X!Failed(o)
  PROVE  Landed(o)
<1>1. /\ op' = [op EXCEPT ![o] = X!Idle]
      /\ UNCHANGED X!canvas /\ UNCHANGED X!sizes /\ UNCHANGED <<offer, large, seeding>> /\ UNCHANGED X!Rested
  BY DEF X!Cancelled, X!Failed
<1>2. RunsInv' /\ Apart(o)
  BY <1>1, EndsOne, Stays DEF RunsInv
<1> QED BY <1>1, <1>2, Stays DEF Landed

LEMMA ProbedLands ==
  ASSUME ViewInv, NEW o \in Slots, X!Probed(o)
  PROVE  Landed(o)
<1>1. PICK batch \in SUBSET X!Unknown(X!Canvas, op[o].cand) :
        /\ probes' = probes \cup batch
        /\ \E r \in X!CountNext([X!Canvas EXCEPT !.probes = @ \cup batch], op[o]) \cup X!ProbeNext([X!Canvas EXCEPT !.probes = @ \cup batch], op[o]) :
             X!Goes(o, r, seeding)
  BY DEF X!Probed, X!Canvas
<1>2. op[o].stage = "probe" /\ op[o].live /\ UNCHANGED X!canvas /\ counted' = counted /\ UNCHANGED X!degree /\ UNCHANGED X!Rested
  BY DEF X!Probed, X!Answer
<1>3. PICK k : k = [X!Canvas EXCEPT !.probes = @ \cup batch]
  OBVIOUS
<1>4. Ground(k, excuse, epoch, seen) /\ probes \cup batch \in SUBSET Nodes
  <2>1. /\ batch \in SUBSET Nodes /\ probes \in SUBSET Nodes /\ counted \in SUBSET Nodes
        /\ cursors \in [Nodes -> Marks] /\ CursorsSeen(cursors, seen) /\ seeding \in Seedings /\ store \in SUBSET Nodes
    BY DEF X!Unknown, X!Present, X!Canvas, ViewInv, CanvasInv, CanvasFits, SizesInv, TrayInv
  <2>2. k = [store |-> store, probes |-> probes \cup batch, counted |-> counted, degrees |-> degrees, heavy |-> heavy, cursors |-> cursors, seeding |-> seeding]
    BY <1>3 DEF X!Canvas
  <2>3. PICK P : P = probes \cup batch
    OBVIOUS
  <2> QED BY <2>1, <2>2, <2>3, Grounds
<1>5. PICK r \in X!CountNext(k, op[o]) \cup X!ProbeNext(k, op[o]) : X!Goes(o, r, seeding)
  BY <1>1, <1>3
<1>6. Good(r, excuse, epoch, seen)
  BY <1>2, <1>4, <1>5, Answering, CountsWell, ProbesWell
<1>7. TrayInv' /\ OpsFit(excuse, epoch, seen, op') /\ Apart(o)
  BY <1>5, <1>6, OpsGoOn DEF ViewInv, TrayInv
<1>8. RunsInv'
  BY <1>2, <1>7, Stays DEF RunsInv
<1>9. SizesInv'
  BY <1>1, <1>2, <1>4, Stays DEF SizesInv, ViewInv
<1> QED BY <1>2, <1>7, <1>8, <1>9, Stays DEF Landed

LEMMA CountedLands ==
  ASSUME ViewInv, NEW o \in Slots, X!Counted(o)
  PROVE  Landed(o)
<1>1. PICK batch \in SUBSET X!NeedsCount(X!Canvas, op[o].cand) :
        /\ counted' = counted \cup batch
        /\ \E r \in X!Plan([X!Canvas EXCEPT !.counted = @ \cup batch], op[o]) \cup X!CountNext([X!Canvas EXCEPT !.counted = @ \cup batch], op[o]) :
             X!Goes(o, r, seeding)
  BY DEF X!Counted, X!Canvas
<1>2. op[o].stage = "count" /\ op[o].live /\ UNCHANGED X!canvas /\ probes' = probes /\ UNCHANGED X!degree /\ UNCHANGED X!Rested
  BY DEF X!Counted, X!Answer
<1>3. PICK k : k = [X!Canvas EXCEPT !.counted = @ \cup batch]
  OBVIOUS
<1>4. Ground(k, excuse, epoch, seen) /\ counted \cup batch \in SUBSET Nodes
  <2>1. /\ batch \in SUBSET Nodes /\ probes \in SUBSET Nodes /\ counted \in SUBSET Nodes
        /\ cursors \in [Nodes -> Marks] /\ CursorsSeen(cursors, seen) /\ seeding \in Seedings /\ store \in SUBSET Nodes
    BY DEF X!NeedsCount, X!Present, X!Canvas, ViewInv, CanvasInv, CanvasFits, SizesInv, TrayInv
  <2>2. k = [store |-> store, probes |-> probes, counted |-> counted \cup batch, degrees |-> degrees, heavy |-> heavy, cursors |-> cursors, seeding |-> seeding]
    BY <1>3 DEF X!Canvas
  <2>3. PICK Y : Y = counted \cup batch
    OBVIOUS
  <2> QED BY <2>1, <2>2, <2>3, Grounds
<1>5. PICK r \in X!Plan(k, op[o]) \cup X!CountNext(k, op[o]) : X!Goes(o, r, seeding)
  BY <1>1, <1>3
<1>6. Good(r, excuse, epoch, seen)
  BY <1>2, <1>4, <1>5, Answering, CountsWell, PlansWell
<1>7. TrayInv' /\ OpsFit(excuse, epoch, seen, op') /\ Apart(o)
  BY <1>5, <1>6, OpsGoOn DEF ViewInv, TrayInv
<1>8. RunsInv'
  BY <1>2, <1>7, Stays DEF RunsInv
<1>9. SizesInv'
  BY <1>1, <1>2, <1>4, Stays DEF SizesInv, ViewInv
<1> QED BY <1>2, <1>7, <1>8, <1>9, Stays DEF Landed

\* Something is placed: the canvas fits again.
LEMMA Placing ==
  ASSUME ViewInv, NEW es \in SUBSET X!EdgeIds, NEW m, Fitting(m), NEW cur \in [Nodes -> Marks], CursorsSeen(cur, seen'),
         NEW ph \in Phases, X!Place(m, es, cur, ph)
  PROVE  CanvasInv'
<1>1. CanvasFits(store', edges', hidden') /\ cursors' = cur /\ phase' = ph
  BY PlaceFits DEF ViewInv, CanvasInv
<1> QED BY <1>1 DEF CanvasInv

LEMMA ConnectedLands ==
  ASSUME ViewInv, NEW o \in Slots, X!Connected(o)
  PROVE  Landed(o)
<1>1. PICK ok \in BOOLEAN :
        /\ X!Place(X!Without({}), IF ok THEN X!Between(op[o]) ELSE {}, cursors, phase)
        /\ \E r \in X!NextBatch(op[o]) : X!Goes(o, r, seeding)
  BY DEF X!Connected
<1>2. op[o].stage = "connect" /\ op[o].live /\ seen' = seen /\ UNCHANGED X!sizes /\ UNCHANGED X!Rested
  BY DEF X!Connected, X!Answer
<1>3. PICK r \in X!NextBatch(op[o]) : X!Goes(o, r, seeding)
  BY <1>1
<1>4. Good(r, excuse, epoch, seen)
  <2>1. OpFits(op[o], excuse, epoch, seen) /\ Follows(op[o], excuse, epoch, seen)
    BY <1>2, Answering
  <2>2. Ground(X!Canvas, excuse, epoch, seen) /\ store \in SUBSET Nodes
    BY GroundNow
  <2>3. PICK rec : rec = op[o]
    OBVIOUS
  <2> QED BY <1>2, <1>3, <2>1, <2>2, <2>3, BatchesWell
<1>5. TrayInv' /\ OpsFit(excuse, epoch, seen, op') /\ Apart(o)
  BY <1>3, <1>4, OpsGoOn DEF ViewInv, TrayInv
<1>6. RunsInv'
  BY <1>2, <1>5, Stays DEF RunsInv
<1>7. CanvasInv'
  <2>1. PICK es : es = IF ok THEN X!Between(op[o]) ELSE {}
    OBVIOUS
  <2>2. es \in SUBSET X!EdgeIds
    BY <2>1 DEF X!Between
  <2>3. Fitting(X!Without({})) /\ cursors \in [Nodes -> Marks] /\ CursorsSeen(cursors, seen') /\ phase \in Phases
    BY <1>2, WithoutFits DEF ViewInv, CanvasInv
  <2>4. PICK m : m = X!Without({})
    OBVIOUS
  <2> QED BY <1>1, <2>1, <2>2, <2>3, <2>4, Placing
<1> QED BY <1>2, <1>5, <1>6, <1>7, Stays DEF Landed

LEMMA SizedLands ==
  ASSUME ViewInv, NEW o \in Slots, X!Sized(o)
  PROVE  Landed(o)
<1>1. PICK P : P = probes'
  OBVIOUS
<1>2. PICK k : k = [X!Canvas EXCEPT !.probes = P]
  OBVIOUS
<1>3. PICK ok \in BOOLEAN : probes' = (IF ok THEN probes \cup {op[o].node} ELSE probes) /\ X!WarnOrRead(k, o)
  BY <1>1, <1>2 DEF X!Sized
<1>4. /\ op[o].stage = "size" /\ op[o].live /\ UNCHANGED X!canvas /\ counted' = counted /\ confirmed' = confirmed
      /\ UNCHANGED X!degree /\ epoch' = epoch /\ labelRows' = labelRows
  BY DEF X!Sized, X!Answer
<1>5. PICK rec : rec = op[o]
  OBVIOUS
<1>6. rec \in Ops /\ rec.kind = "expand" /\ rec.node \in Nodes /\ Base(rec, epoch, seen) /\ rec.sides \in SUBSET X!Sides
  <2>1. op[o] \in Ops /\ Base(op[o], epoch, seen) /\ Staged(op[o], excuse)
    BY <1>4, Answering
  <2>2. op[o].kind = "expand"
    BY <1>4, <2>1 DEF Staged, Apt
  <2> QED BY <1>5, <2>1, <2>2 DEF Base, Ops
<1>7. P \in SUBSET Nodes /\ counted \in SUBSET Nodes
  BY <1>1, <1>3, <1>5, <1>6 DEF ViewInv, SizesInv
<1>8. Ground(k, excuse, epoch, seen)
  <2>1. k = [store |-> store, probes |-> P, counted |-> counted, degrees |-> degrees, heavy |-> heavy, cursors |-> cursors, seeding |-> seeding]
    BY <1>2 DEF X!Canvas
  <2>2. cursors \in [Nodes -> Marks] /\ CursorsSeen(cursors, seen) /\ seeding \in Seedings /\ store \in SUBSET Nodes
    BY DEF ViewInv, CanvasInv, CanvasFits, TrayInv
  <2> QED BY <1>7, <2>1, <2>2, Grounds
<1>9. SizesInv' /\ CanvasInv'
  BY <1>1, <1>4, <1>7, Stays DEF SizesInv
<1>10. PICK asked : asked = {s \in rec.sides : <<rec.node, s>> \notin confirmed}
  OBVIOUS
<1>11. CASE X!Small(k, rec.node, asked)
  <2>1. PICK r \in X!ReadSides(k, rec) : X!Goes(o, r, seeding)
    BY <1>3, <1>5, <1>10, <1>11 DEF X!WarnOrRead
  <2>2. warned' = warned
    BY <1>3, <1>5, <1>10, <1>11 DEF X!WarnOrRead
  <2>3. Chosen(rec.node, rec.sides, excuse)
    <3>1. \A s \in asked : <<rec.node, s>> \in Big => <<rec.node, s>> \in excuse.thin
      BY <1>6, <1>8, <1>10, <1>11, Small DEF X!Small, Ground
    <3>2. \A s \in rec.sides : <<rec.node, s>> \in Big => <<rec.node, s>> \in excuse.chosen \cup excuse.thin
      BY <1>10, <3>1 DEF excuse
    <3> QED BY <3>2 DEF Chosen
  <2>4. Good(r, excuse, epoch, seen)
    BY <1>6, <1>8, <2>1, <2>3, ReadsWell DEF Ground
  <2>5. TrayInv' /\ OpsFit(excuse, epoch, seen, op') /\ Apart(o)
    BY <2>1, <2>4, OpsGoOn DEF ViewInv, TrayInv
  <2>6. RunsInv' /\ RestInv'
    BY <1>4, <2>2, <2>5, Stays DEF RunsInv, RestInv, ViewInv
  <2> QED BY <1>9, <2>5, <2>6 DEF Landed
<1>12. CASE ~X!Small(k, rec.node, asked)
  <2>1. op' = [op EXCEPT ![o] = X!Idle] /\ warned' = [warned EXCEPT ![rec.node] = rec.sides] /\ UNCHANGED <<offer, large, seeding>>
    BY <1>3, <1>5, <1>10, <1>12 DEF X!WarnOrRead
  <2>2. RunsInv' /\ Apart(o)
    BY <1>4, <2>1, EndsOne, Stays DEF RunsInv
  <2>3. RestInv'
    BY <1>4, <1>6, <2>1 DEF RestInv, ViewInv
  <2> QED BY <1>9, <2>1, <2>2, <2>3, Stays DEF Landed
<1> QED BY <1>11, <1>12

\* Where the sides that page rec reads stand after it.
Advanced(rec, old) == [s \in X!Sides |-> IF s \in rec.sides THEN X!SideCursorAfter(rec, s) ELSE old[s]]

\* The edges of page rec are added to those returned.
LEMMA MarksAfter ==
  ASSUME X!ExplorerConstants, NEW sn, NEW rec, rec.node \in Nodes, rec.from \in Marks, rec.sides \in SUBSET X!Sides,
         MarksSeen(rec.node, rec.from, sn), NEW old \in Marks, MarksSeen(rec.node, old, sn),
         NEW marks, marks = Advanced(rec, old)
  PROVE  marks \in Marks /\ MarksSeen(rec.node, marks, sn \cup {rec.node} \X X!PageEdges(rec))
<1>1. marks \in Marks
  <2>1. \A s \in X!Sides : s \in rec.sides => X!SideCursorAfter(rec, s) \in 0..X!Done
    BY SideCursors
  <2>2. \A s \in X!Sides : old[s] \in 0..X!Done
    BY DEF Marks
  <2>3. \A s \in X!Sides : (IF s \in rec.sides THEN X!SideCursorAfter(rec, s) ELSE old[s]) \in 0..X!Done
    BY <2>1, <2>2
  <2> QED BY <2>3 DEF Marks, Advanced
<1>2. ASSUME NoLoops, NEW s \in X!Sides, NEW e \in X!EdgesOf(rec.node, s), e <= marks[s]
      PROVE  <<rec.node, e>> \in sn \cup {rec.node} \X X!PageEdges(rec)
  <2>1. CASE s \in rec.sides
    <3>1. e <= X!SideCursorAfter(rec, s)
      BY <1>2, <2>1 DEF Advanced
    <3> QED BY <1>2, <2>1, <3>1, PageSkipsNone
  <2>2. CASE s \notin rec.sides
    <3>1. e <= old[s]
      BY <1>2, <2>2 DEF Advanced
    <3> QED BY <1>2, <3>1 DEF MarksSeen
  <2> QED BY <2>1, <2>2
<1> QED BY <1>1, <1>2 DEF MarksSeen

LEMMA PageReadLands ==
  ASSUME ViewInv, NEW o \in Slots, X!PageRead(o)
  PROVE  Landed(o)
<1>1. PICK rec, n, es, sn : rec = op[o] /\ n = rec.node /\ es = X!PageEdges(rec) /\ sn = seen'
  OBVIOUS
<1>2. rec.stage = "page" /\ rec.live /\ sn = seen \cup {n} \X es /\ UNCHANGED X!sizes /\ UNCHANGED X!Rested
  BY <1>1 DEF X!PageRead, X!Answer
<1> DEFINE Moved(old) == [s \in X!Sides |-> IF s \in rec.sides THEN X!SideCursorAfter(rec, s) ELSE old[s]]
           Cur(m) == [X!Kept(cursors, m) EXCEPT ![n] = Moved(@)]
           Again(m) == /\ m.added = {} /\ X!Drawn(es, m.store) \subseteq edges
                       /\ \A s \in rec.sides : Cur(m)[n][s] # X!Done
                       /\ X!Room(m.store, hidden) > 0
           Onward(m) == [rec EXCEPT !.tries = IF Again(m) THEN @ ELSE 1, !.from = IF Again(m) THEN Moved(@) ELSE @]
<1>3. PICK m \in X!Merged({n} \cup UNION {X!Ends(e) : e \in es}) :
        /\ X!Place(m, es, Cur(m), X!Recovered(m.added))
        /\ \E r \in X!ConnectNew(X!After(m, Cur(m)), Onward(m), m.added) : X!Goes(o, r, seeding)
  BY <1>1 DEF X!PageRead
<1>4. PICK marks : marks = Moved(X!Kept(cursors, m)[n])
  OBVIOUS
<1>5. PICK cur : cur = [X!Kept(cursors, m) EXCEPT ![n] = marks]
  OBVIOUS
<1>6. PICK again \in BOOLEAN : again = Again(m)
  OBVIOUS
<1>7. cur = Cur(m)
  BY <1>4, <1>5
<1>8. PICK past : past = Moved(rec.from)
  OBVIOUS
<1>9. PICK next : next = [rec EXCEPT !.tries = IF again THEN @ ELSE 1, !.from = IF again THEN past ELSE @] /\ next = Onward(m)
  BY <1>6, <1>8
<1>10. marks = Advanced(rec, X!Kept(cursors, m)[n]) /\ past = Advanced(rec, rec.from)
  BY <1>4, <1>8 DEF Advanced
<1> HIDE DEF Moved, Cur, Again, Onward
<1>11. /\ X!Place(m, es, cur, X!Recovered(m.added))
       /\ \E r \in X!ConnectNew(X!After(m, cur), next, m.added) : X!Goes(o, r, seeding)
  BY <1>3, <1>7, <1>9
<1>12. /\ rec \in Ops /\ rec.kind = "expand" /\ n \in Nodes /\ Base(rec, epoch, seen) /\ Follows(rec, excuse, epoch, seen)
       /\ rec.sides \in SUBSET X!Sides /\ rec.from \in Marks /\ MarksSeen(n, rec.from, seen) /\ rec.tries \in Nat
  <2>1. op[o].live /\ op[o].stage = "page"
    BY <1>1, <1>2
  <2>2. op[o] \in Ops /\ Base(op[o], epoch, seen) /\ Staged(op[o], excuse) /\ Follows(op[o], excuse, epoch, seen)
    BY <2>1, Answering
  <2>3. op[o].kind = "expand"
    BY <2>1, <2>2 DEF Staged, Apt
  <2> QED BY <1>1, <2>2, <2>3 DEF Base, Ops
<1>13. es \in SUBSET X!EdgeIds /\ {n} \cup UNION {X!Ends(e) : e \in es} \in SUBSET Nodes
  <2>1. es \in SUBSET X!EdgeIds
    BY <1>1 DEF X!PageEdges, X!SidePage, X!Past, X!EdgesOf
  <2>2. \A e \in es : X!Ends(e) \in SUBSET Nodes
    BY <2>1, Finite DEF ViewInv
  <2> QED BY <1>12, <2>1, <2>2
<1>14. Fitting(m)
  <2>1. PICK ns : ns = {n} \cup UNION {X!Ends(e) : e \in es}
    OBVIOUS
  <2> QED BY <1>13, <1>3, <2>1, MergedFits DEF ViewInv, CanvasInv
<1>15. X!Kept(cursors, m) \in [Nodes -> Marks] /\ CursorsSeen(X!Kept(cursors, m), seen)
  BY KeptFits DEF ViewInv, CanvasInv
<1>16. marks \in Marks /\ MarksSeen(n, marks, sn) /\ past \in Marks /\ MarksSeen(n, past, sn)
  <2>1. PICK old : old = X!Kept(cursors, m)[n]
    OBVIOUS
  <2>2. old \in Marks /\ MarksSeen(n, old, seen)
    BY <1>12, <1>15, <2>1 DEF CursorsSeen
  <2>3. marks = Advanced(rec, old)
    BY <1>10, <2>1
  <2>4. /\ rec.node \in Nodes /\ rec.from \in Marks /\ rec.sides \in SUBSET X!Sides /\ n = rec.node
        /\ MarksSeen(rec.node, rec.from, seen) /\ MarksSeen(rec.node, old, seen) /\ X!ExplorerConstants
    BY <1>1, <1>12, <2>2 DEF ViewInv
  <2>5. marks \in Marks /\ MarksSeen(rec.node, marks, seen \cup {rec.node} \X X!PageEdges(rec))
    BY <2>2, <2>3, <2>4, MarksAfter
  <2>6. past \in Marks /\ MarksSeen(rec.node, past, seen \cup {rec.node} \X X!PageEdges(rec))
    BY <1>10, <2>4, MarksAfter
  <2>7. sn = seen \cup {rec.node} \X X!PageEdges(rec)
    BY <1>1, <1>2
  <2> QED BY <2>4, <2>5, <2>6, <2>7
<1>17. cur \in [Nodes -> Marks] /\ CursorsSeen(cur, sn)
  <2>1. PICK kept : kept = X!Kept(cursors, m)
    OBVIOUS
  <2>2. cur \in [Nodes -> Marks] /\ \A p \in Nodes : cur[p] = IF p = n THEN marks ELSE kept[p]
    BY <1>12, <1>15, <1>16, <1>5, <2>1
  <2>3. \A p \in Nodes : MarksSeen(p, kept[p], sn)
    BY <1>2, <1>15, <2>1 DEF CursorsSeen, MarksSeen
  <2> QED BY <1>16, <2>2, <2>3 DEF CursorsSeen
<1>18. Follows(next, excuse, epoch, sn)
  <2>1. PICK tr, from : tr = (IF again THEN rec.tries ELSE 1) /\ from = IF again THEN past ELSE rec.from
    OBVIOUS
  <2>2. tr \in Nat /\ from \in Marks /\ MarksSeen(n, from, sn)
    BY <1>2, <1>12, <1>16, <2>1 DEF MarksSeen
  <2>3. next = [rec EXCEPT !.tries = tr, !.from = from]
    BY <1>9, <2>1
  <2>4. /\ next \in Ops /\ next.kind = rec.kind /\ next.node = rec.node /\ next.sides = rec.sides /\ next.queue = rec.queue
        /\ next.from = from /\ next.live = rec.live /\ next.epoch = rec.epoch
    BY <1>12, <2>2, <2>3 DEF Ops
  <2>5. Base(next, epoch, sn)
    BY <1>1, <1>12, <2>2, <2>4 DEF Base
  <2> QED BY <1>12, <2>4, <2>5 DEF Follows
<1>19. PICK k : k = X!After(m, cur)
  OBVIOUS
<1>20. Ground(k, excuse, epoch, sn)
  <2>1. k = [store |-> m.store, probes |-> probes, counted |-> counted, degrees |-> degrees, heavy |-> heavy, cursors |-> cur, seeding |-> seeding]
    BY <1>19 DEF X!After, X!Canvas
  <2>2. probes \in SUBSET Nodes /\ counted \in SUBSET Nodes /\ seeding \in Seedings /\ m.store \in SUBSET Nodes
    BY <1>14 DEF ViewInv, SizesInv, TrayInv, Fitting
  <2> QED BY <1>17, <2>1, <2>2, Grounds
<1>21. PICK r \in X!ConnectNew(k, next, m.added) : X!Goes(o, r, seeding)
  BY <1>11, <1>19
<1>22. Good(r, excuse, epoch, sn)
  BY <1>18, <1>20, <1>21, ConnectsWell
<1>23. TrayInv' /\ OpsFit(excuse, epoch, sn, op') /\ Apart(o)
  BY <1>2, <1>21, <1>22, OpsGoOn DEF ViewInv, TrayInv
<1>24. RunsInv'
  BY <1>1, <1>2, <1>23, Stays DEF RunsInv
<1>25. CanvasInv'
  <2>1. X!Recovered(m.added) \in Phases
    BY RecoveredFits DEF ViewInv, CanvasInv
  <2>2. PICK ph : ph = X!Recovered(m.added)
    OBVIOUS
  <2>3. CanvasFits(store', edges', hidden') /\ cursors' = cur /\ phase' = ph
    BY <1>11, <1>13, <1>14, <2>2, PlaceFits DEF ViewInv, CanvasInv
  <2> QED BY <1>1, <1>17, <2>1, <2>2, <2>3 DEF CanvasInv
<1> QED BY <1>2, <1>23, <1>24, <1>25, Stays DEF Landed

LEMMA PageGoneLands ==
  ASSUME ViewInv, NEW o \in Slots, X!PageGone(o)
  PROVE  Landed(o)
<1>1. PICK m : m = X!Without({op[o].node})
  OBVIOUS
<1>2. /\ X!Place(m, {}, X!Kept(cursors, m), phase) /\ op' = [op EXCEPT ![o] = X!Idle]
      /\ UNCHANGED X!sizes /\ UNCHANGED <<offer, large, seeding>> /\ seen' = seen /\ UNCHANGED X!Rested
  BY <1>1 DEF X!PageGone
<1>3. Fitting(m) /\ phase \in Phases /\ X!Kept(cursors, m) \in [Nodes -> Marks] /\ CursorsSeen(X!Kept(cursors, m), seen')
  BY <1>1, <1>2, WithoutFits, KeptFits DEF ViewInv, CanvasInv
<1>4. CanvasInv'
  <2>1. PICK cur, es : cur = X!Kept(cursors, m) /\ es = {}
    OBVIOUS
  <2>2. es \in SUBSET X!EdgeIds
    BY <2>1
  <2>3. X!Place(m, es, cur, phase) /\ cur \in [Nodes -> Marks] /\ CursorsSeen(cur, seen')
    BY <1>2, <1>3, <2>1
  <2>4. Fitting(m) /\ phase \in Phases
    BY <1>3
  <2> QED BY <2>2, <2>3, <2>4, Placing
<1>5. RunsInv' /\ Apart(o)
  BY <1>2, EndsOne, Stays DEF RunsInv
<1> QED BY <1>2, <1>4, <1>5, Stays DEF Landed

\* Rows are those of the label; a page is as large as the room left.
LEMMA RowsFit ==
  ASSUME X!ExplorerConstants
  PROVE  X!AllRows \in Nat \ {0} /\ \A i \in 1..(X!AllRows - 1) : Rows[i] \in Nodes
<1>1. Rows \in Seq(Nodes)
  BY DEF X!ExplorerConstants
<1>2. Len(Rows) \in Nat /\ DOMAIN Rows = 1..Len(Rows) /\ \A i \in 1..Len(Rows) : Rows[i] \in Nodes
  BY <1>1
<1>3. Cardinality(1..Len(Rows)) = Len(Rows)
  BY <1>2, FS_Interval
<1>4. X!AllRows = Len(Rows) + 1
  BY <1>2, <1>3, Counts DEF X!AllRows
<1> QED BY <1>2, <1>4

LEMMA RoomFits ==
  ASSUME X!ExplorerConstants, NEW st \in SUBSET Nodes, Cardinality(st) <= Cap, NEW hid
  PROVE  X!Room(st, hid) \in Nat
<1>1. hid \cap st \in SUBSET Nodes
  OBVIOUS
<1>2. Cardinality(st) \in Nat /\ Cardinality(hid \cap st) \in Nat /\ Cap \in Nat
  BY <1>1, Finite
<1> QED BY <1>2, Counts DEF X!Room

LEMMA PageRowsFit ==
  ASSUME X!ExplorerConstants, NEW st \in SUBSET Nodes, Cardinality(st) <= Cap
  PROVE  X!PageRows(st) \in Nat
<1>1. X!Room(st, hidden) \in Nat /\ PageSize \in Nat
  BY RoomFits, Finite
<1> QED BY <1>1 DEF X!PageRows

LEMMA RowsReadLands ==
  ASSUME ViewInv, NEW o \in Slots, X!RowsRead(o)
  PROVE  Landed(o)
<1>1. PICK last, next :
        /\ last = IF labelRows + op[o].size < X!AllRows THEN labelRows + op[o].size ELSE X!AllRows - 1
        /\ next = IF last = X!AllRows - 1 THEN X!AllRows ELSE last
  OBVIOUS
<1>2. /\ op[o].stage = "rows" /\ op[o].live /\ labelRows' = next /\ UNCHANGED X!sizes /\ seen' = seen
      /\ warned' = warned /\ confirmed' = confirmed /\ epoch' = epoch
  BY <1>1 DEF X!RowsRead, X!Answer
<1>3. PICK m \in X!Merged({Rows[i] : i \in (labelRows + 1)..last}) :
        /\ X!Place(m, {}, X!Kept(cursors, m), X!Recovered(m.added))
        /\ \E r \in (IF X!RowsNext([op[o] EXCEPT !.cand = @ \cup m.added], m.store, next)
                     THEN {X!Next1([[op[o] EXCEPT !.cand = @ \cup m.added] EXCEPT !.tries = @ - 1, !.size = X!PageRows(m.store)])}
                     ELSE X!ConnectNew(X!After(m, X!Kept(cursors, m)), [op[o] EXCEPT !.cand = @ \cup m.added],
                                       [op[o] EXCEPT !.cand = @ \cup m.added].cand)) : X!Goes(o, r, seeding)
  BY <1>1 DEF X!RowsRead
<1>4. PICK was, rec : was = op[o] /\ rec = [was EXCEPT !.cand = @ \cup m.added]
  OBVIOUS
<1>5. was \in Ops /\ Follows(was, excuse, epoch, seen) /\ was.stage = "rows" /\ was.size \in Nat
  <2>1. op[o] \in Ops /\ Follows(op[o], excuse, epoch, seen)
    BY <1>2, Answering
  <2> QED BY <1>2, <1>4, <2>1 DEF Ops
<1>6. next \in 0..X!AllRows /\ {Rows[i] : i \in (labelRows + 1)..last} \in SUBSET Nodes
  <2>1. X!AllRows \in Nat \ {0} /\ \A i \in 1..(X!AllRows - 1) : Rows[i] \in Nodes
    BY RowsFit DEF ViewInv
  <2>2. labelRows \in 0..X!AllRows
    BY DEF ViewInv, RestInv
  <2>3. last \in 0..(X!AllRows - 1)
    BY <1>1, <1>4, <1>5, <2>1, <2>2
  <2>4. next \in 0..X!AllRows
    BY <1>1, <2>1, <2>3
  <2>5. \A i \in (labelRows + 1)..last : i \in 1..(X!AllRows - 1)
    BY <2>1, <2>2, <2>3
  <2> QED BY <2>1, <2>4, <2>5
<1>7. Fitting(m)
  <2>1. PICK ns : ns = {Rows[i] : i \in (labelRows + 1)..last}
    OBVIOUS
  <2> QED BY <1>3, <1>6, <2>1, MergedFits DEF ViewInv, CanvasInv
<1>8. PICK cur : cur = X!Kept(cursors, m)
  OBVIOUS
<1>9. cur \in [Nodes -> Marks] /\ CursorsSeen(cur, seen)
  BY <1>8, KeptFits DEF ViewInv, CanvasInv
<1>10. PICK k : k = X!After(m, cur)
  OBVIOUS
<1>11. Ground(k, excuse, epoch, seen)
  <2>1. k = [store |-> m.store, probes |-> probes, counted |-> counted, degrees |-> degrees, heavy |-> heavy, cursors |-> cur, seeding |-> seeding]
    BY <1>10 DEF X!After, X!Canvas
  <2>2. probes \in SUBSET Nodes /\ counted \in SUBSET Nodes /\ seeding \in Seedings /\ m.store \in SUBSET Nodes
    BY <1>7 DEF ViewInv, SizesInv, TrayInv, Fitting
  <2> QED BY <1>9, <2>1, <2>2, Grounds
<1>12. PICK r : /\ \/ X!RowsNext(rec, m.store, next) /\ r = X!Next1([rec EXCEPT !.tries = @ - 1, !.size = X!PageRows(m.store)])
                   \/ r \in X!ConnectNew(k, rec, rec.cand)
                /\ X!Goes(o, r, seeding)
  BY <1>3, <1>4, <1>8, <1>10
<1>13. rec \in Ops /\ Alike(rec, was) /\ rec.stage = "rows" /\ Follows(rec, excuse, epoch, seen)
  <2>1. was.cand \cup m.added \in SUBSET Nodes
    BY <1>5, <1>7 DEF Ops, Fitting
  <2>2. Alike(rec, was) /\ rec.stage = "rows"
    BY <1>4, <1>5, <2>1 DEF Alike, Ops
  <2>3. Follows(rec, excuse, epoch, seen)
    BY <1>5, <2>2, Along
  <2> QED BY <2>2, <2>3 DEF Alike
<1>14. Good(r, excuse, epoch, seen)
  <2>1. CASE r \in X!ConnectNew(k, rec, rec.cand)
    BY <1>11, <1>13, <2>1, ConnectsWell
  <2>2. CASE X!RowsNext(rec, m.store, next) /\ r = X!Next1([rec EXCEPT !.tries = @ - 1, !.size = X!PageRows(m.store)])
    <3>1. PICK pr : pr = X!PageRows(m.store)
      OBVIOUS
    <3>2. pr \in Nat
      BY <1>7, <3>1, PageRowsFit DEF ViewInv, Fitting
    <3>3. rec.tries - 1 \in Nat
      BY <1>13, <2>2 DEF X!RowsNext, Ops
    <3>4. PICK q : q = [rec EXCEPT !.tries = @ - 1, !.size = pr]
      OBVIOUS
    <3>5. Alike(q, rec) /\ q.stage = "rows"
      BY <1>13, <3>2, <3>3, <3>4 DEF Alike, Ops
    <3>6. Apt(q, excuse)
      BY <3>5 DEF Apt
    <3> QED BY <1>11, <1>13, <2>2, <3>1, <3>4, <3>5, <3>6, Turns
  <2> QED BY <1>12, <2>1, <2>2
<1>15. TrayInv' /\ OpsFit(excuse, epoch, seen, op') /\ Apart(o)
  BY <1>12, <1>14, OpsGoOn DEF ViewInv, TrayInv
<1>16. RunsInv'
  BY <1>2, <1>15, Stays DEF RunsInv
<1>17. CanvasInv'
  <2>1. PICK ph, es : ph = X!Recovered(m.added) /\ es = {}
    OBVIOUS
  <2>2. ph \in Phases /\ es \in SUBSET X!EdgeIds
    BY <2>1, RecoveredFits DEF ViewInv, CanvasInv
  <2>3. X!Place(m, es, cur, ph) /\ CursorsSeen(cur, seen')
    BY <1>2, <1>3, <1>8, <1>9, <2>1
  <2> QED BY <1>7, <1>9, <2>2, <2>3, Placing
<1>18. RestInv'
  BY <1>2, <1>6 DEF RestInv, ViewInv
<1> QED BY <1>2, <1>15, <1>16, <1>17, <1>18, Stays DEF Landed

LEMMA RevealedLands ==
  ASSUME ViewInv, NEW o \in Slots, X!Revealed(o)
  PROVE  Landed(o)
<1>1. PICK n, was : was = op[o] /\ n = was.node
  OBVIOUS
<1>2. /\ op[o].stage = "reveal" /\ op[o].live /\ UNCHANGED X!canvas /\ counted' = counted /\ confirmed' = confirmed
      /\ UNCHANGED X!degree /\ epoch' = epoch /\ labelRows' = labelRows
  BY DEF X!Revealed, X!Answer
<1>3. was \in Ops /\ n \in Nodes /\ Follows(was, excuse, epoch, seen)
  <2>1. op[o] \in Ops /\ Staged(op[o], excuse) /\ Follows(op[o], excuse, epoch, seen)
    BY <1>2, Answering
  <2> QED BY <1>1, <1>2, <2>1 DEF Staged, Apt
<1>4. PICK rec : rec = [X!Start("expand", "page", n) EXCEPT !.node = n, !.sides = X!Sides]
  OBVIOUS
<1>5. PICK ok, k :
        /\ ok \in BOOLEAN /\ k = [X!Canvas EXCEPT !.probes = IF ok THEN @ \cup {n} ELSE @]
        /\ probes' = k.probes
        /\ IF n \in store /\ X!Size(k, n) = "small"
           THEN /\ \E r \in X!ConnectNew(k, was, {n}),
                     read \in {X!Idle, [X!PageOf(k, rec, X!Sides, {}) EXCEPT !.tries = 1]}
                              \cup {X!PageOf(k, rec, {s}, X!OpenSides(k, n, X!Sides) \ {s}) : s \in X!OpenSides(k, n, X!Sides)} :
                     X!Goes(o, [r EXCEPT !.spawn = read], seeding)
                /\ UNCHANGED warned
           ELSE /\ X!Goes(o, [X!Next1(X!Idle) EXCEPT !.offer = IF n \in store /\ Cardinality(store) > 1 THEN {n} ELSE {}], seeding)
                /\ warned' = IF n \in store THEN [warned EXCEPT ![n] = X!Sides] ELSE warned
  <2>1. \A W : X!Cardinality(W) = Cardinality(W)
    BY Counts
  <2> QED BY <1>1, <1>4, <2>1, ZenonT(60) DEF X!Revealed
<1>6. PICK P : P = probes'
  OBVIOUS
<1>7. P \in SUBSET Nodes /\ P = k.probes /\ k = [store |-> store, probes |-> P, counted |-> counted, degrees |-> degrees, heavy |-> heavy, cursors |-> cursors, seeding |-> seeding]
  BY <1>3, <1>5, <1>6 DEF X!Canvas, ViewInv, SizesInv
<1>8. Ground(k, excuse, epoch, seen)
  <2>1. cursors \in [Nodes -> Marks] /\ CursorsSeen(cursors, seen) /\ seeding \in Seedings /\ store \in SUBSET Nodes /\ counted \in SUBSET Nodes
    BY DEF ViewInv, CanvasInv, CanvasFits, TrayInv, SizesInv
  <2> QED BY <1>7, <2>1, Grounds
<1>9. SizesInv' /\ CanvasInv'
  BY <1>2, <1>6, <1>7, Stays DEF SizesInv, ViewInv
<1>10. Base(rec, epoch, seen) /\ rec.kind = "expand" /\ rec.node = n /\ rec.queue = {}
  <2>1. PICK st : st = X!Start("expand", "page", n)
    OBVIOUS
  <2>2. /\ st \in Ops /\ st.kind = "expand" /\ st.live /\ st.epoch = epoch /\ st.from = X!Fresh /\ st.queue = {}
    <3>1. "expand" \in OpKinds /\ "page" \in Stages /\ n \in Keys
      BY <1>3 DEF OpKinds, Stages, Keys
    <3> QED BY <2>1, <3>1, Begins DEF ViewInv
  <2>3. rec = [st EXCEPT !.node = n, !.sides = X!Sides]
    BY <1>4, <2>1
  <2>4. /\ rec \in Ops /\ rec.kind = "expand" /\ rec.live /\ rec.epoch = epoch /\ rec.from = X!Fresh /\ rec.queue = {} /\ rec.node = n
    BY <1>3, <2>2, <2>3 DEF Ops
  <2>5. MarksSeen(n, X!Fresh, seen)
    BY Marked DEF MarksSeen, X!EdgesOf, ViewInv
  <2> QED BY <1>3, <2>4, <2>5 DEF Base
<1>11. CASE n \in store /\ X!Size(k, n) = "small"
  <2>1. PICK r \in X!ConnectNew(k, was, {n}),
             read \in {X!Idle, [X!PageOf(k, rec, X!Sides, {}) EXCEPT !.tries = 1]}
                              \cup {X!PageOf(k, rec, {s}, X!OpenSides(k, n, X!Sides) \ {s}) : s \in X!OpenSides(k, n, X!Sides)} :
               X!Goes(o, [r EXCEPT !.spawn = read], seeding)
    BY <1>5, <1>11
  <2>2. Good(r, excuse, epoch, seen)
    BY <1>3, <1>8, <2>1, ConnectsWell
  <2>3. ASSUME NEW ss \in SUBSET X!Sides PROVE Chosen(n, ss, excuse)
    <3>1. \A s \in X!Sides : X!SideSize(k, n, s) = "small"
      BY <1>11 DEF X!Size, X!SideSize
    <3>2. \A s \in X!Sides : <<n, s>> \in Big => <<n, s>> \in excuse.thin
      BY <1>8, <3>1, Small DEF Ground
    <3> QED BY <3>2 DEF Chosen
  <2>4. k \in Canvases /\ CursorsSeen(k.cursors, seen) /\ X!ExplorerConstants /\ epoch \in Nat
    BY <1>8 DEF Ground, ViewInv
  <2>5. OpFits(read, excuse, epoch, seen)
    <3>1. CASE read = X!Idle
      BY <2>4, <3>1, IdleFits
    <3>2. CASE read = [X!PageOf(k, rec, X!Sides, {}) EXCEPT !.tries = 1]
      <4>1. Chosen(rec.node, X!Sides \cup {}, excuse) /\ X!Sides \in SUBSET X!Sides /\ {} \in SUBSET X!Sides
        BY <1>10, <2>3
      <4> QED BY <1>10, <2>4, <3>2, <4>1, LastPageFits
    <3>3. CASE \E s \in X!OpenSides(k, n, X!Sides) : read = X!PageOf(k, rec, {s}, X!OpenSides(k, n, X!Sides) \ {s})
      <4>1. PICK s \in X!OpenSides(k, n, X!Sides) : read = X!PageOf(k, rec, {s}, X!OpenSides(k, n, X!Sides) \ {s})
        BY <3>3
      <4>2. PICK one, after : one = {s} /\ after = X!OpenSides(k, n, X!Sides) \ {s}
        OBVIOUS
      <4>3. one \in SUBSET X!Sides /\ after \in SUBSET X!Sides
        BY <4>1, <4>2 DEF X!OpenSides
      <4>4. Chosen(rec.node, one \cup after, excuse)
        BY <1>10, <2>3, <4>3
      <4> QED BY <1>10, <2>4, <4>1, <4>2, <4>3, <4>4, PageOfFits
    <3> QED BY <2>1, <3>1, <3>2, <3>3
  <2>6. PICK g : g = [r EXCEPT !.spawn = read]
    OBVIOUS
  <2>7. Good(g, excuse, epoch, seen) /\ X!Goes(o, g, seeding)
    <3>1. {} \in SUBSET Nodes
      OBVIOUS
    <3> QED BY <2>1, <2>2, <2>5, <2>6, <3>1, OutcomesWith
  <2>8. TrayInv' /\ OpsFit(excuse, epoch, seen, op') /\ Apart(o)
    BY <2>7, OpsGoOn DEF ViewInv, TrayInv
  <2>9. warned' = warned
    BY <1>5, <1>11
  <2>10. RunsInv' /\ RestInv'
    BY <1>2, <2>8, <2>9, Stays DEF RunsInv, RestInv, ViewInv
  <2> QED BY <1>9, <2>8, <2>10 DEF Landed
<1>12. CASE ~(n \in store /\ X!Size(k, n) = "small")
  <2>1. PICK ns, g : /\ ns = IF n \in store /\ Cardinality(store) > 1 THEN {n} ELSE {}
                     /\ g = [X!Next1(X!Idle) EXCEPT !.offer = ns]
    OBVIOUS
  <2>2. X!Goes(o, g, seeding) /\ warned' \in {warned, [warned EXCEPT ![n] = X!Sides]}
    BY <1>5, <1>12, <2>1
  <2>3. ns \in SUBSET Nodes /\ OpFits(X!Idle, excuse, epoch, seen) /\ Good(X!Next1(X!Idle), excuse, epoch, seen)
    <3>1. X!ExplorerConstants /\ epoch \in Nat /\ seeding \in Seedings
      BY DEF ViewInv, TrayInv
    <3>2. OpFits(X!Idle, excuse, epoch, seen)
      BY <3>1, IdleFits
    <3> QED BY <1>3, <2>1, <3>1, <3>2, Outcomes
  <2>4. Good(g, excuse, epoch, seen)
    BY <2>1, <2>3, OutcomesWith
  <2>5. TrayInv' /\ OpsFit(excuse, epoch, seen, op') /\ Apart(o)
    BY <2>2, <2>4, OpsGoOn DEF ViewInv, TrayInv
  <2>6. RestInv'
    BY <1>2, <1>3, <2>2 DEF RestInv, ViewInv
  <2>7. RunsInv'
    BY <1>2, <2>5, Stays DEF RunsInv
  <2> QED BY <1>9, <2>5, <2>6, <2>7 DEF Landed
<1> QED BY <1>11, <1>12

LEMMA FetchedLands ==
  ASSUME ViewInv, NEW o \in Slots, X!Fetched(o)
  PROVE  Landed(o)
<1>1. PICK P : P = probes'
  OBVIOUS
<1>2. PICK found \in SUBSET op[o].cand, es \in {{}, X!EdgeIds}, sized \in BOOLEAN :
        /\ probes' = (IF sized THEN probes \cup found ELSE probes)
        /\ \E m \in X!Merged(found) :
             /\ store' = m.store /\ edges' = X!Drawn(es, m.store)
             /\ hidden' = (hidden \cap m.store) \ found
             /\ cursors' = X!Kept(cursors, m) /\ phase' = X!Recovered(m.added)
             /\ \E r \in X!ConnectNew([X!After(m, X!Kept(cursors, m)) EXCEPT !.probes = P], op[o], m.added) : X!Goes(o, r, seeding)
  BY <1>1 DEF X!Fetched
<1>3. PICK m \in X!Merged(found) :
        /\ probes' = (IF sized THEN probes \cup found ELSE probes)
        /\ store' = m.store /\ edges' = X!Drawn(es, m.store)
        /\ hidden' = (hidden \cap m.store) \ found
        /\ cursors' = X!Kept(cursors, m) /\ phase' = X!Recovered(m.added)
        /\ \E r \in X!ConnectNew([X!After(m, X!Kept(cursors, m)) EXCEPT !.probes = P], op[o], m.added) : X!Goes(o, r, seeding)
  BY <1>2
<1>4. op[o].stage = "fetch" /\ op[o].live /\ counted' = counted /\ UNCHANGED X!degree /\ seen' = seen /\ UNCHANGED X!Rested
  BY DEF X!Fetched, X!Answer
<1>5. PICK was : was = op[o]
  OBVIOUS
<1>6. was \in Ops /\ Follows(was, excuse, epoch, seen) /\ found \in SUBSET Nodes /\ es \in SUBSET X!EdgeIds
  <2>1. op[o] \in Ops /\ Follows(op[o], excuse, epoch, seen)
    BY <1>4, Answering
  <2> QED BY <1>5, <2>1 DEF Ops
<1>7. Fitting(m) /\ P \in SUBSET Nodes
  BY <1>1, <1>3, <1>6, MergedFits DEF ViewInv, CanvasInv, SizesInv
<1>8. PICK cur : cur = X!Kept(cursors, m)
  OBVIOUS
<1>9. cur \in [Nodes -> Marks] /\ CursorsSeen(cur, seen)
  BY <1>8, KeptFits DEF ViewInv, CanvasInv
<1>10. PICK k : k = [X!After(m, cur) EXCEPT !.probes = P]
  OBVIOUS
<1>11. Ground(k, excuse, epoch, seen)
  <2>1. k = [store |-> m.store, probes |-> P, counted |-> counted, degrees |-> degrees, heavy |-> heavy, cursors |-> cur, seeding |-> seeding]
    BY <1>10 DEF X!After, X!Canvas
  <2>2. counted \in SUBSET Nodes /\ seeding \in Seedings /\ m.store \in SUBSET Nodes
    BY <1>7 DEF ViewInv, SizesInv, TrayInv, Fitting
  <2> QED BY <1>7, <1>9, <2>1, <2>2, Grounds
<1>12. PICK r \in X!ConnectNew(k, was, m.added) : X!Goes(o, r, seeding)
  BY <1>3, <1>5, <1>8, <1>10
<1>13. Good(r, excuse, epoch, seen)
  BY <1>6, <1>11, <1>12, ConnectsWell
<1>14. TrayInv' /\ OpsFit(excuse, epoch, seen, op') /\ Apart(o)
  BY <1>12, <1>13, OpsGoOn DEF ViewInv, TrayInv
<1>15. RunsInv'
  BY <1>4, <1>14, Stays DEF RunsInv
<1>16. CanvasInv'
  <2>1. CanvasFits(m.store, X!Drawn(es, m.store), (hidden \cap m.store) \ found)
    BY <1>6, <1>7, DrawnFits DEF ViewInv, CanvasInv
  <2>2. X!Recovered(m.added) \in Phases
    BY RecoveredFits DEF ViewInv, CanvasInv
  <2> QED BY <1>3, <1>4, <1>8, <1>9, <2>1, <2>2 DEF CanvasInv
<1>17. SizesInv'
  BY <1>1, <1>4, <1>7, Stays DEF SizesInv, ViewInv
<1> QED BY <1>4, <1>14, <1>15, <1>16, <1>17, Stays DEF Landed

-----------------------------------------------------------------------------
(* The first view. *)

LEMMA LabelsLand ==
  ASSUME ViewInv, NEW o \in Slots, X!LabelsCounted(o)
  PROVE  Landed(o)
<1>1. /\ op[o].stage = "labels" /\ op[o].live /\ UNCHANGED <<store, edges, hidden, cursors, seen>> /\ UNCHANGED X!sizes
      /\ UNCHANGED <<offer, large, seeding>> /\ UNCHANGED X!Rested
  BY DEF X!LabelsCounted, X!Answer
<1>2. PICK was : was = op[o]
  OBVIOUS
<1>3. was \in Ops /\ was.tries \in Nat /\ Follows(was, excuse, epoch, seen)
  <2>1. op[o] \in Ops /\ Follows(op[o], excuse, epoch, seen)
    BY <1>1, Answering
  <2> QED BY <1>2, <2>1 DEF Ops
<1>4. \/ op' = [op EXCEPT ![o].stage = "candidates"] /\ phase' = phase
      \/ op' = [op EXCEPT ![o] = X!Idle] /\ phase' \in {"empty", "error"}
      \/ /\ op' = [op EXCEPT ![o].tries = @ + 1, ![o].stage = IF op[o].tries < 2 THEN "labels" ELSE "sample"]
         /\ phase' = phase
  BY DEF X!LabelsCounted
<1>5. CanvasInv'
  BY <1>1, <1>4 DEF CanvasInv, ViewInv, Phases
<1>6. op \in [Slots -> Ops] /\ Ground(X!Canvas, excuse, epoch, seen)
  BY GroundNow DEF ViewInv, RunsInv, OpsFit
<1>7. ASSUME NEW stage \in {"candidates", "labels", "sample"}, NEW tries \in Nat,
             op' = [op EXCEPT ![o] = [was EXCEPT !.stage = stage, !.tries = tries]]
      PROVE  OpsFit(excuse, epoch, seen, op') /\ Apart(o)
  <2>1. PICK q : q = [was EXCEPT !.stage = stage, !.tries = tries]
    OBVIOUS
  <2>2. Alike(q, was) /\ q.stage = stage
    BY <1>3, <2>1 DEF Alike, Ops, Stages
  <2>3. Apt(q, excuse)
    BY <2>2 DEF Apt
  <2>4. Good(X!Next1(q), excuse, epoch, seen)
    BY <1>3, <1>6, <2>2, <2>3, Turns
  <2>5. OpFits(q, excuse, epoch, seen)
    BY <2>4 DEF Good, X!Next1
  <2> QED BY <1>7, <2>1, <2>5, OneMoves
<1>8. OpsFit(excuse, epoch, seen, op') /\ Apart(o)
  <2>1. CASE op' = [op EXCEPT ![o].stage = "candidates"]
    <3>1. op' = [op EXCEPT ![o] = [was EXCEPT !.stage = "candidates", !.tries = was.tries]]
      <4>1. [was EXCEPT !.stage = "candidates"] = [was EXCEPT !.stage = "candidates", !.tries = was.tries]
        BY <1>3 DEF Ops
      <4> QED BY <1>2, <1>6, <2>1, <4>1
    <3> QED BY <1>3, <1>7, <3>1
  <2>2. CASE op' = [op EXCEPT ![o] = X!Idle]
    BY <2>2, EndsOne
  <2>3. CASE op' = [op EXCEPT ![o].tries = @ + 1, ![o].stage = IF op[o].tries < 2 THEN "labels" ELSE "sample"]
    <3>1. PICK stage : stage = IF was.tries < 2 THEN "labels" ELSE "sample"
      OBVIOUS
    <3>2. op' = [op EXCEPT ![o] = [was EXCEPT !.stage = stage, !.tries = was.tries + 1]]
      <4>1. PICK q : q = [was EXCEPT !.stage = stage, !.tries = was.tries + 1]
        OBVIOUS
      <4>2. op' = [op EXCEPT ![o].tries = was.tries + 1, ![o].stage = stage]
        BY <1>2, <2>3, <3>1
      <4>3. op' = [op EXCEPT ![o] = q]
        BY <1>2, <1>3, <1>6, <4>1, <4>2 DEF Ops
      <4> QED BY <4>1, <4>3
    <3>3. stage \in {"candidates", "labels", "sample"} /\ was.tries + 1 \in Nat
      BY <1>3, <3>1
    <3>4. PICK tries : tries = was.tries + 1
      OBVIOUS
    <3>5. tries \in Nat /\ op' = [op EXCEPT ![o] = [was EXCEPT !.stage = stage, !.tries = tries]]
      BY <3>2, <3>3, <3>4
    <3> QED BY <1>7, <3>3, <3>5
  <2> QED BY <1>4, <2>1, <2>2, <2>3
<1>9. RunsInv'
  BY <1>1, <1>8, Stays DEF RunsInv
<1> QED BY <1>1, <1>5, <1>8, <1>9, Stays DEF Landed

LEMMA CandidatesLand ==
  ASSUME ViewInv, NEW o \in Slots, X!CandidatesRead(o)
  PROVE  Landed(o)
<1>1. /\ op[o].stage = "candidates" /\ op[o].live /\ UNCHANGED <<store, edges, hidden, cursors, seen>> /\ UNCHANGED X!sizes
      /\ UNCHANGED <<offer, large, seeding>> /\ UNCHANGED X!Rested
  BY DEF X!CandidatesRead, X!Answer
<1>2. PICK was : was = op[o]
  OBVIOUS
<1>3. was \in Ops /\ Follows(was, excuse, epoch, seen)
  BY <1>1, <1>2, Answering
<1>4. \/ /\ \E found \in SUBSET Hubs :
              op' = [op EXCEPT ![o].stage = "seedProbe", ![o].cand = found, ![o].batch = found, ![o].round = "seeds"]
         /\ phase' = phase
      \/ op' = [op EXCEPT ![o].stage = "sample"] /\ phase' = phase
      \/ op' = [op EXCEPT ![o] = X!Idle] /\ phase' = "error"
  BY DEF X!CandidatesRead
<1>5. CanvasInv'
  BY <1>1, <1>4 DEF CanvasInv, ViewInv, Phases
<1>6. op \in [Slots -> Ops] /\ Ground(X!Canvas, excuse, epoch, seen) /\ Hubs \in SUBSET Nodes
  BY GroundNow DEF ViewInv, RunsInv, OpsFit, X!ExplorerConstants
<1>7. ASSUME NEW q, Alike(q, was), Apt(q, excuse), op' = [op EXCEPT ![o] = q]
      PROVE  OpsFit(excuse, epoch, seen, op') /\ Apart(o)
  <2>1. Good(X!Next1(q), excuse, epoch, seen)
    BY <1>3, <1>6, <1>7, Turns
  <2>2. OpFits(q, excuse, epoch, seen)
    BY <2>1 DEF Good, X!Next1
  <2> QED BY <1>7, <2>2, OneMoves
<1>8. OpsFit(excuse, epoch, seen, op') /\ Apart(o)
  <2>1. ASSUME NEW found \in SUBSET Hubs,
               op' = [op EXCEPT ![o].stage = "seedProbe", ![o].cand = found, ![o].batch = found, ![o].round = "seeds"]
        PROVE  OpsFit(excuse, epoch, seen, op') /\ Apart(o)
    <3>1. PICK q : q = [was EXCEPT !.stage = "seedProbe", !.cand = found, !.batch = found, !.round = "seeds"]
      OBVIOUS
    <3>2. op' = [op EXCEPT ![o] = q]
      BY <1>2, <1>3, <1>6, <2>1, <3>1
    <3>3. Alike(q, was) /\ q.stage = "seedProbe" /\ q.round = "seeds"
      BY <1>3, <1>6, <3>1, ZenonT(60) DEF Alike, Ops, Stages
    <3>4. Apt(q, excuse)
      BY <3>3 DEF Apt
    <3> QED BY <1>7, <3>2, <3>3, <3>4
  <2>2. CASE op' = [op EXCEPT ![o].stage = "sample"]
    <3>1. PICK q : q = [was EXCEPT !.stage = "sample"]
      OBVIOUS
    <3>2. op' = [op EXCEPT ![o] = q]
      BY <1>2, <2>2, <3>1
    <3>3. Alike(q, was) /\ q.stage = "sample"
      BY <1>3, <3>1 DEF Alike, Ops, Stages
    <3>4. Apt(q, excuse)
      BY <3>3 DEF Apt
    <3> QED BY <1>7, <3>2, <3>3, <3>4
  <2>3. CASE op' = [op EXCEPT ![o] = X!Idle]
    BY <2>3, EndsOne
  <2> QED BY <1>4, <2>1, <2>2, <2>3
<1>9. RunsInv'
  BY <1>1, <1>8, Stays DEF RunsInv
<1> QED BY <1>1, <1>5, <1>8, <1>9, Stays DEF Landed

\* place: the seeds, or the sample, on the canvas.
LEMMA FirstLands ==
  ASSUME ViewInv, NEW o \in Slots, op[o].live, op[o].stage \notin {"none", "size"},
         NEW P \in SUBSET Nodes, NEW s \in Seedings,
         NEW k, k = [store |-> store, probes |-> P, counted |-> counted, degrees |-> degrees, heavy |-> heavy, cursors |-> cursors, seeding |-> s],
         NEW ns \in SUBSET Nodes, NEW es \in SUBSET X!EdgeIds, NEW round \in {"first", "sampled"},
         X!PlaceFirst(o, k, ns, es, round), seen' = seen
  PROVE  CanvasInv' /\ TrayInv' /\ OpsFit(excuse, epoch, seen, op') /\ Apart(o)
<1>1. PICK was, rec : was = op[o] /\ rec = [was EXCEPT !.round = round, !.batch = ns, !.cand = {}]
  OBVIOUS
<1>2. PICK m \in X!Merged(ns) :
        /\ X!Place(m, es, X!Kept(cursors, m), "ready")
        /\ \E r \in (IF store # {} /\ m.added # {}
                     THEN X!ConnectNew([k EXCEPT !.store = m.store, !.cursors = X!Kept(cursors, m)], rec, store)
                     ELSE X!Resume([k EXCEPT !.store = m.store, !.cursors = X!Kept(cursors, m)], rec)) : X!Goes(o, r, k.seeding)
  BY <1>1 DEF X!PlaceFirst
<1>3. was \in Ops /\ Follows(was, excuse, epoch, seen)
  BY <1>1, Answering
<1>4. Follows(rec, excuse, epoch, seen)
  <2>1. Alike(rec, was)
    BY <1>1, <1>3, ZenonT(60) DEF Alike, Ops
  <2> QED BY <1>3, <2>1, Along
<1>5. Fitting(m)
  BY <1>2, MergedFits DEF ViewInv, CanvasInv
<1>6. PICK cur : cur = X!Kept(cursors, m)
  OBVIOUS
<1>7. cur \in [Nodes -> Marks] /\ CursorsSeen(cur, seen)
  BY <1>6, KeptFits DEF ViewInv, CanvasInv
<1>8. PICK after : after = [k EXCEPT !.store = m.store, !.cursors = cur]
  OBVIOUS
<1>9. Ground(after, excuse, epoch, seen)
  <2>1. after = [store |-> m.store, probes |-> P, counted |-> counted, degrees |-> degrees, heavy |-> heavy, cursors |-> cur, seeding |-> s]
    BY <1>8
  <2>2. counted \in SUBSET Nodes /\ m.store \in SUBSET Nodes
    BY <1>5 DEF ViewInv, SizesInv, Fitting
  <2> QED BY <1>7, <2>1, <2>2, Grounds
<1>10. PICK r : (r \in X!ConnectNew(after, rec, store) \/ r \in X!Resume(after, rec)) /\ X!Goes(o, r, s)
  BY <1>2, <1>6, <1>8
<1>11. Good(r, excuse, epoch, seen)
  BY <1>4, <1>9, <1>10, ConnectsWell, Resumes
<1>12. TrayInv' /\ OpsFit(excuse, epoch, seen, op') /\ Apart(o)
  BY <1>10, <1>11, OpsGoOn
<1>13. CanvasInv'
  <2>1. PICK ph : ph = "ready"
    OBVIOUS
  <2>2. X!Place(m, es, cur, ph) /\ CursorsSeen(cur, seen') /\ ph \in Phases
    BY <1>2, <1>6, <1>7, <2>1 DEF Phases
  <2> QED BY <1>5, <1>7, <2>2, Placing
<1> QED BY <1>12, <1>13

LEMMA SampleLands ==
  ASSUME ViewInv, NEW o \in Slots, X!SampleRead(o)
  PROVE  Landed(o)
<1>1. op[o].stage = "sample" /\ op[o].live /\ seen' = seen /\ UNCHANGED X!sizes /\ UNCHANGED X!Rested
  BY DEF X!SampleRead, X!Answer
<1>2. \/ \E ns \in SUBSET Nodes : X!PlaceFirst(o, X!Canvas, ns, X!EdgeIds, "sampled")
      \/ /\ op' = [op EXCEPT ![o] = X!Idle] /\ phase' = "error"
         /\ UNCHANGED <<store, edges, hidden, cursors, offer, large, seeding>>
  BY DEF X!SampleRead
<1>3. CanvasInv' /\ TrayInv' /\ OpsFit(excuse, epoch, seen, op') /\ Apart(o)
  <2>1. ASSUME NEW ns \in SUBSET Nodes, X!PlaceFirst(o, X!Canvas, ns, X!EdgeIds, "sampled")
        PROVE  CanvasInv' /\ TrayInv' /\ OpsFit(excuse, epoch, seen, op') /\ Apart(o)
    <3>1. PICK k, es, round, P, s : k = X!Canvas /\ es = X!EdgeIds /\ round = "sampled" /\ P = probes /\ s = seeding
      OBVIOUS
    <3>2. k = [store |-> store, probes |-> P, counted |-> counted, degrees |-> degrees, heavy |-> heavy, cursors |-> cursors, seeding |-> s]
      BY <3>1 DEF X!Canvas
    <3>3. X!PlaceFirst(o, k, ns, es, round) /\ es \in SUBSET X!EdgeIds /\ round \in {"first", "sampled"} /\ P \in SUBSET Nodes /\ s \in Seedings
      BY <2>1, <3>1 DEF ViewInv, SizesInv, TrayInv
    <3> QED BY <1>1, <3>2, <3>3, FirstLands
  <2>2. CASE /\ op' = [op EXCEPT ![o] = X!Idle] /\ phase' = "error"
             /\ UNCHANGED <<store, edges, hidden, cursors, offer, large, seeding>>
    <3>1. CanvasInv' /\ TrayInv'
      BY <1>1, <2>2 DEF CanvasInv, TrayInv, ViewInv, Phases
    <3> QED BY <2>2, <3>1, EndsOne
  <2> QED BY <1>2, <2>1, <2>2
<1>4. RunsInv'
  BY <1>1, <1>3, Stays DEF RunsInv
<1> QED BY <1>1, <1>3, <1>4, Stays DEF Landed

LEMMA SeedProbedLands ==
  ASSUME ViewInv, NEW o \in Slots, X!SeedProbed(o)
  PROVE  Landed(o)
<1>1. op[o].stage = "seedProbe" /\ op[o].live /\ counted' = counted /\ UNCHANGED X!degree /\ seen' = seen /\ UNCHANGED X!Rested
  BY DEF X!SeedProbed, X!Answer
<1>2. PICK was : was = op[o]
  OBVIOUS
<1>3. /\ was \in Ops /\ Follows(was, excuse, epoch, seen) /\ was.cand \in SUBSET Nodes /\ was.batch \in SUBSET Nodes
      /\ was.round \in {"seeds", "second", "more", "outer"}
  <2>1. op[o] \in Ops /\ Follows(op[o], excuse, epoch, seen) /\ Staged(op[o], excuse)
    BY <1>1, Answering
  <2> QED BY <1>1, <1>2, <2>1 DEF Ops, Staged, Apt
<1>4. PICK found, k :
        /\ found \in SUBSET was.batch
        /\ k = [X!Canvas EXCEPT !.probes = @ \cup found, !.seeding.sized = @ \cup found]
        /\ probes' = k.probes
        /\ IF was.round = "seeds" THEN X!PlaceFirst(o, k, X!Seeds(was.cand, k), {}, "first")
           ELSE /\ \E r \in X!SeedCount(k, was) : X!Goes(o, r, k.seeding)
                /\ UNCHANGED <<store, edges, hidden, cursors, phase>>
  BY <1>2 DEF X!SeedProbed
<1>5. PICK P, s : P = probes \cup found /\ s = [seeding EXCEPT !.sized = @ \cup found]
  OBVIOUS
<1>6. P \in SUBSET Nodes /\ s \in Seedings
  <2>1. found \in SUBSET was.batch
    BY <1>4
  <2>2. found \in SUBSET Nodes /\ probes \in SUBSET Nodes /\ seeding \in Seedings
    BY <1>3, <2>1 DEF ViewInv, SizesInv, TrayInv
  <2>3. seeding.sized \cup found \in SUBSET Nodes
    BY <2>2 DEF Seedings
  <2> QED BY <1>5, <2>2, <2>3 DEF Seedings
<1>7. k = [store |-> store, probes |-> P, counted |-> counted, degrees |-> degrees, heavy |-> heavy, cursors |-> cursors, seeding |-> s]
  BY <1>4, <1>5 DEF X!Canvas
<1>8. k.seeding = s /\ k.probes = P
  BY <1>7
<1>9. probes' = k.probes /\ (was.round # "seeds" => /\ \E r \in X!SeedCount(k, was) : X!Goes(o, r, k.seeding)
                                                    /\ UNCHANGED <<store, edges, hidden, cursors, phase>>)
  BY <1>4
<1>10. SizesInv'
  BY <1>1, <1>6, <1>8, <1>9, Stays DEF SizesInv, ViewInv
<1>11. CanvasInv' /\ TrayInv' /\ OpsFit(excuse, epoch, seen, op') /\ Apart(o)
  <2>1. CASE was.round = "seeds"
    <3>1. PICK ns, es, round : ns = X!Seeds(was.cand, k) /\ es = {} /\ round = "first"
      OBVIOUS
    <3>2. ns \in SUBSET Nodes /\ es \in SUBSET X!EdgeIds /\ round \in {"first", "sampled"}
      BY <1>3, <3>1 DEF X!Seeds
    <3>3. X!PlaceFirst(o, k, ns, es, round)
      BY <1>4, <2>1, <3>1
    <3> QED BY <1>1, <1>6, <1>7, <3>2, <3>3, FirstLands
  <2>2. CASE was.round # "seeds"
    <3>1. PICK r \in X!SeedCount(k, was) : X!Goes(o, r, s)
      BY <1>8, <1>9, <2>2
    <3>2. Ground(k, excuse, epoch, seen)
      <4>1. cursors \in [Nodes -> Marks] /\ CursorsSeen(cursors, seen) /\ store \in SUBSET Nodes /\ counted \in SUBSET Nodes
        BY DEF ViewInv, CanvasInv, CanvasFits, SizesInv
      <4> QED BY <1>6, <1>7, <4>1, Grounds
    <3>3. was.round \in {"first", "second", "more", "outer"}
      BY <1>3, <2>2
    <3>4. Good(r, excuse, epoch, seen)
      BY <1>3, <3>1, <3>2, <3>3, SeedCounts
    <3>5. TrayInv' /\ OpsFit(excuse, epoch, seen, op') /\ Apart(o)
      BY <1>6, <3>1, <3>4, OpsGoOn
    <3>6. CanvasInv'
      BY <1>1, <1>9, <2>2 DEF CanvasInv, ViewInv
    <3> QED BY <3>5, <3>6
  <2> QED BY <2>1, <2>2
<1>12. RunsInv'
  BY <1>1, <1>11, Stays DEF RunsInv
<1> QED BY <1>1, <1>10, <1>11, <1>12, Stays DEF Landed

LEMMA SeedCountedLands ==
  ASSUME ViewInv, NEW o \in Slots, X!SeedCounted(o)
  PROVE  Landed(o)
<1>1. op[o].stage = "seedCount" /\ op[o].live /\ UNCHANGED X!canvas /\ probes' = probes /\ UNCHANGED X!degree /\ UNCHANGED X!Rested
  BY DEF X!SeedCounted, X!Answer
<1>2. PICK was : was = op[o]
  OBVIOUS
<1>3. /\ was \in Ops /\ Follows(was, excuse, epoch, seen) /\ was.cand \in SUBSET Nodes
      /\ was.round \in {"first", "second", "more", "outer"}
  <2>1. op[o] \in Ops /\ Follows(op[o], excuse, epoch, seen) /\ Staged(op[o], excuse)
    BY <1>1, Answering
  <2> QED BY <1>1, <1>2, <2>1 DEF Ops, Staged, Apt
<1>4. PICK found, k :
        /\ found \in SUBSET X!Countable(X!Canvas, was.cand)
        /\ k = [X!Canvas EXCEPT !.counted = @ \cup found, !.seeding.tallied = @ \cup found]
        /\ counted' = k.counted
        /\ \E r \in X!SeedRing(k, was) : X!Goes(o, r, k.seeding)
  BY <1>2 DEF X!SeedCounted
<1>5. PICK Y, s : Y = counted \cup found /\ s = [seeding EXCEPT !.tallied = @ \cup found]
  OBVIOUS
<1>6. Y \in SUBSET Nodes /\ s \in Seedings
  <2>1. found \in SUBSET X!Countable(X!Canvas, was.cand)
    BY <1>4
  <2>2. found \in SUBSET Nodes /\ counted \in SUBSET Nodes /\ seeding \in Seedings
    BY <1>3, <2>1 DEF ViewInv, SizesInv, TrayInv, X!Countable
  <2>3. seeding.tallied \cup found \in SUBSET Nodes
    BY <2>2 DEF Seedings
  <2> QED BY <1>5, <2>2, <2>3 DEF Seedings
<1>7. k = [store |-> store, probes |-> probes, counted |-> Y, degrees |-> degrees, heavy |-> heavy, cursors |-> cursors, seeding |-> s]
  BY <1>4, <1>5 DEF X!Canvas
<1>8. k.seeding = s /\ k.counted = Y
  BY <1>7
<1>9. counted' = k.counted /\ \E r \in X!SeedRing(k, was) : X!Goes(o, r, k.seeding)
  BY <1>4
<1>10. SizesInv'
  BY <1>1, <1>6, <1>8, <1>9, Stays DEF SizesInv, ViewInv
<1>11. Ground(k, excuse, epoch, seen)
  <2>1. cursors \in [Nodes -> Marks] /\ CursorsSeen(cursors, seen) /\ store \in SUBSET Nodes /\ probes \in SUBSET Nodes
    BY DEF ViewInv, CanvasInv, CanvasFits, SizesInv
  <2> QED BY <1>6, <1>7, <2>1, Grounds
<1>12. PICK r \in X!SeedRing(k, was) : X!Goes(o, r, s)
  BY <1>8, <1>9
<1>13. Good(r, excuse, epoch, seen)
  BY <1>3, <1>11, <1>12, SeedRings
<1>14. TrayInv' /\ OpsFit(excuse, epoch, seen, op') /\ Apart(o)
  BY <1>6, <1>12, <1>13, OpsGoOn
<1>15. RunsInv'
  BY <1>1, <1>14, Stays DEF RunsInv
<1> QED BY <1>1, <1>10, <1>14, <1>15, Stays DEF Landed

LEMMA RingLands ==
  ASSUME ViewInv, NEW o \in Slots, X!RingRead(o)
  PROVE  Landed(o)
<1>1. op[o].stage = "ring" /\ op[o].live /\ UNCHANGED X!sizes /\ seen' = seen /\ UNCHANGED X!Rested
  BY DEF X!RingRead, X!Answer
<1>2. PICK was : was = op[o]
  OBVIOUS
<1>3. /\ was \in Ops /\ Follows(was, excuse, epoch, seen) /\ was.batch \in SUBSET Nodes
      /\ was.round \in {"first", "second", "more"}
  <2>1. op[o] \in Ops /\ Follows(op[o], excuse, epoch, seen) /\ Staged(op[o], excuse)
    BY <1>1, Answering
  <2> QED BY <1>1, <1>2, <2>1 DEF Ops, Staged, Apt
<1>4. \/ \E es \in SUBSET X!EdgeIds :
           \E m \in X!Merged(UNION {X!Ends(e) : e \in es}) :
             /\ X!Place(m, es, X!Kept(cursors, m), X!Recovered(m.added))
             /\ \E r \in X!RingDone([X!After(m, X!Kept(cursors, m)) EXCEPT !.seeding = [seeding EXCEPT !.expanded = @ \cup was.batch]], was, m.added) :
                  X!Goes(o, r, [seeding EXCEPT !.expanded = @ \cup was.batch])
      \/ /\ \E r \in X!RingDone(X!Canvas, was, {}) : X!Goes(o, r, seeding)
         /\ UNCHANGED <<store, edges, hidden, cursors, phase>>
  BY <1>2 DEF X!RingRead
<1>5. CanvasInv' /\ TrayInv' /\ OpsFit(excuse, epoch, seen, op') /\ Apart(o)
  <2>1. ASSUME NEW es \in SUBSET X!EdgeIds, NEW m \in X!Merged(UNION {X!Ends(e) : e \in es}),
               X!Place(m, es, X!Kept(cursors, m), X!Recovered(m.added)),
               \E r \in X!RingDone([X!After(m, X!Kept(cursors, m)) EXCEPT !.seeding = [seeding EXCEPT !.expanded = @ \cup was.batch]], was, m.added) :
                  X!Goes(o, r, [seeding EXCEPT !.expanded = @ \cup was.batch])
        PROVE  CanvasInv' /\ TrayInv' /\ OpsFit(excuse, epoch, seen, op') /\ Apart(o)
    <3>1. PICK ns, cur, s, k, ph, added :
            /\ ns = UNION {X!Ends(e) : e \in es} /\ cur = X!Kept(cursors, m)
            /\ s = [seeding EXCEPT !.expanded = @ \cup was.batch] /\ k = [X!After(m, cur) EXCEPT !.seeding = s]
            /\ ph = X!Recovered(m.added) /\ added = m.added
      OBVIOUS
    <3>2. Fitting(m) /\ added \in SUBSET Nodes
      <4>1. \A e \in es : X!Ends(e) \in SUBSET Nodes
        BY Finite DEF ViewInv
      <4>2. ns \in SUBSET Nodes
        BY <3>1, <4>1
      <4>3. Fitting(m)
        BY <2>1, <3>1, <4>2, MergedFits DEF ViewInv, CanvasInv
      <4> QED BY <3>1, <4>3 DEF Fitting
    <3>3. cur \in [Nodes -> Marks] /\ CursorsSeen(cur, seen)
      BY <3>1, KeptFits DEF ViewInv, CanvasInv
    <3>4. s \in Seedings
      <4>1. seeding \in Seedings /\ seeding.expanded \cup was.batch \in SUBSET Nodes
        BY <1>3 DEF ViewInv, TrayInv, Seedings
      <4> QED BY <3>1, <4>1 DEF Seedings
    <3>5. Ground(k, excuse, epoch, seen)
      <4>1. k = [store |-> m.store, probes |-> probes, counted |-> counted, degrees |-> degrees, heavy |-> heavy, cursors |-> cur, seeding |-> s]
        BY <3>1 DEF X!After, X!Canvas
      <4>2. probes \in SUBSET Nodes /\ counted \in SUBSET Nodes /\ m.store \in SUBSET Nodes
        BY <3>2 DEF ViewInv, SizesInv, Fitting
      <4> QED BY <3>3, <3>4, <4>1, <4>2, Grounds
    <3>6. PICK r \in X!RingDone(k, was, added) : X!Goes(o, r, s)
      BY <2>1, <3>1
    <3>7. Good(r, excuse, epoch, seen)
      BY <1>3, <3>2, <3>5, <3>6, RingsDone
    <3>8. TrayInv' /\ OpsFit(excuse, epoch, seen, op') /\ Apart(o)
      BY <3>4, <3>6, <3>7, OpsGoOn
    <3>9. X!Place(m, es, cur, ph) /\ ph \in Phases /\ CursorsSeen(cur, seen')
      BY <1>1, <2>1, <3>1, <3>3, RecoveredFits DEF ViewInv, CanvasInv
    <3>10. CanvasInv'
      BY <3>2, <3>3, <3>9, Placing
    <3> QED BY <3>8, <3>10
  <2>2. ASSUME NEW r \in X!RingDone(X!Canvas, was, {}), X!Goes(o, r, seeding), UNCHANGED <<store, edges, hidden, cursors, phase>>
        PROVE  CanvasInv' /\ TrayInv' /\ OpsFit(excuse, epoch, seen, op') /\ Apart(o)
    <3>1. PICK none : none = {}
      OBVIOUS
    <3>2. none \in SUBSET Nodes /\ r \in X!RingDone(X!Canvas, was, none) /\ Ground(X!Canvas, excuse, epoch, seen) /\ seeding \in Seedings
      BY <2>2, <3>1, GroundNow DEF ViewInv, TrayInv
    <3>3. Good(r, excuse, epoch, seen)
      BY <1>3, <3>2, RingsDone
    <3>4. TrayInv' /\ OpsFit(excuse, epoch, seen, op') /\ Apart(o)
      BY <2>2, <3>2, <3>3, OpsGoOn
    <3>5. CanvasInv'
      BY <1>1, <2>2 DEF CanvasInv, ViewInv
    <3> QED BY <3>4, <3>5
  <2> QED BY <1>4, <2>1, <2>2
<1>6. RunsInv'
  BY <1>1, <1>5, Stays DEF RunsInv
<1> QED BY <1>1, <1>5, <1>6, Stays DEF Landed

LEMMA SeedConnectedLands ==
  ASSUME ViewInv, NEW o \in Slots, X!SeedConnected(o)
  PROVE  Landed(o)
<1>1. /\ op[o].stage = "seedConnect" /\ op[o].live /\ UNCHANGED X!sizes /\ seen' = seen /\ UNCHANGED X!Rested
      /\ op' = [op EXCEPT ![o] = X!Idle] /\ seeding' = [seeding EXCEPT !.frontier = op[o].batch] /\ UNCHANGED <<offer, large>>
  BY DEF X!SeedConnected, X!Answer
<1>2. PICK ok \in BOOLEAN : X!Place(X!Without({}), IF ok THEN X!Between(op[o]) ELSE {}, cursors, phase)
  BY DEF X!SeedConnected
<1>3. CanvasInv'
  <2>1. PICK es, m, cur, ph : es = (IF ok THEN X!Between(op[o]) ELSE {}) /\ m = X!Without({}) /\ cur = cursors /\ ph = phase
    OBVIOUS
  <2>2. es \in SUBSET X!EdgeIds
    BY <2>1 DEF X!Between
  <2>3. Fitting(m) /\ cur \in [Nodes -> Marks] /\ CursorsSeen(cur, seen') /\ ph \in Phases
    BY <1>1, <2>1, WithoutFits DEF ViewInv, CanvasInv
  <2> QED BY <1>2, <2>1, <2>2, <2>3, Placing
<1>4. TrayInv'
  <2>1. op[o] \in Ops
    BY <1>1, Answering
  <2>2. op[o].batch \in SUBSET Nodes /\ seeding \in Seedings
    BY <2>1 DEF Ops, ViewInv, TrayInv
  <2>3. seeding' \in Seedings
    BY <1>1, <2>2 DEF Seedings
  <2> QED BY <1>1, <2>3 DEF TrayInv, ViewInv
<1>5. RunsInv' /\ Apart(o)
  BY <1>1, EndsOne, Stays DEF RunsInv
<1> QED BY <1>1, <1>3, <1>4, <1>5, Stays DEF Landed

-----------------------------------------------------------------------------
(* The user. *)

\* An operation of no node's sides, as it starts.
LEMMA Launches ==
  ASSUME ViewInv, NEW q \in Ops, q.kind \notin {"idle", "expand"}, q.live, q.epoch = epoch, Apt(q, excuse)
  PROVE  OpFits(q, excuse, epoch, seen)
<1>1. Base(q, epoch, seen) /\ Staged(q, excuse)
  BY DEF Base, Staged
<1> QED BY <1>1, LiveFits DEF ViewInv

\* A degree found these sides of n large: of the others, those that are large
\* have few edges but of hidden labels.
LEMMA DegreesGrow ==
  ASSUME ViewInv, NEW n \in Nodes, NEW found \in SUBSET X!Sides, X!DegreeLoaded(n, found),
         \A s \in X!Sides \ found : <<n, s>> \in Big \cup Dense => <<n, s>> \in Veiled, confirmed' = confirmed
  PROVE  DegreesInv' /\ Wider(excuse, excuse')
<1>1. /\ degrees' = degrees \cup {n} /\ heavy' = (heavy \ ({n} \X X!Sides)) \cup ({n} \X found)
      /\ thinned' = thinned \cup (({n} \X (X!Sides \ found)) \cap (Big \cup Dense))
  BY DEF X!DegreeLoaded
<1>2. DegreesInv
  BY DEF ViewInv, SizesInv
<1>3. degrees' \in SUBSET Nodes /\ heavy' \in SUBSET (degrees' \X X!Sides) /\ thinned' \in SUBSET Veiled
  BY <1>1, <1>2 DEF DegreesInv
<1>4. X!LargeSides(degrees') \subseteq heavy' \cup thinned'
  <2>1. SUFFICES ASSUME NEW m \in degrees', NEW s \in X!Sides, <<m, s>> \in Big \cup Dense PROVE <<m, s>> \in heavy' \cup thinned'
    BY DEF X!LargeSides
  <2>2. CASE m = n
    BY <1>1, <2>1, <2>2
  <2>3. CASE m # n
    <3>1. <<m, s>> \in heavy \cup thinned
      BY <1>1, <1>2, <2>1, <2>3 DEF DegreesInv, X!LargeSides
    <3> QED BY <1>1, <2>3, <3>1
  <2> QED BY <2>2, <2>3
<1>5. Wider(excuse, excuse')
  BY <1>1 DEF Wider, excuse
<1>6. X!LargeSides(degrees)' = X!LargeSides(degrees')
  BY DEF X!LargeSides
<1> QED BY <1>3, <1>4, <1>5, <1>6 DEF DegreesInv

LEMMA LoadedLands ==
  ASSUME ViewInv, NEW o \in Slots, NEW n \in Nodes, NEW found \in SUBSET X!Sides, X!DegreeLoaded(n, found),
         \A s \in X!Sides \ found : <<n, s>> \in Big \cup Dense => <<n, s>> \in Veiled,
         op' = [op EXCEPT ![o] = X!Idle], UNCHANGED X!canvas, UNCHANGED X!Rested
  PROVE  DegreesInv' /\ RunsInv' /\ Apart(o)
<1>1. UNCHANGED <<confirmed, epoch, seen>>
  BY Stays
<1>2. OpsFit(excuse, epoch, seen, op') /\ Apart(o)
  BY EndsOne
<1>3. DegreesInv' /\ Wider(excuse, excuse')
  BY <1>1, DegreesGrow
<1>4. PICK was, now : was = excuse /\ now = excuse'
  OBVIOUS
<1>5. OpsFit(now, epoch, seen, op')
  BY <1>2, <1>3, <1>4, OpsStillFit
<1> QED BY <1>1, <1>2, <1>3, <1>4, <1>5 DEF RunsInv

\* Asked past the probe: a degree is counted, or known without a count.
LEMMA AskDegreeLands ==
  ASSUME ViewInv, NEW o \in Slots, NEW n \in Nodes, NEW small \in SUBSET X!Sides, X!AskDegree(o, n, small),
         UNCHANGED X!canvas, UNCHANGED X!Rested
  PROVE  DegreesInv' /\ RunsInv' /\ Apart(o)
<1>1. CASE small = {}
  <2>1. PICK all : all = X!Sides
    OBVIOUS
  <2>2. X!DegreeLoaded(n, all) /\ op' = [op EXCEPT ![o] = X!Idle] /\ all \in SUBSET X!Sides /\ X!Sides \ all = {}
    BY <1>1, <2>1 DEF X!AskDegree
  <2> QED BY <2>2, LoadedLands
<1>2. CASE small # {}
  <2>1. PICK st, q : st = X!Start("degree", "degree", "degree") /\ q = [st EXCEPT !.node = n, !.sides = small]
    OBVIOUS
  <2>2. op' = [op EXCEPT ![o] = q] /\ UNCHANGED X!degree
    BY <1>2, <2>1 DEF X!AskDegree
  <2>3. "degree" \in OpKinds /\ "degree" \in Stages /\ "degree" \in Keys
    BY DEF OpKinds, Stages, Keys
  <2>4. st \in Ops /\ st.kind = "degree" /\ st.stage = "degree" /\ st.live /\ st.epoch = epoch
    BY <2>1, <2>3, Begins DEF ViewInv
  <2>5. q \in Ops /\ q.kind = "degree" /\ q.stage = "degree" /\ q.live /\ q.epoch = epoch /\ q.node = n
    BY <2>1, <2>4 DEF Ops
  <2>6. Apt(q, excuse)
    BY <2>5 DEF Apt
  <2>7. OpFits(q, excuse, epoch, seen)
    BY <2>5, <2>6, Launches
  <2>8. OpsFit(excuse, epoch, seen, op') /\ Apart(o)
    BY <2>2, <2>7, OneMoves
  <2>9. DegreesInv' /\ UNCHANGED <<excuse, epoch, seen>>
    BY <2>2, Stays
  <2> QED BY <2>8, <2>9 DEF RunsInv
<1> QED BY <1>1, <1>2

LEMMA DegreeLands ==
  ASSUME ViewInv, NEW o \in Slots, X!DegreeProbed(o) \/ X!DegreeRead(o) \/ X!RelationshipsCounted(o)
  PROVE  Landed(o)
<1>1. /\ op[o].stage \in {"degreeProbe", "degree", "countAll"} /\ op[o].live /\ counted' = counted
      /\ UNCHANGED X!canvas /\ UNCHANGED <<offer, large, seeding>> /\ UNCHANGED X!Rested
  BY DEF X!DegreeProbed, X!DegreeRead, X!RelationshipsCounted, X!Answer
<1>2. PICK n, ss : n = op[o].node /\ ss = op[o].sides
  OBVIOUS
<1>3. n \in Nodes /\ ss \in SUBSET X!Sides
  <2>1. op[o] \in Ops /\ Staged(op[o], excuse)
    BY <1>1, Answering
  <2> QED BY <1>1, <1>2, <2>1 DEF Staged, Apt, Ops
<1>4. ASSUME NEW tried \in SUBSET X!Sides, X!DegreeLoaded(n, (X!Sides \ tried) \cup X!CountedOver(n)),
             op' = [op EXCEPT ![o] = X!Idle]
      PROVE  DegreesInv' /\ RunsInv' /\ Apart(o)
  <2>1. PICK found : found = (X!Sides \ tried) \cup X!CountedOver(n)
    OBVIOUS
  <2>2. found \in SUBSET X!Sides /\ \A s \in X!Sides \ found : <<n, s>> \in Big \cup Dense => <<n, s>> \in Veiled
    BY <2>1 DEF X!CountedOver
  <2>3. X!DegreeLoaded(n, found)
    BY <1>4, <2>1
  <2> QED BY <1>1, <1>3, <1>4, <2>2, <2>3, LoadedLands
<1>5. DegreesInv' /\ RunsInv' /\ Apart(o) /\ probes' \in {probes, probes \cup {n}}
  <2>1. CASE X!DegreeProbed(o)
    <3>1. PICK small : small = {s \in X!Sides : <<n, s>> \notin Big}
      OBVIOUS
    <3>2. \/ probes' = probes \cup {n} /\ X!AskDegree(o, n, small)
          \/ op' = [op EXCEPT ![o] = X!Idle] /\ probes' = probes /\ UNCHANGED X!degree
      BY <1>2, <2>1, <3>1 DEF X!DegreeProbed
    <3>3. CASE probes' = probes \cup {n} /\ X!AskDegree(o, n, small)
      <4>1. small \in SUBSET X!Sides
        BY <3>1
      <4> QED BY <1>1, <1>3, <3>3, <4>1, AskDegreeLands
    <3>4. CASE op' = [op EXCEPT ![o] = X!Idle] /\ probes' = probes /\ UNCHANGED X!degree
      BY <1>1, <3>4, EndsOne, Stays DEF RunsInv
    <3> QED BY <3>2, <3>3, <3>4
  <2>2. CASE X!DegreeRead(o)
    <3>1. /\ op' = [op EXCEPT ![o] = X!Idle] /\ probes' = probes
          /\ X!DegreeLoaded(n, (X!Sides \ ss) \cup X!CountedOver(n)) \/ UNCHANGED X!degree
      BY <1>2, <2>2 DEF X!DegreeRead
    <3>2. CASE UNCHANGED X!degree
      BY <1>1, <3>1, <3>2, EndsOne, Stays DEF RunsInv
    <3>3. CASE X!DegreeLoaded(n, (X!Sides \ ss) \cup X!CountedOver(n))
      BY <1>3, <1>4, <3>1, <3>3
    <3> QED BY <3>1, <3>2, <3>3
  <2>3. CASE X!RelationshipsCounted(o)
    <3>1. op' = [op EXCEPT ![o] = X!Idle] /\ probes' = probes /\ X!DegreeLoaded(n, X!CountedOver(n))
      BY <1>2, <2>3 DEF X!RelationshipsCounted
    <3>2. X!CountedOver(n) = (X!Sides \ X!Sides) \cup X!CountedOver(n) /\ X!Sides \in SUBSET X!Sides
      OBVIOUS
    <3>3. PICK all : all = X!Sides
      OBVIOUS
    <3>4. all \in SUBSET X!Sides /\ X!DegreeLoaded(n, (X!Sides \ all) \cup X!CountedOver(n))
      BY <3>1, <3>2, <3>3
    <3> QED BY <1>4, <3>1, <3>4
  <2> QED BY <2>1, <2>2, <2>3
<1>6. SizesInv'
  BY <1>1, <1>3, <1>5 DEF SizesInv, ViewInv
<1> QED BY <1>1, <1>5, <1>6, Stays DEF Landed

\* Every answer lands well.
LEMMA AnswersLand ==
  ASSUME ViewInv, NEW o \in Slots, X!Answers(o) \/ X!FirstView(o)
  PROVE  Landed(o)
BY EndedLands, ProbedLands, CountedLands, ConnectedLands, SizedLands, PageReadLands, PageGoneLands, RowsReadLands,
   RevealedLands, FetchedLands, DegreeLands, LabelsLand, CandidatesLand, SampleLands, SeedProbedLands, SeedCountedLands,
   RingLands, SeedConnectedLands
   DEF X!Answers, X!FirstView

LEMMA ExpandLands ==
  ASSUME ViewInv, NEW o \in Slots, NEW n \in Nodes, NEW ss \in SUBSET X!Sides, NEW asked \in BOOLEAN, X!Expand(o, n, ss, asked)
  PROVE  Landed(o)
<1>1. PICK rec, st : st = X!Start("expand", "size", n) /\ rec = [st EXCEPT !.node = n, !.sides = ss]
  OBVIOUS
<1>2. PICK open, cf : open = {s \in ss : <<n, s>> \notin confirmed} /\ cf = excuse'
  OBVIOUS
<1>3. /\ confirmed' = IF asked THEN confirmed \cup {n} \X ss ELSE confirmed
      /\ \/ ~asked /\ op' = [op EXCEPT ![o] = rec] /\ UNCHANGED <<warned, offer, large, seeding>>
         \/ /\ asked \/ X!Small(X!Canvas, n, open)
            /\ \E r \in X!ReadSides(X!Canvas, rec) : X!Goes(o, r, seeding)
            /\ warned' \in {warned, [warned EXCEPT ![n] = {}]}
         \/ /\ ~asked /\ warned' = [warned EXCEPT ![n] = ss] /\ UNCHANGED <<op, offer, large, seeding>>
      /\ UNCHANGED X!canvas /\ UNCHANGED X!sizes /\ epoch' = epoch /\ labelRows' = labelRows
  BY <1>1, <1>2 DEF X!Expand
<1>4. Base(rec, epoch, seen) /\ rec.kind = "expand" /\ rec.stage = "size" /\ rec.node = n /\ rec.sides = ss /\ rec.queue = {}
  <2>1. /\ st \in Ops /\ st.kind = "expand" /\ st.live /\ st.epoch = epoch /\ st.from = X!Fresh /\ st.queue = {} /\ st.stage = "size"
    <3>1. "expand" \in OpKinds /\ "size" \in Stages /\ n \in Keys
      BY DEF OpKinds, Stages, Keys
    <3> QED BY <1>1, <3>1, Begins DEF ViewInv
  <2>2. /\ rec \in Ops /\ rec.kind = "expand" /\ rec.live /\ rec.epoch = epoch /\ rec.from = X!Fresh /\ rec.queue = {} /\ rec.node = n
        /\ rec.stage = "size" /\ rec.sides = ss
    BY <1>1, <2>1 DEF Ops
  <2>3. MarksSeen(n, X!Fresh, seen)
    BY Marked DEF MarksSeen, X!EdgesOf, ViewInv
  <2> QED BY <2>2, <2>3 DEF Base
<1>5. /\ Wider(excuse, cf) /\ confirmed' \in SUBSET X!NodeSides /\ cf.chosen = confirmed'
      /\ confirmed' = confirmed => cf = excuse
  <2>1. thinned' = thinned
    BY <1>3 DEF X!sizes, X!degree
  <2> QED BY <1>2, <1>3, <2>1 DEF excuse, Wider, ViewInv, RestInv, X!NodeSides
<1>6. SizesInv' /\ CanvasInv' /\ seen' = seen
  BY <1>3, Stays
<1>7. RestInv'
  BY <1>2, <1>3, <1>5 DEF RestInv, ViewInv
<1>8. CASE ~asked /\ op' = [op EXCEPT ![o] = rec] /\ UNCHANGED <<warned, offer, large, seeding>>
  <2>1. Staged(rec, excuse)
    BY <1>4 DEF Staged, Apt
  <2>2. OpFits(rec, excuse, epoch, seen)
    BY <1>4, <2>1, LiveFits DEF ViewInv
  <2>3. OpsFit(excuse, epoch, seen, op') /\ Apart(o)
    BY <1>8, <2>2, OneMoves
  <2>4. excuse' = excuse
    BY <1>2, <1>3, <1>5, <1>8
  <2>5. RunsInv'
    BY <1>3, <1>6, <2>3, <2>4 DEF RunsInv
  <2> QED BY <1>6, <1>7, <1>8, <2>3, <2>5, Stays DEF Landed
<1>9. CASE (asked \/ X!Small(X!Canvas, n, open)) /\ \E r \in X!ReadSides(X!Canvas, rec) : X!Goes(o, r, seeding)
  <2>1. PICK r \in X!ReadSides(X!Canvas, rec) : X!Goes(o, r, seeding)
    BY <1>9
  <2>2. Chosen(rec.node, rec.sides, cf)
    <3>1. CASE asked
      BY <1>3, <1>4, <1>5, <3>1 DEF Chosen
    <3>2. CASE X!Small(X!Canvas, n, open)
      <4>1. \A s \in open : <<n, s>> \in Big => <<n, s>> \in excuse.thin
        BY <1>2, <3>2, GroundNow, Small DEF X!Small, Ground
      <4>2. \A s \in ss : <<n, s>> \in Big => <<n, s>> \in confirmed' \cup excuse.thin
        BY <1>2, <1>3, <4>1
      <4> QED BY <1>4, <1>5, <4>2 DEF Chosen, Wider
    <3> QED BY <1>9, <3>1, <3>2
  <2>3. PICK k : k = X!Canvas
    OBVIOUS
  <2>4. k \in Canvases /\ CursorsSeen(k.cursors, seen) /\ X!ExplorerConstants /\ epoch \in Nat /\ seeding \in Seedings
    BY <2>3, GroundNow DEF Ground
  <2>5. Good(r, cf, epoch, seen)
    BY <1>4, <2>1, <2>2, <2>3, <2>4, ReadsWell
  <2>6. TrayInv' /\ OpsFit(cf, epoch, seen, op') /\ Apart(o)
    BY <1>5, <2>1, <2>4, <2>5, OpsGoWider
  <2>7. RunsInv'
    BY <1>2, <1>3, <1>6, <2>6 DEF RunsInv
  <2> QED BY <1>6, <1>7, <2>6, <2>7 DEF Landed
<1>10. CASE ~asked /\ UNCHANGED <<op, offer, large, seeding>>
  <2>1. RunsInv'
    BY <1>2, <1>3, <1>5, <1>6, <1>10 DEF RunsInv, ViewInv
  <2>2. Apart(o) /\ TrayInv'
    BY <1>10, Stays DEF Apart
  <2> QED BY <1>6, <1>7, <2>1, <2>2 DEF Landed
<1> QED BY <1>3, <1>8, <1>9, <1>10

\* An operation as it starts, with what it is asked for.
Launched(q, st) ==
  \/ q = st
  \/ \E ns \in SUBSET Nodes : q = [st EXCEPT !.cand = ns]
  \/ \E n \in Nodes : q = [st EXCEPT !.node = n]
  \/ \E tries, size \in Nat : q = [st EXCEPT !.tries = tries, !.size = size]
Aimed(q, st, stage) ==
  stage \in {"rows", "fetch", "candidates"} \/ (stage \in {"reveal", "degreeProbe", "degree", "countAll"} /\ \E n \in Nodes : q = [st EXCEPT !.node = n])

LEMMA LaunchLands ==
  ASSUME ViewInv, NEW o \in Slots, NEW kind \in OpKinds \ {"idle", "expand"}, NEW stage \in Stages, NEW key \in Keys,
         NEW st, st = X!Start(kind, stage, key), NEW q, Launched(q, st), Aimed(q, st, stage), op' = [op EXCEPT ![o] = q]
  PROVE  OpsFit(excuse, epoch, seen, op') /\ Apart(o)
<1>1. st \in Ops /\ st.kind = kind /\ st.stage = stage /\ st.live /\ st.epoch = epoch
  BY Begins DEF ViewInv
<1>2. q \in Ops /\ q.kind = kind /\ q.stage = stage /\ q.live /\ q.epoch = epoch
  <2>1. CASE q = st
    BY <1>1, <2>1
  <2>2. ASSUME NEW ns \in SUBSET Nodes, q = [st EXCEPT !.cand = ns] PROVE q \in Ops /\ q.kind = kind /\ q.stage = stage /\ q.live /\ q.epoch = epoch
    BY <1>1, <2>2 DEF Ops
  <2>3. ASSUME NEW n \in Nodes, q = [st EXCEPT !.node = n] PROVE q \in Ops /\ q.kind = kind /\ q.stage = stage /\ q.live /\ q.epoch = epoch
    BY <1>1, <2>3 DEF Ops
  <2>4. ASSUME NEW tries \in Nat, NEW size \in Nat, q = [st EXCEPT !.tries = tries, !.size = size]
        PROVE  q \in Ops /\ q.kind = kind /\ q.stage = stage /\ q.live /\ q.epoch = epoch
    BY <1>1, <2>4 DEF Ops
  <2> QED BY <2>1, <2>2, <2>3, <2>4 DEF Launched
<1>3. stage \in {"reveal", "degreeProbe", "degree", "countAll"} => q.node \in Nodes
  <2>1. SUFFICES ASSUME stage \in {"reveal", "degreeProbe", "degree", "countAll"} PROVE q.node \in Nodes
    OBVIOUS
  <2>2. PICK n \in Nodes : q = [st EXCEPT !.node = n]
    BY <2>1 DEF Aimed
  <2> QED BY <1>1, <2>2 DEF Ops
<1>4. Apt(q, excuse) /\ kind \notin {"idle", "expand"}
  <2>1. stage \in {"rows", "fetch", "candidates", "reveal", "degreeProbe", "degree", "countAll"}
    BY DEF Aimed
  <2> QED BY <1>2, <1>3, <2>1 DEF Apt
<1>5. OpFits(q, excuse, epoch, seen)
  BY <1>2, <1>4, Launches
<1> QED BY <1>5, OneMoves

LEMMA AskedLand ==
  ASSUME ViewInv, NEW o \in Slots,
         \/ X!LoadLabelPage(o) \/ X!LoadSample(o) \/ \E ns \in SUBSET Nodes : X!Fetch(o, ns)
         \/ \E n \in Nodes : X!CountRelationships(o, n)
  PROVE  Landed(o)
<1>1. UNCHANGED X!canvas /\ UNCHANGED X!sizes /\ UNCHANGED <<offer, large>> /\ UNCHANGED X!Rested
  BY DEF X!LoadLabelPage, X!Fetch, X!CountRelationships, X!LoadSample
<1>2. seeding' = seeding \/ seeding' = X!NewSeeding
  BY DEF X!LoadLabelPage, X!Fetch, X!CountRelationships, X!LoadSample
<1>3. TrayInv'
  <2>1. X!NewSeeding \in Seedings
    BY DEF X!NewSeeding, Seedings
  <2> QED BY <1>1, <1>2, <2>1 DEF TrayInv, ViewInv
<1>4. OpsFit(excuse, epoch, seen, op') /\ Apart(o)
  <2>1. CASE X!LoadLabelPage(o)
    <3>1. PICK kind, stage, key, st, tries, size :
            /\ kind = "rows" /\ stage = "rows" /\ key = "rows" /\ st = X!Start(kind, stage, key)
            /\ tries = MaxRequests /\ size = X!PageRows(store)
      OBVIOUS
    <3>2. PICK q : q = [st EXCEPT !.tries = tries, !.size = size]
      OBVIOUS
    <3>3. tries \in Nat /\ size \in Nat
      BY <3>1, Finite, PageRowsFit DEF ViewInv, CanvasInv, CanvasFits
    <3>4. op' = [op EXCEPT ![o] = q]
      BY <2>1, <3>1, <3>2 DEF X!LoadLabelPage
    <3>5. kind \in OpKinds \ {"idle", "expand"} /\ stage \in Stages /\ key \in Keys /\ stage \in {"rows", "fetch", "candidates"}
      BY <3>1 DEF OpKinds, Stages, Keys
    <3>6. Launched(q, st) /\ Aimed(q, st, stage)
      BY <3>1, <3>2, <3>3 DEF Launched, Aimed
    <3> QED BY <3>1, <3>4, <3>5, <3>6, LaunchLands
  <2>2. ASSUME NEW ns \in SUBSET Nodes, X!Fetch(o, ns) PROVE OpsFit(excuse, epoch, seen, op') /\ Apart(o)
    <3>1. PICK kind, stage, key, st :
            kind = "fetch" /\ stage = "fetch" /\ key = "fetch" /\ st = X!Start(kind, stage, key)
      OBVIOUS
    <3>2. PICK q : q = [st EXCEPT !.cand = ns]
      OBVIOUS
    <3>3. op' = [op EXCEPT ![o] = q]
      BY <2>2, <3>1, <3>2 DEF X!Fetch
    <3>4. kind \in OpKinds \ {"idle", "expand"} /\ stage \in Stages /\ key \in Keys /\ stage \in {"rows", "fetch", "candidates"}
      BY <3>1 DEF OpKinds, Stages, Keys
    <3>5. Launched(q, st) /\ Aimed(q, st, stage)
      BY <3>1, <3>2 DEF Launched, Aimed
    <3> QED BY <3>1, <3>3, <3>4, <3>5, LaunchLands
  <2>3. ASSUME NEW n \in Nodes, X!CountRelationships(o, n) PROVE OpsFit(excuse, epoch, seen, op') /\ Apart(o)
    <3>1. PICK kind, stage, key, st :
            kind = "count" /\ stage = "countAll" /\ key = "countAll" /\ st = X!Start(kind, stage, key)
      OBVIOUS
    <3>2. PICK q : q = [st EXCEPT !.node = n]
      OBVIOUS
    <3>3. op' = [op EXCEPT ![o] = q]
      BY <2>3, <3>1, <3>2 DEF X!CountRelationships
    <3>4. kind \in OpKinds \ {"idle", "expand"} /\ stage \in Stages /\ key \in Keys /\ stage \in {"reveal", "degreeProbe", "degree", "countAll"}
      BY <3>1 DEF OpKinds, Stages, Keys
    <3>5. Launched(q, st) /\ Aimed(q, st, stage)
      BY <3>2, <3>4 DEF Launched, Aimed
    <3> QED BY <3>1, <3>3, <3>4, <3>5, LaunchLands
  <2>4. CASE X!LoadSample(o)
    <3>1. PICK kind, stage, key, st :
            kind = "sample" /\ stage = "candidates" /\ key = "sample" /\ st = X!Start(kind, stage, key)
      OBVIOUS
    <3>2. op' = [op EXCEPT ![o] = st]
      BY <2>4, <3>1 DEF X!LoadSample
    <3>3. kind \in OpKinds \ {"idle", "expand"} /\ stage \in Stages /\ key \in Keys /\ stage \in {"rows", "fetch", "candidates"}
      BY <3>1 DEF OpKinds, Stages, Keys
    <3>4. Launched(st, st) /\ Aimed(st, st, stage)
      BY <3>1 DEF Launched, Aimed
    <3> QED BY <3>1, <3>2, <3>3, <3>4, LaunchLands
  <2> QED BY <2>1, <2>2, <2>3, <2>4
<1>5. RunsInv'
  BY <1>1, <1>4, Stays DEF RunsInv
<1> QED BY <1>1, <1>3, <1>4, <1>5, Stays DEF Landed

LEMMA FetchDegreeLands ==
  ASSUME ViewInv, NEW o \in Slots, NEW n \in Nodes, X!FetchDegree(o, n)
  PROVE  Landed(o)
<1>1. /\ UNCHANGED X!canvas /\ UNCHANGED <<offer, large, seeding>> /\ UNCHANGED X!Rested
      /\ probes' = probes /\ counted' = counted
  BY DEF X!FetchDegree
<1>2. DegreesInv' /\ RunsInv' /\ Apart(o)
  <2>1. CASE n \in probes
    <3>1. PICK small : small = X!Sides \ X!ProbedOver(X!Canvas, n)
      OBVIOUS
    <3>2. X!AskDegree(o, n, small) /\ small \in SUBSET X!Sides
      BY <2>1, <3>1 DEF X!FetchDegree
    <3> QED BY <1>1, <3>2, AskDegreeLands
  <2>2. CASE n \notin probes
    <3>1. PICK kind, stage, key, st :
            kind = "degree" /\ stage = "degreeProbe" /\ key = "degree" /\ st = X!Start(kind, stage, key)
      OBVIOUS
    <3>2. PICK q : q = [st EXCEPT !.node = n]
      OBVIOUS
    <3>3. op' = [op EXCEPT ![o] = q] /\ UNCHANGED X!degree
      BY <2>2, <3>1, <3>2 DEF X!FetchDegree
    <3>4. kind \in OpKinds \ {"idle", "expand"} /\ stage \in Stages /\ key \in Keys /\ stage \in {"reveal", "degreeProbe", "degree", "countAll"}
      BY <3>1 DEF OpKinds, Stages, Keys
    <3>5. Launched(q, st) /\ Aimed(q, st, stage)
      BY <3>2, <3>4 DEF Launched, Aimed
    <3>6. OpsFit(excuse, epoch, seen, op') /\ Apart(o)
      BY <3>1, <3>3, <3>4, <3>5, LaunchLands
    <3> QED BY <1>1, <3>3, <3>6, Stays DEF RunsInv
  <2> QED BY <2>1, <2>2
<1>3. SizesInv'
  BY <1>1, <1>2 DEF SizesInv, ViewInv
<1> QED BY <1>1, <1>2, <1>3, Stays DEF Landed

LEMMA RevealLands ==
  ASSUME ViewInv, NEW o \in Slots, NEW n \in Nodes, X!RevealNode(o, n)
  PROVE  Landed(o)
<1>1. seen' = seen /\ UNCHANGED X!sizes /\ UNCHANGED <<offer, large, seeding>> /\ UNCHANGED X!Rested
  BY DEF X!RevealNode
<1>2. CASE n \in store
  <2>1. hidden' = hidden \ {n} /\ UNCHANGED <<store, edges, cursors, phase, op>>
    BY <1>2 DEF X!RevealNode
  <2>2. CanvasInv'
    BY <1>1, <2>1 DEF CanvasInv, CanvasFits, ViewInv
  <2>3. RunsInv' /\ Apart(o)
    BY <1>1, <2>1, Stays DEF Apart
  <2> QED BY <1>1, <2>2, <2>3, Stays DEF Landed
<1>3. CASE n \notin store
  <2>1. PICK kind, stage, key, st :
          kind = "reveal" /\ stage = "reveal" /\ key = "reveal" /\ st = X!Start(kind, stage, key)
    OBVIOUS
  <2>2. PICK m \in X!Merged({n}) :
          /\ X!Place(m, {}, X!Kept(cursors, m), X!Recovered(m.added))
          /\ op' = [op EXCEPT ![o] = [st EXCEPT !.node = n]]
    BY <1>3, <2>1 DEF X!RevealNode
  <2>3. PICK q, cur, es, ph, ns : /\ q = [st EXCEPT !.node = n] /\ cur = X!Kept(cursors, m) /\ es = {}
                                  /\ ph = X!Recovered(m.added) /\ ns = {n}
    OBVIOUS
  <2>4. kind \in OpKinds \ {"idle", "expand"} /\ stage \in Stages /\ key \in Keys /\ stage \in {"reveal", "degreeProbe", "degree", "countAll"}
    BY <2>1 DEF OpKinds, Stages, Keys
  <2>5. OpsFit(excuse, epoch, seen, op') /\ Apart(o)
    <3>1. Launched(q, st) /\ Aimed(q, st, stage) /\ op' = [op EXCEPT ![o] = q]
      BY <2>2, <2>3, <2>4 DEF Launched, Aimed
    <3> QED BY <2>1, <2>4, <3>1, LaunchLands
  <2>6. Fitting(m)
    <3>1. ns \in SUBSET Nodes /\ m \in X!Merged(ns)
      BY <2>2, <2>3
    <3> QED BY <3>1, MergedFits DEF ViewInv, CanvasInv
  <2>7. cur \in [Nodes -> Marks] /\ CursorsSeen(cur, seen') /\ ph \in Phases /\ es \in SUBSET X!EdgeIds
    BY <1>1, <2>3, KeptFits, RecoveredFits DEF ViewInv, CanvasInv
  <2>8. X!Place(m, es, cur, ph)
    BY <2>2, <2>3
  <2>9. CanvasInv'
    BY <2>6, <2>7, <2>8, Placing
  <2>10. RunsInv'
    BY <1>1, <2>5, Stays DEF RunsInv
  <2> QED BY <1>1, <2>5, <2>9, <2>10, Stays DEF Landed
<1> QED BY <1>2, <1>3

LEMMA ConnectLands ==
  ASSUME ViewInv, NEW o \in Slots, NEW mode \in {"explicit", "confirmed"}, X!ConnectNodes(o, mode)
  PROVE  Landed(o)
<1>1. PICK ns, st, rec : /\ ns = IF mode = "explicit" THEN offer ELSE large
                         /\ st = X!Start("connect", "none", "connect") /\ rec = [st EXCEPT !.mode = mode]
  OBVIOUS
<1>2. PICK r \in X!ConnectNew(X!Canvas, rec, ns) :
        /\ op' = [op EXCEPT ![o] = r.op]
        /\ offer' = IF mode = "explicit" THEN {} ELSE offer
        /\ large' = IF mode = "explicit" THEN large \cup r.large ELSE {}
  BY <1>1 DEF X!ConnectNodes
<1>3. UNCHANGED X!canvas /\ UNCHANGED X!sizes /\ seeding' = seeding /\ UNCHANGED X!Rested
  BY DEF X!ConnectNodes
<1>4. Follows(rec, excuse, epoch, seen)
  <2>1. "connect" \in OpKinds /\ "none" \in Stages /\ "connect" \in Keys
    BY DEF OpKinds, Stages, Keys
  <2>2. st \in Ops /\ st.kind = "connect" /\ st.live /\ st.epoch = epoch
    BY <1>1, <2>1, Begins DEF ViewInv
  <2>3. rec \in Ops /\ rec.kind = "connect" /\ rec.live /\ rec.epoch = epoch
    BY <1>1, <2>2 DEF Ops
  <2> QED BY <2>3, Started DEF ViewInv
<1>5. Good(r, excuse, epoch, seen)
  BY <1>2, <1>4, GroundNow, ConnectsWell
<1>6. TrayInv'
  BY <1>2, <1>3, <1>5 DEF Good, Outs, TrayInv, ViewInv
<1>7. OpsFit(excuse, epoch, seen, op') /\ Apart(o)
  BY <1>2, <1>5, OneMoves DEF Good
<1>8. RunsInv'
  BY <1>3, <1>7, Stays DEF RunsInv
<1> QED BY <1>3, <1>6, <1>7, <1>8, Stays DEF Landed

LEMMA MoreLands ==
  ASSUME ViewInv, NEW o \in Slots, X!ShowMore(o)
  PROVE  Landed(o)
<1>1. PICK st, around : st = X!Start("more", "none", "more") /\ around = seeding.frontier \cap store
  OBVIOUS
<1>2. PICK rec : rec = [st EXCEPT !.round = "more", !.cand = around]
  OBVIOUS
<1>3. PICK r \in X!SeedProbe(X!Canvas, rec) : X!Goes(o, r, seeding)
  BY <1>1, <1>2 DEF X!ShowMore
<1>4. UNCHANGED X!canvas /\ UNCHANGED X!sizes /\ UNCHANGED X!Rested
  BY DEF X!ShowMore
<1>5. Follows(rec, excuse, epoch, seen) /\ rec.round = "more"
  <2>1. "more" \in OpKinds /\ "none" \in Stages /\ "more" \in Keys
    BY DEF OpKinds, Stages, Keys
  <2>2. st \in Ops /\ st.kind = "more" /\ st.live /\ st.epoch = epoch
    BY <1>1, <2>1, Begins DEF ViewInv
  <2>3. around \in SUBSET Nodes
    BY <1>1 DEF ViewInv, CanvasInv, CanvasFits
  <2>4. rec \in Ops /\ rec.kind = "more" /\ rec.live /\ rec.epoch = epoch /\ rec.round = "more"
    BY <1>2, <2>2, <2>3 DEF Ops
  <2> QED BY <2>4, Started DEF ViewInv
<1>6. Good(r, excuse, epoch, seen)
  BY <1>3, <1>5, GroundNow, SeedProbes
<1>7. TrayInv' /\ OpsFit(excuse, epoch, seen, op') /\ Apart(o)
  BY <1>3, <1>6, OpsGoOn DEF ViewInv, TrayInv
<1>8. RunsInv'
  BY <1>4, <1>7, Stays DEF RunsInv
<1> QED BY <1>4, <1>7, <1>8, Stays DEF Landed

\* The operations stay at their stages.
Steady == \A q \in Slots : op[q].kind # "idle" => op'[q].stage = op[q].stage
Shown == CanvasInv' /\ SizesInv' /\ RestInv' /\ TrayInv' /\ RunsInv' /\ Steady

LEMMA NodesLand ==
  ASSUME ViewInv, NEW n \in Nodes, X!HideNode(n) \/ X!RemoveNode(n)
  PROVE  Shown
<1>1. seen' = seen /\ UNCHANGED X!sizes /\ UNCHANGED <<op, offer, large, seeding>> /\ UNCHANGED X!Rested
  BY DEF X!HideNode, X!RemoveNode
<1>2. CanvasInv'
  <2>1. CASE X!HideNode(n)
    BY <1>1, <2>1 DEF X!HideNode, CanvasInv, CanvasFits, ViewInv
  <2>2. CASE X!RemoveNode(n)
    <3>1. PICK m, cur, es, ph : m = X!Without({n}) /\ cur = X!Kept(cursors, m) /\ es = {} /\ ph = phase
      OBVIOUS
    <3>2. X!Place(m, es, cur, ph)
      BY <2>2, <3>1 DEF X!RemoveNode
    <3>3. Fitting(m) /\ cur \in [Nodes -> Marks] /\ CursorsSeen(cur, seen') /\ es \in SUBSET X!EdgeIds /\ ph \in Phases
      BY <1>1, <3>1, WithoutFits, KeptFits DEF ViewInv, CanvasInv
    <3> QED BY <3>2, <3>3, Placing
  <2> QED BY <2>1, <2>2
<1>3. RunsInv' /\ Steady
  BY <1>1, Stays DEF Steady
<1> QED BY <1>1, <1>2, <1>3, Stays DEF Shown

\* What was aborted is from before.
Stopped(q, rec) == q = [rec EXCEPT !.live = FALSE] \/ q = [[rec EXCEPT !.live = FALSE] EXCEPT !.key = "none"]
LEMMA AbortedFits ==
  ASSUME NEW cf, NEW ep \in Nat, NEW sn, NEW rec, OpFits(rec, cf, ep, sn), rec.kind # "idle", NEW cf2, NEW sn2,
         NEW later \in Nat, later = ep + 1,
         NEW q, Stopped(q, rec)
  PROVE  OpFits(q, cf2, later, sn2) /\ q.stage = rec.stage
<1>1. rec \in Ops /\ rec.epoch \in Nat /\ rec.epoch <= ep
  BY DEF OpFits, Ops
<1>2. q \in Ops /\ q.kind = rec.kind /\ q.stage = rec.stage /\ q.epoch = rec.epoch /\ q.live = FALSE
  BY <1>1, ZenonT(60) DEF Ops, Keys, Stopped
<1>3. q.epoch <= later
  BY <1>1, <1>2
<1> QED BY <1>2, <1>3 DEF OpFits

LEMMA FreshFits ==
  ASSUME X!ExplorerConstants
  PROVE  /\ CanvasFits({}, {}, {}) /\ \A n \in Nodes : \A sn : MarksSeen(n, X!Fresh, sn)
         /\ \A cur, sn : cur = [n \in Nodes |-> X!Fresh] => cur \in [Nodes -> Marks] /\ CursorsSeen(cur, sn)
<1>1. X!Fresh \in Marks /\ \A n \in Nodes : \A sn : MarksSeen(n, X!Fresh, sn)
  BY Marked DEF MarksSeen, X!EdgesOf
<1>2. CanvasFits({}, {}, {})
  <2>1. Cardinality({}) <= Cap
    BY Finite, FS_EmptySet
  <2> QED BY <2>1 DEF CanvasFits
<1>3. \A cur, sn : cur = [n \in Nodes |-> X!Fresh] => cur \in [Nodes -> Marks] /\ CursorsSeen(cur, sn)
  BY <1>1 DEF CursorsSeen
<1> QED BY <1>1, <1>2, <1>3

LEMMA ClearLands ==
  ASSUME ViewInv, X!ClearCanvas
  PROVE  Shown
<1>1. /\ op' = [o \in Slots |-> IF op[o].kind = "idle" THEN X!Idle ELSE [op[o] EXCEPT !.live = FALSE]]
      /\ X!Place(X!Without(store), {}, [n \in Nodes |-> X!Fresh], phase)
      /\ confirmed' = {} /\ labelRows' = 0 /\ epoch' = epoch + 1
      /\ warned' = [n \in Nodes |-> {}] /\ offer' = {} /\ large' = {}
      /\ seen' = seen /\ UNCHANGED X!sizes /\ seeding' = seeding
  BY DEF X!ClearCanvas, X!Free, X!Aborted
<1>2. CanvasInv'
  <2>1. PICK m, cur, es, ph : m = X!Without(store) /\ cur = [n \in Nodes |-> X!Fresh] /\ es = {} /\ ph = phase
    OBVIOUS
  <2>2. X!Place(m, es, cur, ph)
    BY <1>1, <2>1
  <2>3. Fitting(m) /\ cur \in [Nodes -> Marks] /\ CursorsSeen(cur, seen') /\ es \in SUBSET X!EdgeIds /\ ph \in Phases
    BY <2>1, WithoutFits, FreshFits DEF ViewInv, CanvasInv
  <2> QED BY <2>2, <2>3, Placing
<1>3. RestInv' /\ TrayInv'
  <2>1. X!AllRows \in Nat
    BY RowsFit DEF ViewInv
  <2> QED BY <1>1, <2>1 DEF RestInv, TrayInv, ViewInv
<1>4. PICK cf : cf = excuse'
  OBVIOUS
<1>5. \A o \in Slots : OpFits(op[o], excuse, epoch, seen) /\ epoch \in Nat
  BY DEF ViewInv, RunsInv, OpsFit
<1>6. \A o \in Slots : OpFits(op'[o], cf, epoch + 1, seen) /\ (op[o].kind # "idle" => op'[o].stage = op[o].stage)
  <2>1. TAKE o \in Slots
  <2>2. CASE op[o].kind = "idle"
    <3>1. op'[o] = X!Idle
      BY <1>1, <2>2
    <3>2. PICK ep : ep = epoch + 1
      OBVIOUS
    <3>3. ep \in Nat
      BY <3>2 DEF ViewInv
    <3>4. OpFits(X!Idle, cf, ep, seen)
      BY <3>3, IdleFits DEF ViewInv
    <3> QED BY <2>2, <3>1, <3>2, <3>4
  <2>3. CASE op[o].kind # "idle"
    <3>1. PICK rec : rec = op[o]
      OBVIOUS
    <3>2. op'[o] = [rec EXCEPT !.live = FALSE]
      BY <1>1, <2>3, <3>1
    <3>3. OpFits(rec, excuse, epoch, seen) /\ rec.kind # "idle" /\ epoch \in Nat
      BY <1>5, <2>3, <3>1
    <3>4. PICK q, was, ep : q = op'[o] /\ was = excuse /\ ep = epoch + 1
      OBVIOUS
    <3>5. OpFits(q, cf, ep, seen) /\ q.stage = rec.stage
      <4>1. OpFits(rec, was, epoch, seen) /\ Stopped(q, rec)
        BY <3>2, <3>3, <3>4 DEF Stopped
      <4>2. ep \in Nat
        BY <3>3, <3>4
      <4> QED BY <3>3, <3>4, <4>1, <4>2, AbortedFits
    <3> QED BY <3>1, <3>4, <3>5
  <2> QED BY <2>2, <2>3
<1>7. RunsInv'
  <2>1. op' \in [Slots -> Ops]
    BY <1>1, <1>6 DEF OpFits
  <2> QED BY <1>1, <1>4, <1>6, <2>1 DEF RunsInv, OpsFit
<1> QED BY <1>1, <1>2, <1>3, <1>6, <1>7, Stays DEF Shown, Steady

LEMMA RefreshLands ==
  ASSUME ViewInv, NEW o \in Slots, X!Refresh(o)
  PROVE  Shown
<1>1. PICK boot : boot = [X!Start("boot", "labels", "boot") EXCEPT !.epoch = epoch + 1]
  OBVIOUS
<1>2. /\ op' = [p \in Slots |-> IF p = o THEN boot
                                ELSE IF op[p].kind = "idle" THEN X!Idle ELSE [X!Aborted[p] EXCEPT !.key = "none"]]
      /\ store' = {} /\ edges' = {} /\ hidden' = {} /\ probes' = {} /\ counted' = {}
      /\ degrees' = {} /\ heavy' = {} /\ thinned' = {}
      /\ confirmed' = {} /\ cursors' = [n \in Nodes |-> X!Fresh] /\ labelRows' = 0 /\ phase' = "loading"
      /\ warned' = [n \in Nodes |-> {}] /\ offer' = {} /\ large' = {}
      /\ seeding' = X!NewSeeding /\ seen' = seen /\ epoch' = epoch + 1 /\ op[o].kind = "idle"
  BY <1>1 DEF X!Refresh, X!Free
<1>3. CanvasInv' /\ SizesInv'
  <2>1. cursors' \in [Nodes -> Marks] /\ CursorsSeen(cursors', seen') /\ CanvasFits(store', edges', hidden')
    BY <1>2, FreshFits DEF ViewInv
  <2>2. DegreesInv'
    BY <1>2 DEF DegreesInv, X!LargeSides
  <2> QED BY <1>2, <2>1, <2>2 DEF CanvasInv, SizesInv, Phases
<1>4. RestInv' /\ TrayInv'
  <2>1. X!AllRows \in Nat /\ X!NewSeeding \in Seedings
    BY RowsFit DEF ViewInv, X!NewSeeding, Seedings
  <2> QED BY <1>2, <2>1 DEF RestInv, TrayInv, ViewInv
<1>5. PICK ep, cf : ep = epoch + 1 /\ cf = excuse'
  OBVIOUS
<1>6. ep \in Nat /\ epoch \in Nat /\ X!ExplorerConstants /\ \A p \in Slots : OpFits(op[p], excuse, epoch, seen)
  BY <1>5 DEF ViewInv, RunsInv, OpsFit
<1>7. OpFits(boot, cf, ep, seen)
  <2>1. PICK st : st = X!Start("boot", "labels", "boot")
    OBVIOUS
  <2>2. "boot" \in OpKinds /\ "labels" \in Stages /\ "boot" \in Keys
    BY DEF OpKinds, Stages, Keys
  <2>3. st \in Ops /\ st.kind = "boot" /\ st.stage = "labels" /\ st.live
    BY <1>6, <2>1, <2>2, Begins
  <2>4. boot \in Ops /\ boot.kind = "boot" /\ boot.stage = "labels" /\ boot.live /\ boot.epoch = ep
    BY <1>1, <1>5, <1>6, <2>1, <2>3 DEF Ops
  <2>5. Base(boot, ep, seen) /\ Staged(boot, cf)
    BY <2>4 DEF Base, Staged, Apt
  <2> QED BY <1>6, <2>5, LiveFits
<1>8. \A p \in Slots : OpFits(op'[p], cf, ep, seen) /\ (op[p].kind # "idle" => op'[p].stage = op[p].stage)
  <2>1. TAKE p \in Slots
  <2>2. CASE p = o
    BY <1>2, <1>7, <2>2
  <2>3. CASE p # o /\ op[p].kind = "idle"
    <3>1. op'[p] = X!Idle
      BY <1>2, <2>3
    <3>2. OpFits(X!Idle, cf, ep, seen)
      BY <1>6, IdleFits
    <3> QED BY <2>3, <3>1, <3>2
  <2>4. CASE p # o /\ op[p].kind # "idle"
    <3>1. PICK rec : rec = op[p]
      OBVIOUS
    <3>2. X!Aborted[p] = [rec EXCEPT !.live = FALSE]
      BY <3>1 DEF X!Aborted
    <3>3. op'[p] = [[rec EXCEPT !.live = FALSE] EXCEPT !.key = "none"]
      BY <1>2, <2>4, <3>2
    <3>4. OpFits(rec, excuse, epoch, seen) /\ rec.kind # "idle" /\ epoch \in Nat
      BY <1>6, <2>4, <3>1
    <3>5. PICK q, was : q = op'[p] /\ was = excuse
      OBVIOUS
    <3>6. OpFits(q, cf, ep, seen) /\ q.stage = rec.stage
      <4>1. OpFits(rec, was, epoch, seen) /\ Stopped(q, rec)
        BY <3>3, <3>4, <3>5 DEF Stopped
      <4> QED BY <1>5, <1>6, <3>4, <4>1, AbortedFits
    <3> QED BY <1>5, <3>1, <3>5, <3>6
  <2> QED BY <2>2, <2>3, <2>4
<1>9. RunsInv'
  <2>1. op' \in [Slots -> Ops]
    BY <1>2, <1>8 DEF OpFits
  <2> QED BY <1>2, <1>5, <1>8, <2>1 DEF RunsInv, OpsFit
<1> QED BY <1>3, <1>4, <1>8, <1>9 DEF Shown, Steady

-----------------------------------------------------------------------------
(* The theorems. *)

ExplorerInv == ViewInv /\ askings \in 0..MaxAsks /\ epoch \in 0..askings

LEMMA ExplorerBegins ==
  ASSUME X!ExplorerConstants, X!Init
  PROVE  ExplorerInv
<1>1. PICK cur, idle : cur = [n \in Nodes |-> X!Fresh] /\ idle = X!Idle
  OBVIOUS
<1>2. PICK boot : boot = [idle EXCEPT !.kind = "boot", !.stage = "labels", !.key = "boot"]
  OBVIOUS
<1>3. /\ store = {} /\ edges = {} /\ hidden = {} /\ probes = {} /\ counted = {} /\ confirmed = {}
      /\ degrees = {} /\ heavy = {} /\ thinned = {}
      /\ cursors = cur /\ labelRows = 0 /\ phase = "loading" /\ warned = [n \in Nodes |-> {}] /\ offer = {} /\ large = {}
      /\ seeding = X!NewSeeding /\ epoch = 0 /\ askings = 0 /\ seen = {}
      /\ \E o \in Slots : op = [p \in Slots |-> IF p = o THEN boot ELSE idle]
  BY <1>1, <1>2 DEF X!Init
<1>4. CanvasInv
  <2>1. CanvasFits(store, edges, hidden)
    BY <1>3, FreshFits
  <2>2. cur \in [Nodes -> Marks] /\ CursorsSeen(cur, seen)
    BY <1>1, FreshFits
  <2> QED BY <1>3, <2>1, <2>2 DEF CanvasInv, Phases
<1>5. SizesInv /\ RestInv /\ TrayInv
  <2>1. X!AllRows \in Nat /\ X!NewSeeding \in Seedings
    BY RowsFit DEF X!NewSeeding, Seedings
  <2>2. DegreesInv
    BY <1>3 DEF DegreesInv, X!LargeSides
  <2> QED BY <1>3, <2>1, <2>2 DEF SizesInv, RestInv, TrayInv
<1>6. OpFits(idle, excuse, epoch, seen) /\ epoch \in Nat
  BY <1>1, <1>3, IdleFits
<1>7. OpFits(boot, excuse, epoch, seen)
  <2>1. idle \in Ops /\ idle.live /\ idle.epoch = 0
    BY <1>1, <1>6 DEF OpFits, X!Idle
  <2>2. boot \in Ops /\ boot.kind = "boot" /\ boot.stage = "labels" /\ boot.live /\ boot.epoch = 0
    BY <1>2, <2>1, ZenonT(60) DEF Ops, OpKinds, Stages, Keys
  <2>3. Base(boot, epoch, seen) /\ Staged(boot, excuse)
    BY <1>3, <2>2 DEF Base, Staged, Apt
  <2> QED BY <1>6, <2>3, LiveFits
<1>8. RunsInv
  <2>1. op \in [Slots -> Ops]
    BY <1>3, <1>6, <1>7 DEF OpFits
  <2>2. \A p \in Slots : op[p] \in {boot, idle}
    BY <1>3
  <2> QED BY <1>6, <1>7, <2>1, <2>2 DEF RunsInv, OpsFit
<1>9. MaxAsks \in Nat
  BY Finite
<1> QED BY <1>3, <1>4, <1>5, <1>6, <1>8, <1>9 DEF ExplorerInv, ViewInv

\* What the user asks for lands well, and leaves the operations at their stages.
LEMMA AskedSteady ==
  ASSUME ViewInv, NEW o \in Slots, X!Asked(o)
  PROVE  Shown
<1>1. CASE X!Refresh(o)
  BY <1>1, RefreshLands
<1>2. CASE ~X!Refresh(o)
  <2>1. Landed(o)
    <3>1. CASE \E n \in Nodes, ss \in SUBSET X!Sides, asked \in BOOLEAN : X!Expand(o, n, ss, asked)
      BY <3>1, ExpandLands
    <3>2. CASE \E n \in Nodes : X!RevealNode(o, n)
      BY <3>2, RevealLands
    <3>3. CASE \E mode \in {"explicit", "confirmed"} : X!ConnectNodes(o, mode)
      BY <3>3, ConnectLands
    <3>4. CASE X!ShowMore(o)
      BY <3>4, MoreLands
    <3>5. CASE \/ X!LoadLabelPage(o) \/ X!LoadSample(o) \/ \E ns \in SUBSET Nodes : X!Fetch(o, ns)
               \/ \E n \in Nodes : X!CountRelationships(o, n)
      BY <3>5, AskedLand
    <3>6. CASE \E n \in Nodes : X!FetchDegree(o, n)
      BY <3>6, FetchDegreeLands
    <3> QED BY <1>2, <3>1, <3>2, <3>3, <3>4, <3>5, <3>6 DEF X!Asked
  <2>2. op[o].kind = "idle"
    BY <1>2, ZenonT(60) DEF X!Asked, X!Expand, X!RevealNode, X!FetchDegree, X!CountRelationships, X!LoadLabelPage, X!Fetch,
                X!ConnectNodes, X!LoadSample, X!ShowMore, X!Free
  <2> QED BY <2>1, <2>2 DEF Landed, Shown, Steady, Apart
<1> QED BY <1>1, <1>2

\* An answer is of the refresh it was asked in.
LEMMA AnswersStay ==
  ASSUME NEW o \in Slots, X!Answers(o) \/ X!FirstView(o)
  PROVE  epoch' = epoch
<1>1. CASE X!Cancelled(o) \/ X!Failed(o) \/ X!Probed(o) \/ X!Counted(o) \/ X!Connected(o)
  BY <1>1, Zenon DEF X!Cancelled, X!Failed, X!Probed, X!Counted, X!Connected, X!Rested
<1>2. CASE X!Sized(o) \/ X!RowsRead(o) \/ X!Revealed(o)
  BY <1>2, Zenon DEF X!Sized, X!RowsRead, X!Revealed
<1>3. CASE X!PageRead(o) \/ X!PageGone(o) \/ X!Fetched(o) \/ X!DegreeProbed(o) \/ X!DegreeRead(o) \/ X!RelationshipsCounted(o)
  BY <1>3, Zenon DEF X!PageRead, X!PageGone, X!Fetched, X!DegreeProbed, X!DegreeRead, X!RelationshipsCounted, X!Rested
<1>4. CASE X!LabelsCounted(o) \/ X!CandidatesRead(o) \/ X!SampleRead(o) \/ X!SeedProbed(o)
  BY <1>4, Zenon DEF X!LabelsCounted, X!CandidatesRead, X!SampleRead, X!SeedProbed, X!Rested
<1>5. CASE X!SeedCounted(o) \/ X!RingRead(o) \/ X!SeedConnected(o)
  BY <1>5, Zenon DEF X!SeedCounted, X!RingRead, X!SeedConnected, X!Rested
<1> QED BY <1>1, <1>2, <1>3, <1>4, <1>5 DEF X!Answers, X!FirstView

\* All that is left for what was aborted is to end.
LEMMA AbortedEnds ==
  ASSUME NEW o \in Slots, ~op[o].live, X!Answers(o) \/ X!FirstView(o)
  PROVE  X!Cancelled(o)
<1>1. ~X!Failed(o)
  BY DEF X!Failed
<1>2. \A stage : ~X!Answer(o, stage)
  BY DEF X!Answer
<1>3. ~(X!Probed(o) \/ X!Counted(o) \/ X!Connected(o) \/ X!Sized(o) \/ X!PageRead(o) \/ X!PageGone(o))
  BY <1>2, Zenon DEF X!Probed, X!Counted, X!Connected, X!Sized, X!PageRead, X!PageGone
<1>4. ~(X!RowsRead(o) \/ X!Revealed(o) \/ X!Fetched(o) \/ X!DegreeProbed(o) \/ X!DegreeRead(o) \/ X!RelationshipsCounted(o))
  BY <1>2, Zenon DEF X!RowsRead, X!Revealed, X!Fetched, X!DegreeProbed, X!DegreeRead, X!RelationshipsCounted
<1>5. ~X!FirstView(o)
  BY <1>2, Zenon DEF X!FirstView, X!LabelsCounted, X!CandidatesRead, X!SampleRead, X!SeedProbed, X!SeedCounted, X!RingRead,
              X!SeedConnected
<1> QED BY <1>1, <1>3, <1>4, <1>5 DEF X!Answers

\* The user's steps leave the refresh, or start the next one.
LEMMA UserEpoch ==
  ASSUME X!User
  PROVE  epoch' \in {epoch, epoch + 1}
<1>1. CASE \E n \in Nodes : X!HideNode(n) \/ X!RemoveNode(n)
  BY <1>1 DEF X!HideNode, X!RemoveNode, X!Rested
<1>2. CASE X!ClearCanvas
  BY <1>2 DEF X!ClearCanvas
<1>3. ASSUME NEW o \in Slots, X!Asked(o)
      PROVE  epoch' \in {epoch, epoch + 1}
  <2>1. CASE X!Refresh(o)
    BY <2>1 DEF X!Refresh
  <2>2. CASE \E n \in Nodes, ss \in SUBSET X!Sides, asked \in BOOLEAN : X!Expand(o, n, ss, asked)
    BY <2>2 DEF X!Expand
  <2>3. CASE \E n \in Nodes : X!RevealNode(o, n) \/ X!FetchDegree(o, n) \/ X!CountRelationships(o, n)
    BY <2>3 DEF X!RevealNode, X!FetchDegree, X!CountRelationships, X!Rested
  <2>4. CASE X!LoadLabelPage(o) \/ \E ns \in SUBSET Nodes : X!Fetch(o, ns)
    BY <2>4 DEF X!LoadLabelPage, X!Fetch, X!Rested
  <2>5. CASE X!LoadSample(o) \/ X!ShowMore(o) \/ \E mode \in {"explicit", "confirmed"} : X!ConnectNodes(o, mode)
    BY <2>5 DEF X!LoadSample, X!ShowMore, X!ConnectNodes, X!Rested
  <2> QED BY <1>3, <2>1, <2>2, <2>3, <2>4, <2>5 DEF X!Asked
<1> QED BY <1>1, <1>2, <1>3 DEF X!User

LEMMA UserLands ==
  ASSUME ViewInv, X!User
  PROVE  Shown
BY AskedSteady, NodesLand, ClearLands DEF X!User

LEMMA CanvasStep ==
  ASSUME ExplorerInv, [X!Next]_(X!vars)
  PROVE  ExplorerInv'
<1>1. ViewInv /\ epoch \in Nat /\ askings \in Nat /\ askings <= MaxAsks /\ epoch <= askings /\ MaxAsks \in Nat
  <2>1. MaxAsks \in Nat
    BY Finite DEF ExplorerInv, ViewInv
  <2> QED BY <2>1 DEF ExplorerInv, ViewInv
<1>2. CASE UNCHANGED X!vars
  <2>1. /\ UNCHANGED X!canvas /\ UNCHANGED X!sizes /\ UNCHANGED X!Rested /\ UNCHANGED <<offer, large, seeding>>
        /\ UNCHANGED <<op, askings>>
    BY <1>2 DEF X!vars, X!canvas, X!sizes, X!Rested
  <2>2. UNCHANGED <<excuse, epoch, seen, op>>
    BY <1>1, <2>1, Stays
  <2> QED BY <1>1, <2>1, <2>2, Stays DEF ExplorerInv, ViewInv
<1>3. CASE \E o \in Slots : X!Answered(o)
  <2>1. PICK o \in Slots : X!Answered(o)
    BY <1>3
  <2>2. askings' = askings /\ (X!Answers(o) \/ X!FirstView(o))
    BY <2>1 DEF X!Answered
  <2>3. Landed(o) /\ epoch' = epoch
    BY <1>1, <2>2, AnswersLand, AnswersStay
  <2> QED BY <1>1, <2>2, <2>3 DEF ExplorerInv, ViewInv, Landed
<1>4. CASE askings < MaxAsks /\ askings' = askings + 1 /\ X!User
  <2>1. Shown /\ epoch' \in {epoch, epoch + 1}
    BY <1>1, <1>4, UserLands, UserEpoch
  <2>2. askings' \in 0..MaxAsks /\ epoch' \in 0..askings'
    BY <1>1, <1>4, <2>1
  <2> QED BY <1>1, <2>1, <2>2 DEF ExplorerInv, ViewInv, Shown
<1> QED BY <1>2, <1>3, <1>4 DEF X!Next

\* What was asked before a refresh or Clear never lands after it.
LEMMA LateStep ==
  ASSUME ExplorerInv, X!Next
  PROVE  X!LateChangesNothing
<1> SUFFICES ASSUME NEW q \in Slots, op[q].kind # "idle", op[q].epoch < epoch, op'[q].stage # op[q].stage
             PROVE  op'[q] = X!Idle /\ UNCHANGED <<X!canvas, X!sizes, offer, large, seeding, X!Rested>>
  BY DEF X!LateChangesNothing
<1>1. ViewInv /\ epoch \in Nat
  BY DEF ExplorerInv, ViewInv
<1>2. ~op[q].live
  <2>1. OpFits(op[q], excuse, epoch, seen)
    BY <1>1 DEF ViewInv, RunsInv, OpsFit
  <2>2. op[q].live => op[q].epoch = epoch
    BY <2>1 DEF OpFits, Base
  <2> QED BY <1>1, <2>2
<1>3. CASE \E o \in Slots : X!Answered(o)
  <2>1. PICK o \in Slots : X!Answered(o)
    BY <1>3
  <2>2. X!Answers(o) \/ X!FirstView(o)
    BY <2>1 DEF X!Answered
  <2>3. Apart(o)
    BY <1>1, <2>2, AnswersLand DEF Landed
  <2>4. o = q
    BY <2>3 DEF Apart
  <2>5. X!Cancelled(q)
    BY <1>2, <2>2, <2>4, AbortedEnds
  <2>6. op \in [Slots -> Ops]
    BY <1>1 DEF ViewInv, RunsInv, OpsFit
  <2> QED BY <2>5, <2>6 DEF X!Cancelled
<1>4. CASE X!User
  BY <1>1, <1>4, UserLands DEF Shown, Steady
<1> QED BY <1>3, <1>4 DEF X!Next

LEMMA ExplorerHolds ==
  ASSUME X!ExplorerConstants
  PROVE  X!Spec => []ExplorerInv
<1>1. X!Init => ExplorerInv
  BY ExplorerBegins
<1>2. ExplorerInv /\ [X!Next]_(X!vars) => ExplorerInv'
  BY CanvasStep
<1> QED BY <1>1, <1>2, PTL DEF X!Spec

\* The canvas keeps its cap and its edges their ends, and every variable its
\* type, whatever lands or is evicted while reads are under way.
THEOREM CanvasKeepsItsCap ==
  ASSUME X!ExplorerConstants
  PROVE  X!Spec => []X!TypeOK
<1>1. ExplorerInv => X!TypeOK
  <2> SUFFICES ASSUME ExplorerInv PROVE X!TypeOK
    OBVIOUS
  <2>1. \A o \in Slots : op[o].cand \subseteq Nodes /\ op[o].sides \subseteq X!Sides /\ op[o].epoch <= epoch
    <3>1. TAKE o \in Slots
    <3>2. OpFits(op[o], excuse, epoch, seen) /\ epoch \in Nat
      BY DEF ExplorerInv, ViewInv, RunsInv, OpsFit
    <3>3. op[o].kind = "idle" => op[o].epoch = 0
      BY <3>2 DEF OpFits, X!Idle
    <3> QED BY <3>2, <3>3 DEF OpFits, Ops
  <2>2. X!Cardinality(store) = Cardinality(store)
    BY Counts
  <2> QED BY <2>1, <2>2 DEF ExplorerInv, ViewInv, CanvasInv, CanvasFits, SizesInv, DegreesInv, RestInv, TrayInv, Phases, Marks,
                           Seedings, X!TypeOK
<1> QED BY <1>1, ExplorerHolds, PTL

\* No request reads the edges of a large side on its own, unless a degree that
\* left the hidden labels out found it small: of every other, the user chose it.
THEOREM SidesHold ==
  ASSUME X!ExplorerConstants
  PROVE  X!Spec => []X!LargeOnlyWhenAsked
<1>1. ExplorerInv => X!LargeOnlyWhenAsked
  <2> SUFFICES ASSUME ExplorerInv, NEW o \in Slots, op[o].live
               PROVE  /\ op[o].stage = "page" => ({op[o].node} \X op[o].sides) \cap Big \subseteq confirmed \cup thinned
                      /\ op[o].stage = "connect" => op[o].mode = "confirmed" \/ X!LargeSides(op[o].cand) \subseteq thinned
                      /\ op[o].stage = "ring" => X!Quiet(op[o].batch)
                      /\ op[o].stage = "seedConnect" => X!Quiet(op[o].cand)
    BY DEF X!LargeOnlyWhenAsked
  <2>1. CASE op[o].stage = "none"
    BY <2>1
  <2>2. CASE op[o].stage # "none"
    <3>1. Staged(op[o], excuse)
      BY <2>2, Answering DEF ExplorerInv
    <3>2. excuse.chosen = confirmed /\ excuse.thin = thinned
      BY DEF excuse
    <3> QED BY <3>1, <3>2 DEF Staged, Apt, Chosen, Mild
  <2> QED BY <2>1, <2>2
<1> QED BY <1>1, ExplorerHolds, PTL

\* What was asked before a refresh or Clear changes nothing after it: all that
\* is left for it is to end.
THEOREM LatenessHolds ==
  ASSUME X!ExplorerConstants
  PROVE  X!Spec => [][X!LateChangesNothing]_(X!vars)
<1>1. ExplorerInv /\ [X!Next]_(X!vars) => [X!LateChangesNothing]_(X!vars)
  BY LateStep
<1> QED BY <1>1, ExplorerHolds, PTL DEF X!Spec

\* Without an edge from a node to itself, paging a side skips none of its edges:
\* those up to the cursor were all returned by some page.
THEOREM PagesHold ==
  ASSUME X!ExplorerConstants, NoLoops
  PROVE  X!Spec => []X!PagesSkipNothing
<1>1. ExplorerInv => X!PagesSkipNothing
  BY DEF ExplorerInv, ViewInv, CanvasInv, CursorsSeen, MarksSeen, X!PagesSkipNothing
<1> QED BY <1>1, ExplorerHolds, PTL

-----------------------------------------------------------------------------
(* The console: a behaviour is of the part that it starts with, so what holds *)
(* of a part holds of it.                                                    *)

LEMMA ReadsBegin ==
  Init => /\ part = "counts" => N!LateInit
          /\ part = "explorer" => X!Init
BY DEF Init, Starts

LEMMA ReadsGoOn ==
  [Next]_vars => /\ (part = "counts")' <=> part = "counts"
                 /\ part = "counts" => [N!LateNext]_(N!lateVars)
                 /\ (part = "explorer")' <=> part = "explorer"
                 /\ part = "explorer" => [X!Next]_(X!vars)
<1>1. CASE UNCHANGED vars
  BY <1>1 DEF vars, after5, after6, after9, after11, after12, N!lateVars, X!vars, X!degree
<1>2. CASE Next
  BY <1>2 DEF Next, Is
<1> QED BY <1>1, <1>2

\* A label left without a count was not tried, is being counted, or every retry
\* of it failed.
THEOREM NoCountIsLost ==
  ASSUME N!LateConstants
  PROVE  Spec => []NoLabelLost
<1>1. NoLabelLost <=> (part = "counts" => N!NoLabelLost)
  BY DEF NoLabelLost
<1> QED BY ReadsBegin, ReadsGoOn, CountsHold, <1>1, PTL DEF Spec, N!LateSpec

\* Nothing reads a large side that the user did not choose, but for those that
\* a degree without the hidden labels found small, all of them Veiled.
THEOREM LargeSidesWait ==
  ASSUME X!ExplorerConstants
  PROVE  Spec => []LargeOnlyWhenAsked
<1>1. LargeOnlyWhenAsked <=> (part = "explorer" => X!LargeOnlyWhenAsked)
  BY DEF LargeOnlyWhenAsked
<1> QED BY ReadsBegin, ReadsGoOn, SidesHold, <1>1, PTL DEF Spec, X!Spec

\* Without an edge from a node to itself, paging a side skips none of its edges.
THEOREM PagingSkipsNothing ==
  ASSUME X!ExplorerConstants, NoLoops
  PROVE  Spec => []PagesSkipNothing
<1>1. PagesSkipNothing <=> (part = "explorer" => X!PagesSkipNothing)
  BY DEF PagesSkipNothing
<1> QED BY ReadsBegin, ReadsGoOn, PagesHold, <1>1, PTL DEF Spec, X!Spec

\* What was asked before a refresh or Clear changes nothing after it.
THEOREM NothingLandsLate ==
  ASSUME X!ExplorerConstants
  PROVE  Spec => LateNeverLands
<1>1. UNCHANGED X!vars => X!LateChangesNothing
  BY DEF X!vars, X!LateChangesNothing
<1>2. [X!LateChangesNothing]_(X!vars) => X!LateChangesNothing
  BY <1>1
<1>3. Is("explorer") => part = "explorer"
  BY DEF Is
<1> QED BY ReadsBegin, ReadsGoOn, LatenessHolds, <1>2, <1>3, PTL DEF Spec, X!Spec, LateNeverLands

\* The types of the explorer's parts: the late counts', and the canvas with its
\* cap, its edges' ends and every read's place.
THEOREM ReadsAreTyped ==
  ASSUME N!LateConstants, X!ExplorerConstants
  PROVE  Spec => [](part \in {"counts", "explorer"} => TypesOK)
<1>1. part = "counts" /\ N!LateTypeOK => TypesOK
  BY DEF TypesOK
<1>2. part = "explorer" /\ X!TypeOK => TypesOK
  BY DEF TypesOK
<1>3. (part = "counts" => N!LateTypeOK) /\ (part = "explorer" => X!TypeOK) => (part \in {"counts", "explorer"} => TypesOK)
  BY <1>1, <1>2, Zenon
<1> QED BY ReadsBegin, ReadsGoOn, CountsHold, CanvasKeepsItsCap, <1>3, PTL DEF Spec, N!LateSpec, X!Spec
=============================================================================

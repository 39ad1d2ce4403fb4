----------------------------- MODULE LateCounts -----------------------------
(* How the explorer counts its labels: the boot counts as many as one        *)
(* request takes, the rest and those seen later are counted in the           *)
(* background, one request at a time, and a batch that fails is tried again  *)
(* after a wait, until every retry failed too.                               *)
EXTENDS Naturals, FiniteSets

CONSTANTS
  Named,         \* labels the load's version names, as numbers in their order
  Later,         \* labels only nodes read later show
  CountCap,      \* maxCountLabels: labels one request counts
  LateBudget,    \* LATE_COUNT_MAX_REQUESTS, for labels seen later
  RetryWaits,    \* LATE_COUNT_RETRY_DELAYS_MS: their number
  MaxBoots       \* bound: boots

Labels == Named \cup Later
LateConstants == LateBudget \in Nat /\ RetryWaits \in Nat /\ MaxBoots \in Nat \ {0}

VARIABLES
  overview,              \* the counts: loading, ready or error
  rail,                  \* per label: absent, uncounted or counted
  marked, backlog,       \* countedRef, backlogRef
  late, busy, failures,  \* lateCountsRef, lateBusyRef, lateFailuresRef
  counts,                \* the background requests under way
  boots                  \* generationRef
lateVars == <<overview, rail, marked, backlog, late, busy, failures, counts, boots>>

Absent == [l \in Labels |-> "absent"]
LateInit ==
  /\ overview = "loading" /\ rail = Absent /\ marked = {} /\ backlog = {}
  /\ late = 0 /\ busy = FALSE /\ failures = 0 /\ counts = {} /\ boots = 1

FirstOf(ls) == {l \in ls : Cardinality({k \in ls : k < l}) < CountCap}

\* boot (and retryOverview): the first labels are counted, an empty one leaves
\* the rail, the rest go to the backlog.
LabelsAnswered ==
  LET taken == FirstOf(Named) IN
  /\ overview = "loading"
  /\ \/ /\ overview' = "ready"
        /\ \E held \in SUBSET taken :
             rail' = [l \in Labels |-> IF l \in held THEN "counted"
                                       ELSE IF l \in Named \ taken THEN "uncounted"
                                       ELSE IF l \in taken /\ rail[l] # "absent" THEN "empty" ELSE rail[l]]
        /\ marked' = marked \cup taken
        /\ backlog' = backlog \cup (Named \ taken)
     \/ overview' = "error" /\ UNCHANGED <<rail, marked, backlog>>
  /\ UNCHANGED <<late, busy, failures, counts, boots>>

RetryOverview ==
  /\ overview = "error"
  /\ overview' = "loading"
  /\ UNCHANGED <<rail, marked, backlog, late, busy, failures, counts, boots>>

\* Everything is reset; what is in flight was aborted.
Boot ==
  /\ boots < MaxBoots
  /\ boots' = boots + 1
  /\ overview' = "loading" /\ rail' = Absent /\ marked' = {} /\ backlog' = {}
  /\ late' = 0 /\ busy' = FALSE /\ failures' = 0
  /\ UNCHANGED counts

\* A read brings a node of a label the counts don't have.
Seen(l) ==
  /\ overview = "ready" /\ rail[l] = "absent"
  /\ rail' = [rail EXCEPT ![l] = IF l \in marked THEN "empty" ELSE "uncounted"]
  /\ UNCHANGED <<overview, marked, backlog, late, busy, failures, counts, boots>>

\* The effect's timer: the backlog first, outside the budget.
Pending == {l \in Labels : rail[l] = "uncounted"} \ marked
Wanted == IF Pending \cap backlog # {} THEN FirstOf(Pending \cap backlog) ELSE FirstOf(Pending)
CountLater ==
  LET fromBacklog == Pending \cap backlog # {} IN
  /\ overview = "ready" /\ ~busy /\ Pending # {}
  /\ fromBacklog \/ late < LateBudget
  /\ busy' = TRUE
  /\ marked' = marked \cup Wanted
  /\ late' = IF fromBacklog THEN late ELSE late + 1
  /\ counts' = counts \cup {[labels |-> Wanted, fromBacklog |-> fromBacklog, boot |-> boots, waits |-> FALSE]}
  /\ UNCHANGED <<overview, rail, backlog, failures, boots>>

\* After a refresh the new boot owns the counts.
Outdated(c) ==
  /\ c.boot # boots
  /\ counts' = counts \ {c}
  /\ UNCHANGED <<overview, rail, marked, backlog, late, busy, failures, boots>>

CountedLater(c) ==
  /\ c.boot = boots /\ ~c.waits
  /\ counts' = counts \ {c}
  /\ \E held \in SUBSET c.labels :
       rail' = [l \in Labels |-> IF l \in held THEN "counted" ELSE IF l \in c.labels THEN "absent" ELSE rail[l]]
  /\ failures' = 0 /\ busy' = FALSE
  /\ UNCHANGED <<overview, marked, backlog, late, boots>>

\* Failed, or cancelled by Clear: once every wait was used up, the counting
\* stays stopped until a refresh.
CountFailed(c) ==
  /\ c.boot = boots /\ ~c.waits
  /\ failures' = failures + 1
  /\ counts' = (counts \ {c}) \cup (IF failures < RetryWaits THEN {[c EXCEPT !.waits = TRUE]} ELSE {})
  /\ UNCHANGED <<overview, rail, marked, backlog, late, busy, boots>>

\* Mutant: the failed labels stay marked as counted.
WaitOverFault(c) ==
  /\ c.boot = boots /\ c.waits
  /\ counts' = counts \ {c}
  /\ late' = IF c.fromBacklog THEN late ELSE late - 1
  /\ busy' = FALSE
  /\ UNCHANGED <<overview, rail, marked, backlog, failures, boots>>
WaitOver(c) ==
  /\ c.boot = boots /\ c.waits
  /\ counts' = counts \ {c}
  /\ marked' = marked \ c.labels
  /\ late' = IF c.fromBacklog THEN late ELSE late - 1
  /\ busy' = FALSE
  /\ UNCHANGED <<overview, rail, backlog, failures, boots>>

CountSettles(c) == Outdated(c) \/ CountedLater(c) \/ CountFailed(c) \/ WaitOver(c)
LateNext ==
  \/ LabelsAnswered \/ RetryOverview \/ Boot \/ CountLater
  \/ \E l \in Labels : Seen(l)
  \/ \E c \in counts : CountSettles(c)
LateSpec == LateInit /\ [][LateNext]_lateVars

-----------------------------------------------------------------------------
(* Properties. *)

LateTypeOK ==
  /\ overview \in {"loading", "ready", "error"}
  /\ rail \in [Labels -> {"absent", "uncounted", "counted", "empty"}]
  /\ marked \subseteq Labels /\ backlog \subseteq Named
  /\ late \in 0..LateBudget /\ busy \in BOOLEAN /\ failures \in 0..(RetryWaits + 1) /\ boots \in 1..MaxBoots

Current == {c \in counts : c.boot = boots}
Stopped == busy /\ Current = {}

\* No label is lost, and none is counted twice: one left without a count was
\* not tried, is in the one count under way, or the counting stopped because
\* every retry failed.
NoLabelLost ==
  /\ Cardinality(Current) <= 1 /\ (Current # {} => busy)
  /\ \A c \in Current : \A l \in c.labels : rail[l] = "uncounted"
  /\ \A l \in marked : rail[l] = "uncounted" => Stopped \/ \E c \in Current : l \in c.labels
  /\ Stopped => failures > RetryWaits
=============================================================================

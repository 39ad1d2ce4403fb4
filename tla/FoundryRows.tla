------------------------------- MODULE FoundryRows -------------------------------
(****************************************************************************)
(* The rows Helix Foundry keeps for one ontology and the transactions that  *)
(* change them: its loads, the documents that joined each, what was         *)
(* extracted of them, and its one live graph job.                           *)
(*                                                                          *)
(* Every transaction here runs under the ontology's row lock                *)
(* (lockFoundryOntology), so each is one operator from the rows before, s,  *)
(* to the rows after.  What is drawn from outside a transaction (a fresh    *)
(* id, whether the month has budget, how the attempt ended) is a parameter. *)
(*                                                                          *)
(* A definition whose name ends in Fault is the one after it with a         *)
(* plausible slip: what the runs' properties are shown to notice.           *)
(****************************************************************************)
EXTENDS Naturals, FiniteSets

CONSTANTS MaxLoads,     \* bound: how many loads are ever created
          Docs, Sets,   \* the workspace's documents and document sets
          Scopes,       \* the scopes a version may have: sets of document sets
          Workers,      \* graph worker processes
          Nobody,       \* the lease owner no running process is
          MaxAttempts,  \* foundry.graph.max_attempts
          RetainLoads   \* foundry.graph.retain_loads

ASSUME RowsAssumption ==
  /\ MaxLoads \in Nat \ {0}
  /\ MaxAttempts \in Nat \ {0}
  /\ RetainLoads \in Nat \ {0}
  /\ Scopes \subseteq SUBSET Sets
  /\ Nobody \notin Workers

NoLoad == 0
LoadIds == 1..MaxLoads          \* a load's id is its place in creation order

Servable == {"ready", "partial"}
Deletable == {"ready", "partial", "failed", "delete_failed"}
LoadStatuses == Deletable \cup {"none", "writing", "deleting", "deleted"}
Extractions == {"none", "extracted", "retryable", "failed"}
Phases == {"provisioning", "ingest", "documents", "finishing", "deleting"}
RunsIngest(phase) == phase \in {"provisioning", "ingest"}

Jobs == [kind : {"load", "extract", "apply", "delete"}, load : LoadIds, phase : Phases,
         status : {"queued", "running"}, owner : Workers \cup {Nobody}, attempts : 0..(MaxAttempts + 1)]
NewJob(kind, l, phase) ==
  [kind |-> kind, load |-> l, phase |-> phase, status |-> "queued", owner |-> Nobody, attempts |-> 0]
NoJob == [kind |-> "none", load |-> NoLoad, phase |-> "none", status |-> "none", owner |-> Nobody, attempts |-> 0]

Rows == [deleted : BOOLEAN, held : BOOLEAN, current : LoadIds \cup {NoLoad}, owed : BOOLEAN,
         autoRefresh : BOOLEAN, refreshDue : BOOLEAN,
         status : [LoadIds -> LoadStatuses], origin : [LoadIds -> {"user", "refresh"}],
         refreshes : [LoadIds -> LoadIds \cup {NoLoad}], scope : [LoadIds -> SUBSET Sets],
         members : [LoadIds -> SUBSET Docs], extraction : [LoadIds -> [Docs -> Extractions]],
         docStatus : [Docs -> {"pending_upload", "uploaded", "deleted"}], docSet : [Docs -> Sets],
         job : Jobs \cup {NoJob}]

Live(s) == s.job # NoJob
With(s, st) == {l \in LoadIds : s.status[l] = st}
\* The id of the next load created: at most one, none once the bound is reached.
Fresh(s) == {l \in With(s, "none") : \A k \in 1..(l - 1) : s.status[k] # "none"}

Mark(s, L, st) == [s EXCEPT !.status = [l \in LoadIds |-> IF l \in L THEN st ELSE s.status[l]]]
Queue(s, job) == [s EXCEPT !.job = job]
CancelJob(s) == [s EXCEPT !.job = NoJob]

--------------------------------------------------------------------------------
(* A load's documents.                                                      *)

Uploaded(s, l) == {d \in s.members[l] : s.docStatus[d] = "uploaded"}
Waiting(s, l) == {d \in Uploaded(s, l) : s.extraction[l][d] \in {"none", "retryable"}}
Unrecorded(s, l) == {d \in Uploaded(s, l) : s.extraction[l][d] = "none"}
\* A document moved out of the load's scope counts as deleted.
RemovedFault(s, l) == {d \in s.members[l] : s.docStatus[d] = "deleted" \/ s.docSet[d] \notin s.scope[l]}
Removed(s, l) == {d \in s.members[l] : s.docStatus[d] = "deleted"}

Snapshot(s, l) ==
  [s EXCEPT !.members[l] = @ \cup {d \in Docs : s.docStatus[d] = "uploaded" /\ s.docSet[d] \in s.scope[l]}]

--------------------------------------------------------------------------------
(* What is queued next, with no job live.                                   *)

\* Removals alone queue no extract.
QueueExtractFault(s, hasBudget) ==
  IF s.current # NoLoad /\ Waiting(s, s.current) # {} /\ hasBudget
  THEN Queue(s, NewJob("extract", s.current, "documents"))
  ELSE s

\* A removal spends nothing, so only documents to extract wait for budget.
QueueExtract(s, hasBudget) ==
  IF /\ s.current # NoLoad
     /\ \/ Removed(s, s.current) # {}
        \/ Waiting(s, s.current) # {} /\ hasBudget
  THEN Queue(s, NewJob("extract", s.current, "documents"))
  ELSE s

Oldest(L) == CHOOSE l \in L : \A m \in L : l <= m

\* The loads that could not be deleted are forgotten.
QueueNextDeleteFault(s) ==
  IF With(s, "deleting") # {}
  THEN Queue(s, NewJob("delete", Oldest(With(s, "deleting")), "deleting"))
  ELSE [s EXCEPT !.held = @ /\ ~s.deleted]

\* With nothing left to delete, a deleted ontology lets go of its database.
QueueNextDelete(s) ==
  IF With(s, "deleting") # {}
  THEN Queue(s, NewJob("delete", Oldest(With(s, "deleting")), "deleting"))
  ELSE [s EXCEPT !.held = @ /\ ~(s.deleted /\ With(s, "delete_failed") = {})]

\* The current load is one of the others.
PastRetentionFault(s) ==
  LET others == {l \in LoadIds : s.status[l] \in {"ready", "partial", "failed"}}
  IN {l \in others : Cardinality({m \in others : m > l}) >= RetainLoads}

\* The loads past the newest RetainLoads, the current one always kept and counted.
PastRetention(s) ==
  LET others == {l \in LoadIds : s.status[l] \in {"ready", "partial", "failed"} /\ l # s.current}
      newer(l) == {m \in others : m > l}
  IN {l \in others : Cardinality(newer(l)) + (IF s.current # NoLoad THEN 1 ELSE 0) >= RetainLoads}
Retain(s) == Mark(s, PastRetention(s), "deleting")

\* Only a live extract clears what is owed, and only it follows a job.
QueueAfterFault(s, hasBudget) ==
  LET kept == Retain(s)
      joined == IF s.current # NoLoad THEN Snapshot(kept, s.current) ELSE kept
  IN IF s.deleted THEN QueueNextDelete(s)
     ELSE IF s.owed THEN QueueExtract(joined, hasBudget) ELSE kept

\* What is owed is let go only once an extract is queued.
QueueAfterOwedFault(s, hasBudget) ==
  LET kept == Retain(s)
      joined == IF s.current # NoLoad THEN Snapshot(kept, s.current) ELSE kept
      extracting == IF s.owed THEN QueueExtract(joined, hasBudget) ELSE kept
  IN IF s.deleted THEN QueueNextDelete(s)
     ELSE IF Live(extracting) THEN [extracting EXCEPT !.owed = FALSE] ELSE QueueNextDelete(extracting)

\* An owed extract is queued once the current load's scope has joined it, and
\* is owed no more either way; failing that, the next delete.
QueueAfter(s, hasBudget) ==
  LET kept == Retain(s)
      joined == IF s.current # NoLoad THEN Snapshot(kept, s.current) ELSE kept
      extracting == IF s.owed THEN [QueueExtract(joined, hasBudget) EXCEPT !.owed = FALSE] ELSE kept
  IN IF s.deleted THEN QueueNextDelete(s)
     ELSE IF Live(extracting) THEN extracting ELSE QueueNextDelete(extracting)

--------------------------------------------------------------------------------
(* Creating a load.                                                         *)

\* A refresh starts from what was recorded of the load it refreshes.
InsertLoadFault(s, l, origin, refreshes, scope) ==
  Snapshot([s EXCEPT !.status[l] = "writing", !.origin[l] = origin, !.refreshes[l] = refreshes,
                     !.scope[l] = scope, !.job = NewJob("load", l, "provisioning"),
                     !.extraction[l] = IF refreshes # NoLoad THEN s.extraction[refreshes] ELSE @], l)

InsertLoad(s, l, origin, refreshes, scope) ==
  Snapshot([s EXCEPT !.status[l] = "writing", !.origin[l] = origin, !.refreshes[l] = refreshes,
                     !.scope[l] = scope, !.job = NewJob("load", l, "provisioning")], l)

IsRefreshJob(s) == s.job.kind = "load" /\ s.origin[s.job.load] = "refresh"

\* A user's load goes before a delete, an apply and a refresh.
GivesWay(s) == ~Live(s) \/ s.job.kind \in {"delete", "apply"} \/ IsRefreshJob(s)
\* A preempted refresh's load is left as it was.
PreemptFault(s) == [CancelJob(s) EXCEPT !.refreshDue = @ /\ ~(s.job.kind = "apply" \/ IsRefreshJob(s))]
Preempt(s) ==
  LET writing == {l \in LoadIds : IsRefreshJob(s) /\ l = s.job.load /\ s.status[l] = "writing"}
  IN [CancelJob(Mark(s, writing, "deleting")) EXCEPT
        !.refreshDue = @ /\ ~(s.job.kind = "apply" \/ IsRefreshJob(s))]

\* The user's load takes over the live job's row, its lease with it.
UserLoadFault(s, l, scope) ==
  [InsertLoad(Preempt(s), l, "user", NoLoad, scope) EXCEPT
     !.job.status = IF Live(s) THEN s.job.status ELSE @, !.job.owner = s.job.owner]

UserLoad(s, l, scope) == InsertLoad(Preempt(s), l, "user", NoLoad, scope)
FullRefresh(s, l) == InsertLoad(s, l, "refresh", s.current, s.scope[s.current])

--------------------------------------------------------------------------------
(* The end of an attempt.                                                   *)

Recorded(s, l) == {d \in Docs : s.extraction[l][d] = "extracted"}

\* A document that still waits is not missed.
MissingFault(s, l) == {d \in Recorded(s, s.refreshes[l]) \ Recorded(s, l) : d \in Uploaded(s, l) \ Waiting(s, l)}
\* What a partial refresh l lost of the documents the load it refreshed
\* recorded: those still uploaded and its own, and, of the sets it held back
\* for their allowance, any.
Missing(s, l) == {d \in Recorded(s, s.refreshes[l]) \ Recorded(s, l) : d \in Uploaded(s, l)}
Dropped(s, l, heldSets) == {d \in Recorded(s, s.refreshes[l]) \ Recorded(s, l) : s.docSet[d] \in heldSets}

LoadEnd == [succeeded |-> "ready", budget_exhausted |-> "partial", failed |-> "failed"]

\* A load becomes current, and a refresh load it replaces is deleted.
MakeCurrent(s, l) ==
  LET replaced == {m \in LoadIds : /\ m = s.current /\ s.origin[l] = "refresh"
                                   /\ s.origin[m] = "refresh" /\ s.status[m] \in Servable}
  IN [Mark(s, replaced, "deleting") EXCEPT !.current = l]

\* A refresh need not be of the current load.
EndLoadFault(s, l, outcome, heldSets) ==
  LET ended == Mark(s, {l}, LoadEnd[outcome])
      writing == s.status[l] = "writing"
      onlyEnds == s.deleted \/ outcome = "failed" \/ (outcome = "budget_exhausted" /\ s.current # NoLoad)
  IN CASE ~writing               -> s
       [] writing /\ onlyEnds    -> ended
       [] OTHER                  -> MakeCurrent(ended, l)

EndLoad(s, l, outcome, heldSets) ==
  LET ended == Mark(s, {l}, LoadEnd[outcome])
      writing == s.status[l] = "writing"
      refresh == s.origin[l] = "refresh"
      refreshesCurrent == refresh /\ s.current # NoLoad /\ s.refreshes[l] = s.current
      holds == refreshesCurrent /\ Missing(s, l) = {}
      partial == outcome = "budget_exhausted"
      onlyEnds == s.deleted \/ outcome = "failed" \/ (partial /\ s.current # NoLoad /\ ~holds)
      outdone == (partial /\ holds /\ Dropped(s, l, heldSets) # {}) \/ (refresh /\ ~refreshesCurrent)
  IN CASE ~writing                           -> s
       [] writing /\ onlyEnds                -> ended
       [] writing /\ ~onlyEnds /\ outdone    -> Mark(s, {l}, "deleting")
       [] OTHER                              -> MakeCurrent(ended, l)

\* A load that could not be deleted is tried again, and again.
EndDeleteFault(s, l, outcome) ==
  IF outcome = "failed" THEN s
  ELSE [Mark(s, {l} \cap With(s, "deleting"), "deleted") EXCEPT
          !.members[l] = {}, !.extraction[l] = [d \in Docs |-> "none"]]
\* A deleted load's documents stay recorded.
EndDeleteRowsFault(s, l, outcome) ==
  Mark(s, {l} \cap With(s, "deleting"), IF outcome = "failed" THEN "delete_failed" ELSE "deleted")

EndDelete(s, l, outcome) ==
  IF outcome = "failed" THEN Mark(s, {l} \cap With(s, "deleting"), "delete_failed")
  ELSE [Mark(s, {l} \cap With(s, "deleting"), "deleted") EXCEPT
          !.members[l] = {}, !.extraction[l] = [d \in Docs |-> "none"]]

\* An apply only records the snapshots it brought the load's tables up to.
EndWork(s, outcome, heldSets) ==
  CASE s.job.kind = "load"   -> EndLoad(s, s.job.load, outcome, heldSets)
    [] s.job.kind = "delete" -> EndDelete(s, s.job.load, outcome)
    [] OTHER                 -> s

\* An attempt is given back twice, or whatever ended it.
FinishRetryFault(s, ingestDone, uncounted) ==
  Queue(s, [s.job EXCEPT !.status = "queued", !.owner = Nobody, !.attempts = IF uncounted /\ @ > 0 THEN @ - 2 ELSE @])
FinishRetryFreeFault(s, ingestDone, uncounted) ==
  Queue(s, [s.job EXCEPT !.status = "queued", !.owner = Nobody, !.attempts = IF @ > 0 THEN @ - 1 ELSE @])

\* Back to the queue, past the tables once they are in.
FinishRetry(s, ingestDone, uncounted) ==
  Queue(s, [s.job EXCEPT !.status = "queued", !.owner = Nobody,
              !.phase = IF ingestDone /\ s.job.kind \in {"load", "apply"} THEN "documents" ELSE @,
              !.attempts = IF uncounted /\ @ > 0 THEN @ - 1 ELSE @])

\* old: the load an apply brought up to date is due its rebuild; refreshId the
\* id a full refresh then takes.
FinishEnd(s, outcome, ingestDone, heldSets, hasBudget, old, refreshId) ==
  LET worked == EndWork(s, outcome, heldSets)
      ended == CancelJob(worked)
      merges == /\ outcome = "succeeded" /\ s.job.kind # "delete" /\ worked.current = s.job.load
                /\ Unrecorded(worked, s.job.load) # {}
      applied == s.job.kind = "apply" /\ ~s.deleted /\ s.current = s.job.load
  IN CASE merges                                                -> Queue(worked, NewJob(s.job.kind, s.job.load, "documents"))
       [] ~merges /\ applied /\ outcome = "failed" /\ ~ingestDone -> FullRefresh(ended, refreshId)
       [] ~merges /\ applied /\ outcome = "succeeded" /\ ingestDone /\ old -> FullRefresh(ended, refreshId)
       [] OTHER                                                 -> QueueAfter(ended, hasBudget)

--------------------------------------------------------------------------------
(* What people and documents do.                                            *)

SetCurrentLoad(s, l, hasBudget) ==
  LET moved == Snapshot([s EXCEPT !.current = l], l)
  IN IF Live(s) THEN [moved EXCEPT !.owed = @ \/ Waiting(moved, l) # {}] ELSE QueueExtract(moved, hasBudget)

DeleteOneLoad(s, l) ==
  LET marked == Mark(s, {l}, "deleting") IN IF Live(s) THEN marked ELSE QueueNextDelete(marked)

DeleteWholeOntology(s) ==
  LET left == {l \in LoadIds : s.status[l] \notin {"none", "deleting", "deleted"}}
  IN QueueNextDelete([CancelJob(Mark(s, left, "deleting")) EXCEPT
                        !.deleted = TRUE, !.current = NoLoad, !.owed = FALSE])

ResumeDrain(s) == QueueNextDelete(Mark(s, With(s, "delete_failed"), "deleting"))

\* The load a live job that does not delete one works on.
WorkedOn(s) == IF Live(s) /\ s.job.kind # "delete" THEN s.job.load ELSE NoLoad

\* Document d, just uploaded or moved, joins the load being written or else
\* the current one; the job's end owes an extract, or one is queued now.
FanOut(s, d, canWrite, hasBudget) ==
  LET first == IF WorkedOn(s) # NoLoad THEN WorkedOn(s) ELSE s.current
      reads(l) == l # NoLoad /\ s.docSet[d] \in s.scope[l]
      joined == IF reads(first) THEN [s EXCEPT !.members[first] = @ \cup {d}] ELSE s
  IN CASE s.deleted \/ ~canWrite \/ ~(reads(first) \/ reads(s.current)) -> s
       [] ~s.deleted /\ canWrite /\ (reads(first) \/ reads(s.current)) /\ Live(s) -> [joined EXCEPT !.owed = TRUE]
       [] OTHER -> IF d \in Waiting(joined, s.current) THEN QueueExtract(joined, hasBudget) ELSE joined

\* A deleted document is owed out of the loads that hold it.
OweRemovals(s) ==
  LET holding == {l \in {WorkedOn(s), s.current} \ {NoLoad} : Removed(s, l) # {}}
  IN CASE s.deleted \/ holding = {}              -> s
       [] ~s.deleted /\ holding # {} /\ Live(s)  -> [s EXCEPT !.owed = TRUE]
       [] OTHER                                  -> QueueExtract(s, FALSE)
RemoveDocument(s, d) == OweRemovals([s EXCEPT !.docStatus[d] = "deleted"])

\* What RecordFoundryDocumentExtraction and RecordFoundryDocumentRemoval store.
RecordExtraction(s, l, d, result) == [s EXCEPT !.extraction[l][d] = result]
RecordRemoval(s, l, d) == [s EXCEPT !.extraction[l][d] = "none", !.members[l] = @ \ {d}]
================================================================================

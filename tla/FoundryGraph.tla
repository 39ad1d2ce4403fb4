------------------------------ MODULE FoundryGraph ------------------------------
(****************************************************************************)
(* One ontology's graph jobs: people start, choose and delete loads and     *)
(* change documents; syncs owe refreshes; graph workers claim the           *)
(* ontology's live job, drive the ontology agent (external) to write its    *)
(* load into the graph database, and record how each attempt ended.         *)
(*                                                                          *)
(* db is what MySQL holds (FoundryRows).  attempt is what each worker       *)
(* process remembers of the attempt it runs: it is lost in a crash, and     *)
(* goes stale when the job is cancelled or claimed by another.  tables and  *)
(* graph are what the agent wrote of each load into the graph database.     *)
(****************************************************************************)
EXTENDS FoundryRows

CONSTANT NoDoc                     \* an agent stream with no event pending

VARIABLES db, attempt, tables, graph
vars == <<db, attempt, tables, graph>>

\* An attempt's steps: idle; begun (claimed); ingesting; ingested; listed (the
\* waiting documents read, the removed ones not yet); sending; ended (an
\* outcome to record).
Steps == {"idle", "begun", "ingesting", "ingested", "listed", "sending", "deleting", "ended"}
Outcomes == {"none", "succeeded", "budget_exhausted", "failed", "retry", "uncounted"}
\* The document the agent last ended, and how, not yet recorded.
NoEvent == [doc |-> NoDoc, result |-> "none"]
Events == [doc : Docs, result : {"extracted", "retryable", "failed", "removed"}] \cup {NoEvent}
Attempts == [step : Steps, kind : {"none", "load", "extract", "apply", "delete"}, load : LoadIds \cup {NoLoad},
             ingestDone : BOOLEAN, pending : SUBSET Docs, removed : SUBSET Docs, event : Events,
             outcome : Outcomes, held : SUBSET Sets]
Idle == [step |-> "idle", kind |-> "none", load |-> NoLoad, ingestDone |-> FALSE, pending |-> {}, removed |-> {},
         event |-> NoEvent, outcome |-> "none", held |-> {}]

TypeOK ==
  /\ db \in Rows
  /\ attempt \in [Workers -> Attempts]
  /\ tables \in [LoadIds -> BOOLEAN]
  /\ graph \in [LoadIds -> SUBSET Docs]

Init ==
  /\ db \in [deleted : {FALSE}, held : {TRUE}, current : {NoLoad}, owed : {FALSE}, autoRefresh : {TRUE},
             refreshDue : {FALSE}, status : {[l \in LoadIds |-> "none"]}, origin : {[l \in LoadIds |-> "user"]},
             refreshes : {[l \in LoadIds |-> NoLoad]}, scope : {[l \in LoadIds |-> {}]},
             members : {[l \in LoadIds |-> {}]}, extraction : {[l \in LoadIds |-> [d \in Docs |-> "none"]]},
             docStatus : {[d \in Docs |-> "pending_upload"]}, docSet : [Docs -> Sets], job : {NoJob}]
  /\ attempt = [w \in Workers |-> Idle]
  /\ tables = [l \in LoadIds |-> FALSE]
  /\ graph = [l \in LoadIds |-> {}]

--------------------------------------------------------------------------------
(* People, uploads and syncs.                                               *)

Request == UNCHANGED <<attempt, tables, graph>>

CreateLoad(l, scope) ==
  /\ ~db.deleted /\ GivesWay(db) /\ l \in Fresh(db)
  /\ db' = UserLoad(db, l, scope)
  /\ Request

SetCurrent(l, hasBudget) ==
  /\ ~db.deleted /\ db.status[l] \in Servable
  /\ db' = SetCurrentLoad(db, l, hasBudget)
  /\ Request

\* The load a live job works on may be deleted.
DeleteLoadFault(l) ==
  /\ ~db.deleted /\ l # db.current /\ db.status[l] \in Deletable
  /\ db' = DeleteOneLoad(db, l)
  /\ Request

DeleteLoad(l) ==
  /\ ~db.deleted /\ l # db.current /\ db.status[l] \in Deletable /\ db.job.load # l
  /\ db' = DeleteOneLoad(db, l)
  /\ Request

DeleteOntology ==
  /\ ~db.deleted
  /\ db' = DeleteWholeOntology(db)
  /\ Request

\* Someone binds a new ontology to the database the deleted one still holds.
ResumeOntologyDrain ==
  /\ db.deleted /\ db.held /\ ~Live(db)
  /\ db' = ResumeDrain(db)
  /\ Request

SetAutoRefresh(on) ==
  /\ ~db.deleted
  /\ db' = [db EXCEPT !.autoRefresh = on, !.refreshDue = @ /\ on]
  /\ Request

\* A sync changed a table the current load reads.
OweRefresh ==
  /\ ~db.deleted /\ db.autoRefresh /\ db.current # NoLoad
  /\ db' = [db EXCEPT !.refreshDue = TRUE]
  /\ Request

\* An owed refresh comes due.  Bound: one is queued while an id is left for
\* the full load it is, or may hand over to.
QueueRefresh(inPlace, l) ==
  /\ ~db.deleted /\ db.refreshDue
  /\ \/ /\ ~db.autoRefresh \/ db.current = NoLoad
        /\ db' = [db EXCEPT !.refreshDue = FALSE]
     \/ /\ db.autoRefresh /\ db.current # NoLoad /\ ~Live(db) /\ l \in Fresh(db)
        /\ db' = [(IF inPlace /\ db.status[db.current] \in Servable
                   THEN Queue(db, NewJob("apply", db.current, "provisioning"))
                   ELSE FullRefresh(db, l)) EXCEPT !.refreshDue = FALSE]
  /\ Request

CompleteUpload(d, canWrite, hasBudget) ==
  /\ db.docStatus[d] = "pending_upload"
  /\ db' = FanOut([db EXCEPT !.docStatus[d] = "uploaded"], d, canWrite, hasBudget)
  /\ Request

MoveDocument(d, set, canWrite, hasBudget) ==
  /\ db.docStatus[d] # "deleted"
  /\ LET moved == [db EXCEPT !.docSet[d] = set]
     IN db' = IF db.docStatus[d] = "uploaded" THEN FanOut(moved, d, canWrite, hasBudget) ELSE moved
  /\ Request

DeleteDocument(d) ==
  /\ db.docStatus[d] # "deleted"
  /\ db' = RemoveDocument(db, d)
  /\ Request

--------------------------------------------------------------------------------
(* A graph worker's attempt.                                                *)

\* Any running job's attempt may write.
OwnedFault(w) == db.job.status = "running"
\* The fence on every write of an attempt.
Owned(w) == db.job.status = "running" /\ db.job.owner = w
\* The agent writes for an attempt that holds its job, which a lapsed lease
\* has always ended (GraphLease), and for one whose job was cancelled until a
\* renewal finds so; not beside or after the delete of its load.
Served(w) ==
  LET l == attempt[w].load
      deletes == db.job.kind = "delete" /\ db.job.load = l /\ db.job.status = "running"
  IN Owned(w) \/ (~deletes /\ db.status[l] # "deleted")

\* A running job's lease lapses once its worker is gone, or no longer renews it.
Lapsed == \A w \in Workers : db.job.owner = w => attempt[w].step \in {"idle", "ended"}

End(w, outcome) == attempt' = [attempt EXCEPT ![w].step = "ended", ![w].outcome = outcome]

\* A job claimed more than MaxAttempts times is given up.
Claim(w) ==
  /\ attempt[w].step = "idle"
  /\ \/ db.job.status = "queued"
     \/ db.job.status = "running" /\ Lapsed
  /\ LET giveUp == db.job.attempts >= MaxAttempts
     IN attempt' = [attempt EXCEPT ![w] =
          [Idle EXCEPT !.step = IF giveUp THEN "ended" ELSE "begun", !.outcome = IF giveUp THEN "failed" ELSE "none",
                       !.kind = db.job.kind, !.load = db.job.load,
                       !.ingestDone = ~giveUp /\ ~RunsIngest(db.job.phase)]]
  /\ db' = [db EXCEPT !.job.status = "running", !.job.owner = w,
                      !.job.attempts = IF @ <= MaxAttempts THEN @ + 1 ELSE @]   \* bound: it stops counting there
  /\ UNCHANGED <<tables, graph>>

\* Record the attempt's phase and go on as next; losing the lease ends the
\* attempt, and an update the database refused for another reason is only logged.
Update(w, phase, next) ==
  /\ \/ /\ Owned(w)
        /\ db' \in {db, [db EXCEPT !.job.phase = phase]}
        /\ attempt' = [attempt EXCEPT ![w] = next]
     \/ /\ ~Owned(w)
        /\ End(w, "retry")
        /\ UNCHANGED db
  /\ UNCHANGED <<tables, graph>>

StartIngest(w) ==
  /\ attempt[w].step = "begun" /\ attempt[w].kind \in {"load", "apply"} /\ ~attempt[w].ingestDone
  /\ Update(w, "ingest", [attempt[w] EXCEPT !.step = "ingesting"])

StartDelete(w) ==
  /\ attempt[w].step = "begun" /\ attempt[w].kind = "delete"
  /\ Update(w, "deleting", [attempt[w] EXCEPT !.step = "deleting"])

\* The agent ends Ingest: the load's tables are in.
Ingest(w) ==
  /\ attempt[w].step = "ingesting" /\ Served(w)
  /\ tables' = [tables EXCEPT ![attempt[w].load] = TRUE]
  /\ attempt' = [attempt EXCEPT ![w].step = "ingested", ![w].ingestDone = TRUE]
  /\ UNCHANGED <<db, graph>>

\* extract: the phase, then the waiting documents, then the removed ones.
ListPending(w) ==
  /\ attempt[w].step \in {"begun", "ingested"} /\ attempt[w].kind # "delete" /\ attempt[w].ingestDone
  /\ Update(w, "documents", [attempt[w] EXCEPT !.step = "listed", !.pending = Waiting(db, attempt[w].load)])

ListRemoved(w) ==
  /\ attempt[w].step = "listed"
  /\ attempt' = [attempt EXCEPT ![w].step = "sending", ![w].removed = Removed(db, attempt[w].load)]
  /\ UNCHANGED <<db, tables, graph>>

\* The agent takes a document out of the graph; removals go first.
AgentRemoves(w, d) ==
  /\ attempt[w].step = "sending" /\ Served(w) /\ attempt[w].event = NoEvent
  /\ d \in attempt[w].removed
  /\ graph' = [graph EXCEPT ![attempt[w].load] = @ \ {d}]
  /\ attempt' = [attempt EXCEPT ![w].event = [doc |-> d, result |-> "removed"]]
  /\ UNCHANGED <<db, tables>>

\* The agent ends a document: its pieces are committed to the graph if it was
\* extracted.  One already in the graph ends extracted.
AgentExtracts(w, d, result) ==
  /\ attempt[w].step = "sending" /\ Served(w) /\ attempt[w].event = NoEvent
  /\ attempt[w].removed = {} /\ d \in attempt[w].pending
  /\ d \in graph[attempt[w].load] => result = "extracted"
  /\ graph' = [graph EXCEPT ![attempt[w].load] = IF result = "extracted" THEN @ \cup {d} ELSE @]
  /\ attempt' = [attempt EXCEPT ![w].event = [doc |-> d, result |-> result]]
  /\ UNCHANGED <<db, tables>>

\* A staged document whose text is gone is deleted, and not sent.
TextGone(w, d) ==
  /\ attempt[w].step = "sending" /\ attempt[w].event = NoEvent
  /\ attempt[w].removed = {} /\ d \in attempt[w].pending
  /\ db' = IF db.docStatus[d] = "deleted" THEN db ELSE RemoveDocument(db, d)
  /\ attempt' = [attempt EXCEPT ![w].pending = @ \ {d}]
  /\ UNCHANGED <<tables, graph>>

\* The event is recorded under the fence.  A document that is no longer of
\* the load can't be, and ends the attempt.
Record(w) ==
  LET l == attempt[w].load  d == attempt[w].event.doc  result == attempt[w].event.result
  IN /\ attempt[w].step = "sending" /\ attempt[w].event # NoEvent
     /\ IF Owned(w) /\ (result = "removed" \/ d \in db.members[l])
        THEN /\ db' = IF result = "removed" THEN RecordRemoval(db, l, d) ELSE RecordExtraction(db, l, d, result)
             /\ attempt' = [attempt EXCEPT ![w].event = NoEvent, ![w].pending = IF result = "removed" THEN @ ELSE @ \ {d},
                                           ![w].removed = @ \ {d}]
        ELSE /\ attempt' = [attempt EXCEPT ![w].event = NoEvent, ![w].step = "ended", ![w].outcome = "retry"]
             /\ UNCHANGED db
     /\ UNCHANGED <<tables, graph>>

\* MySQL refuses to record a removal: that is only logged, and the attempt
\* goes on.
RemovalUnrecorded(w) ==
  /\ attempt[w].step = "sending" /\ attempt[w].event.result = "removed"
  /\ attempt' = [attempt EXCEPT ![w].removed = @ \ {attempt[w].event.doc}, ![w].event = NoEvent]
  /\ UNCHANGED <<db, tables, graph>>

\* Every document sent has ended.
ExtractDone(w) ==
  /\ attempt[w].step = "sending" /\ attempt[w].event = NoEvent
  /\ attempt[w].pending = {} /\ attempt[w].removed = {}
  /\ Update(w, "finishing", [attempt[w] EXCEPT !.step = "ended", !.outcome = "succeeded"])

\* The job's, the month's or a source's budget stops the documents, or a model
\* that failed for good does: maybe at the last of them, or at the sweep after
\* it.  heldSets are the sets with an allowance it left unfinished.
BudgetStops(w, heldSets) ==
  /\ attempt[w].step = "sending" /\ attempt[w].event = NoEvent
  /\ attempt[w].removed = {}
  /\ attempt' = [attempt EXCEPT ![w].step = "ended", ![w].outcome = "budget_exhausted", ![w].held = heldSets]
  /\ UNCHANGED <<db, tables, graph>>

\* The agent took the whole load out; one already gone is done.
AgentDeletes(w) ==
  /\ attempt[w].step = "deleting" /\ Served(w)
  /\ tables' = [tables EXCEPT ![attempt[w].load] = FALSE]
  /\ graph' = [graph EXCEPT ![attempt[w].load] = {}]
  /\ End(w, "succeeded")
  /\ UNCHANGED db

\* The attempt ends short: refused for good, to be retried, or stopped by no
\* fault of its own (a deploy, an index still building).
Stops(w, outcome) ==
  /\ attempt[w].step \notin {"idle", "ended"} /\ Owned(w) /\ outcome \in {"failed", "retry", "uncounted"}
  /\ attempt' = [attempt EXCEPT ![w].step = "ended", ![w].event = NoEvent, ![w].outcome = outcome]
  /\ UNCHANGED <<db, tables, graph>>

\* A renewal finds the job another's, or over.
LosesLease(w) ==
  /\ attempt[w].step \notin {"idle", "ended"} /\ ~Owned(w)
  /\ attempt' = [attempt EXCEPT ![w].step = "ended", ![w].event = NoEvent, ![w].outcome = "retry"]
  /\ UNCHANGED <<db, tables, graph>>

\* FinishFoundryGraphJob: an attempt that lost its job writes nothing, and one
\* retried once too often ends failed.
Finish(w, hasBudget, old, refreshId) ==
  LET a == attempt[w]
      retries == \/ a.outcome = "uncounted"
                 \/ a.outcome = "retry" /\ db.job.attempts < MaxAttempts
      outcome == IF a.outcome = "retry" THEN "failed" ELSE a.outcome
  IN /\ a.step = "ended"
     /\ db' = CASE ~Owned(w) -> db
                 [] Owned(w) /\ retries -> FinishRetry(db, a.ingestDone, a.outcome = "uncounted")
                 [] OTHER -> FinishEnd(db, outcome, a.ingestDone, a.held, hasBudget, old, refreshId)
     /\ attempt' = [attempt EXCEPT ![w] = Idle]
     /\ UNCHANGED <<tables, graph>>

\* The database refused the finish: the lease runs out.
FinishUnrecorded(w) ==
  /\ attempt[w].step = "ended" /\ Owned(w)
  /\ attempt' = [attempt EXCEPT ![w] = Idle]
  /\ UNCHANGED <<db, tables, graph>>

\* The process dies; the one that takes its place has an id of its own.
Crash(w) ==
  /\ attempt[w].step # "idle"
  /\ attempt' = [attempt EXCEPT ![w] = Idle]
  /\ db' = IF db.job.owner = w THEN [db EXCEPT !.job.owner = Nobody] ELSE db
  /\ UNCHANGED <<tables, graph>>

--------------------------------------------------------------------------------
People ==
  \/ \E l \in LoadIds, scope \in Scopes : CreateLoad(l, scope)
  \/ \E l \in LoadIds, b \in BOOLEAN : SetCurrent(l, b)
  \/ \E l \in LoadIds : DeleteLoad(l)
  \/ DeleteOntology
  \/ ResumeOntologyDrain
  \/ \E on \in BOOLEAN : SetAutoRefresh(on)

Syncs ==
  \/ OweRefresh
  \/ \E inPlace \in BOOLEAN, l \in LoadIds : QueueRefresh(inPlace, l)

Documents ==
  \/ \E d \in Docs, canWrite, b \in BOOLEAN : CompleteUpload(d, canWrite, b)
  \/ \E d \in Docs, set \in Sets, canWrite, b \in BOOLEAN : MoveDocument(d, set, canWrite, b)
  \/ \E d \in Docs : DeleteDocument(d)

\* The steps an attempt takes when nothing goes wrong.
Works(w) ==
  \/ StartIngest(w) \/ Ingest(w) \/ ListPending(w) \/ ListRemoved(w)
  \/ \E d \in Docs : AgentRemoves(w, d)
  \/ \E d \in Docs, result \in {"extracted", "retryable", "failed"} : AgentExtracts(w, d, result)
  \/ Record(w) \/ ExtractDone(w) \/ StartDelete(w) \/ AgentDeletes(w)

Fails(w) ==
  \/ \E d \in Docs : TextGone(w, d)
  \/ RemovalUnrecorded(w)
  \/ \E heldSets \in SUBSET Sets : BudgetStops(w, heldSets)
  \/ \E outcome \in {"failed", "retry", "uncounted"} : Stops(w, outcome)
  \/ LosesLease(w)
  \/ FinishUnrecorded(w)
  \/ Crash(w)

\* The id a full refresh would take, if the bound leaves one.
Finishes(w) ==
  \E b, old \in BOOLEAN, l \in LoadIds \cup {NoLoad} :
    /\ IF Fresh(db) = {} THEN l = NoLoad ELSE l \in Fresh(db)
    /\ Finish(w, b, old, l)

Next ==
  \/ People \/ Syncs \/ Documents
  \/ \E w \in Workers : Claim(w) \/ Works(w) \/ Fails(w) \/ Finishes(w)

Spec == Init /\ [][Next]_vars

--------------------------------------------------------------------------------
(* Safety.                                                                  *)

\* An attempt that holds the job is an attempt of that job: what the fence of
\* every write (ownedFoundryGraphJob) takes for granted of the row it locks.
Fenced == \A w \in Workers :
  Owned(w) /\ attempt[w].step # "idle" => attempt[w].kind = db.job.kind /\ attempt[w].load = db.job.load

\* A load being written is the live job's, so none is left writing by a
\* cancelled, preempted or given-up job with nothing to finish or delete it.
WritersAreLive == \A l \in With(db, "writing") : db.job.kind = "load" /\ db.job.load = l

\* The live job's load is in a state its kind works on, whoever cancelled,
\* deleted or finished what meanwhile.
JobFitsLoad ==
  /\ db.job.kind = "delete" => db.status[db.job.load] = "deleting"
  /\ db.job.kind \in {"extract", "apply"} => db.status[db.job.load] \in Servable
  /\ db.job.kind = "load" => db.status[db.job.load] \in {"writing", "ready"}

\* The live job and the loads agree, in both directions.
JobAndLoadsAgree == WritersAreLive /\ JobFitsLoad

\* The current load is one that serves queries, its tables in the database:
\* no retention, delete, lost lease or partial end leaves queries without.
CurrentServes == db.current # NoLoad => db.status[db.current] \in Servable /\ tables[db.current]

\* With no job live, no load waits for its delete and no extract is owed:
\* every way a job ends queues what it owes (queueAfterFoundryGraphJob).
NothingForgotten == ~Live(db) => With(db, "deleting") = {} /\ ~db.owed

\* A load that was deleted has left nothing in the graph database and no
\* document's membership (endFoundryLoadWork), stale attempts' writes included.
DeletedLeavesNothing ==
  \A l \in LoadIds : db.status[l] \in {"none", "deleted"} => ~tables[l] /\ graph[l] = {} /\ db.members[l] = {}

\* A deleted ontology lets go of its database only once every load is out of
\* it, so the next ontology bound there starts empty (queueNextFoundryDelete).
ReleasedOnlyWhenEmpty ==
  ~db.held => db.deleted /\ ~Live(db) /\ \A l \in LoadIds : db.status[l] \in {"none", "deleted"}

\* What is recorded extracted of an uploaded document is in the load's graph:
\* the record comes after the agent's commit, whatever crashes between.
ExtractedIsWritten ==
  \A l \in LoadIds, d \in Docs :
    /\ db.status[l] \notin {"deleting", "delete_failed"} /\ db.docStatus[d] = "uploaded"
    /\ db.extraction[l][d] = "extracted"
    => d \in graph[l]

--------------------------------------------------------------------------------
(* What a step may never do.                                                *)

\* A refresh's end makes its load current.
RefreshReplaces ==
  /\ db'.current \notin {db.current, NoLoad} /\ db.origin[db'.current] = "refresh"
  /\ db.status[db'.current] = "writing"

\* A refresh takes the place only of the load it refreshes: it never overrules
\* a load someone chose while it ran (endFoundryLoadWork).
RefreshNeverOverrules == [][RefreshReplaces => db.refreshes[db'.current] = db.current]_vars

\* A refresh the budget stopped becomes current only with every uploaded
\* document of its own that the load it replaces holds.
PartialRefreshKeepsDocuments == [][
  RefreshReplaces /\ db'.status[db'.current] = "partial" =>
    \A d \in Docs : /\ db.docStatus[d] = "uploaded" /\ d \in db.members[db'.current]
                    /\ db.extraction[db.current][d] = "extracted"
                    => d \in graph[db'.current]]_vars

\* An attempt has read what its load must take out, and runs to its end.
HasListed(w) == attempt[w].step = "sending" \/ attempt[w].outcome \in {"succeeded", "budget_exhausted"}
\* The live job takes the deleted document d out of load l: its attempt has
\* yet to list d, or still holds it.
InHand(l, d) ==
  /\ db.job.load = l /\ db.job.kind \in {"load", "extract"}
  /\ \A w \in Workers : Owned(w) /\ HasListed(w) => d \in attempt[w].removed
\* A load that serves or is worked on holds a deleted document nothing is due
\* to take out.
Forgets(l, d) ==
  /\ l \in {db.current, WorkedOn(db)} \ {NoLoad} /\ d \in Removed(db, l)
  /\ ~db.owed /\ ~InHand(l, d)
JobFails == \E w \in Workers :
  /\ Owned(w) /\ attempt[w].step = "ended" /\ attempt'[w].step = "idle"
  /\ attempt[w].outcome \in {"failed", "retry"}
Repointed == db'.current # db.current /\ db'.status = db.status

\* A deleted document stays due out of the loads that serve or are worked on
\* until a job takes it out, whatever is claimed, cancelled, finished or
\* crashes meanwhile: only a job that failed, a removal MySQL would not
\* record, or making another load current forgets it.
RemovalsStayScheduled == [][
  \A l \in LoadIds, d \in Docs : Forgets(l, d)' =>
    Forgets(l, d) \/ JobFails \/ Repointed \/ \E w \in Workers : RemovalUnrecorded(w)]_vars

\* A document leaves a load's records with the load, or once it was deleted
\* and is out of the graph: a move between sets takes nothing out.
LeavesOnlyOnceOut == [][
  \A l \in LoadIds : \A d \in db.members[l] \ db'.members[l] :
    db'.status[l] = "deleted" \/ (db.docStatus[d] = "deleted" /\ d \notin graph[l])]_vars

--------------------------------------------------------------------------------
(* What the code's comments say, and the code does not do.                  *)

\* foundry_loads.go: an extract is queued for the current load when "it holds
\* deleted documents to take out, whatever the budget".  Making a load current
\* under a live job owes one only for documents that wait.
SetCurrentOwesRemovals == [][Repointed => \A d \in Docs : ~Forgets(db.current, d)']_vars

\* foundry_document_removals.go: "what the load still holds and must take out
\* of its graph" is listed: the graph holds no document its load forgot.  The
\* waiting and the removed documents are read one after the other.
GraphHoldsOnlyMembers == \A l \in LoadIds :
  db.status[l] \notin {"deleting", "delete_failed"} => graph[l] \subseteq db.members[l]

--------------------------------------------------------------------------------
(* Liveness.                                                                *)

\* A worker polls for a due job, goes on with its attempt, renews its lease and
\* records how the attempt ended.
Fairness ==
  /\ WF_vars(\E w \in Workers : Claim(w))
  /\ \A w \in Workers : WF_vars(Works(w)) /\ WF_vars(LosesLease(w)) /\ WF_vars(Finishes(w))

\* Deploys, pod deaths and lost finishes stop at some time.
Interrupted == \E w \in Workers : Crash(w) \/ FinishUnrecorded(w) \/ Stops(w, "uncounted")
Calm == <>[][~Interrupted]_vars
FairSpec == Spec /\ Fairness /\ Calm

\* A deleted ontology's loads are deleted one after the other until no job is
\* left, whatever each attempt's end (queueNextFoundryDelete).
Drains == db.deleted ~> ~Live(db)

\* A load being written ends, ready, partial, failed or deleted: its job is
\* retried MaxAttempts times at most.
LoadsEnd == \A l \in LoadIds : db.status[l] = "writing" ~> db.status[l] # "writing"

\* An owed extract is queued or let go, however documents keep the live job
\* going back for more (queueAfterFoundryGraphJob).
OwedIsServed == db.owed ~> ~db.owed
================================================================================

--------------------------- MODULE FoundryGraphProofs ---------------------------
(****************************************************************************)
(* For every bound, set of documents, scopes and workers, whatever is       *)
(* created, chosen, deleted, claimed, cancelled, finished or crashes, in    *)
(* any order.                                                               *)
(*                                                                          *)
(* The rows and the attempts keep their types, and an attempt that holds    *)
(* the live job is an attempt of that job.                                  *)
(*                                                                          *)
(* What the rows of an ontology say of its loads, its live job, its current *)
(* load and its documents agree, and each transaction of the store keeps    *)
(* them so: Agree is that invariant, Moves what a transaction never takes   *)
(* back, on which an attempt whose rows changed under it can still rely.    *)
(*                                                                          *)
(* What the live job and the stale attempts beside it remember, and what    *)
(* the agent wrote into the graph database, agree with the rows.  Remembers *)
(* is about an attempt, whose rows may have changed under it: it promises   *)
(* only what no later transaction takes back.  Cleared is about the one     *)
(* that holds its job, and Written about the graph database.                *)
(*                                                                          *)
(* A deleted document stays due out of the loads that serve or are worked   *)
(* on: each transaction leaves every deleted document a load holds owed, or *)
(* with an extract queued for it, or in the hands it was in; each step of   *)
(* an attempt, in that attempt's hands until it is out.                     *)
(****************************************************************************)
EXTENDS FoundryGraph, TLAPS, WellFoundedInduction

--------------------------------------------------------------------------------
(* The store's transactions keep the rows' types.                           *)

LEMMA OldestIsOne == ASSUME NEW L \in SUBSET LoadIds, L # {} PROVE Oldest(L) \in L
<1>1. L \in SUBSET Nat
  BY RowsAssumption DEF LoadIds
<1>2. PICK l \in L : \A m \in L : ~(<<m, l>> \in OpToRel(<, Nat))
  BY <1>1, NatLessThanWellFounded, WFMin
<1>3. \A m \in L : ~(m < l)
  BY <1>1, <1>2 DEF OpToRel
<1>4. \A m \in L : l <= m
  BY <1>1, <1>3
<1> QED
  BY <1>4 DEF Oldest

LEMMA NewJobType ==
  ASSUME NEW kind \in {"load", "extract", "apply", "delete"}, NEW l \in LoadIds, NEW phase \in Phases
  PROVE  NewJob(kind, l, phase) \in Jobs
BY RowsAssumption DEF NewJob, Jobs

LEMMA MarkType ==
  ASSUME NEW s \in Rows, NEW L, NEW st \in LoadStatuses
  PROVE  Mark(s, L, st) \in Rows
BY DEF Mark, Rows

LEMMA QueueType ==
  ASSUME NEW s \in Rows, NEW job \in Jobs PROVE Queue(s, job) \in Rows
BY DEF Queue, Rows

LEMMA CancelType == ASSUME NEW s \in Rows PROVE CancelJob(s) \in Rows
BY DEF CancelJob, Rows

LEMMA FlagType ==
  ASSUME NEW s \in Rows, NEW b \in BOOLEAN
  PROVE  [s EXCEPT !.owed = b] \in Rows /\ [s EXCEPT !.refreshDue = b] \in Rows /\ [s EXCEPT !.held = b] \in Rows
BY DEF Rows

LEMMA SnapshotType ==
  ASSUME NEW s \in Rows, NEW l \in LoadIds PROVE Snapshot(s, l) \in Rows
BY DEF Snapshot, Rows

LEMMA QueueExtractType ==
  ASSUME NEW s \in Rows, NEW b \in BOOLEAN PROVE QueueExtract(s, b) \in Rows
<1>1. CASE s.current = NoLoad
  BY <1>1 DEF QueueExtract
<1>2. CASE s.current # NoLoad
  <2>1. s.current \in LoadIds
    BY <1>2 DEF Rows
  <2>2. NewJob("extract", s.current, "documents") \in Jobs
    BY <2>1, NewJobType DEF Phases
  <2> QED
    BY <2>2, QueueType DEF QueueExtract
<1> QED
  BY <1>1, <1>2

LEMMA QueueNextDeleteType == ASSUME NEW s \in Rows PROVE QueueNextDelete(s) \in Rows
<1>1. CASE With(s, "deleting") # {}
  <2>1. Oldest(With(s, "deleting")) \in LoadIds
    BY <1>1, OldestIsOne DEF With
  <2>2. NewJob("delete", Oldest(With(s, "deleting")), "deleting") \in Jobs
    BY <2>1, NewJobType DEF Phases
  <2> QED
    BY <1>1, <2>2, QueueType DEF QueueNextDelete
<1>2. CASE With(s, "deleting") = {}
  BY <1>2, ZenonT(60) DEF QueueNextDelete, Rows
<1> QED
  BY <1>1, <1>2

LEMMA QueueAfterType ==
  ASSUME NEW s \in Rows, NEW b \in BOOLEAN PROVE QueueAfter(s, b) \in Rows
<1> DEFINE kept == Retain(s)
           joined == IF s.current # NoLoad THEN Snapshot(kept, s.current) ELSE kept
           extracting == IF s.owed THEN [QueueExtract(joined, b) EXCEPT !.owed = FALSE] ELSE kept
<1>1. kept \in Rows
  BY MarkType DEF Retain, LoadStatuses
<1>2. joined \in Rows
  BY <1>1, SnapshotType, ZenonT(60) DEF Rows
<1>3. QueueExtract(joined, b) \in Rows
  BY <1>2, QueueExtractType
<1>4. extracting \in Rows
  BY <1>1, <1>3, FlagType
<1>5. QueueNextDelete(s) \in Rows /\ QueueNextDelete(extracting) \in Rows
  BY <1>4, QueueNextDeleteType
<1> QED
  BY <1>4, <1>5 DEF QueueAfter

LEMMA InsertLoadType ==
  ASSUME NEW s \in Rows, NEW l \in LoadIds, NEW origin \in {"user", "refresh"},
         NEW refreshes \in LoadIds \cup {NoLoad}, NEW scope \in SUBSET Sets
  PROVE  InsertLoad(s, l, origin, refreshes, scope) \in Rows
<1>1. NewJob("load", l, "provisioning") \in Jobs
  BY NewJobType DEF Phases
<1>2. [s EXCEPT !.status[l] = "writing", !.origin[l] = origin, !.refreshes[l] = refreshes,
                !.scope[l] = scope, !.job = NewJob("load", l, "provisioning")] \in Rows
  BY <1>1 DEF Rows, LoadStatuses
<1> QED
  BY <1>2, SnapshotType DEF InsertLoad

LEMMA PreemptType == ASSUME NEW s \in Rows PROVE Preempt(s) \in Rows
<1> DEFINE writing == {l \in LoadIds : IsRefreshJob(s) /\ l = s.job.load /\ s.status[l] = "writing"}
<1>1. CancelJob(Mark(s, writing, "deleting")) \in Rows
  BY MarkType, CancelType DEF LoadStatuses
<1> HIDE DEF writing
<1> DEFINE due == CancelJob(Mark(s, writing, "deleting")).refreshDue /\ ~(s.job.kind = "apply" \/ IsRefreshJob(s))
<1>2. due \in BOOLEAN
  OBVIOUS
<1>3. Preempt(s) = [CancelJob(Mark(s, writing, "deleting")) EXCEPT !.refreshDue = due]
  BY Zenon DEF Preempt, writing
<1> HIDE DEF due
<1> QED
  BY <1>1, <1>2, <1>3, FlagType

LEMMA FullRefreshType ==
  ASSUME NEW s \in Rows, NEW l \in LoadIds, s.current # NoLoad PROVE FullRefresh(s, l) \in Rows
<1>1. s.current \in LoadIds /\ s.scope[s.current] \in SUBSET Sets
  BY DEF Rows
<1> QED
  BY <1>1, InsertLoadType DEF FullRefresh

LEMMA UserLoadType ==
  ASSUME NEW s \in Rows, NEW l \in LoadIds, NEW scope \in Scopes PROVE UserLoad(s, l, scope) \in Rows
<1>1. scope \in SUBSET Sets
  BY RowsAssumption
<1> QED
  BY <1>1, PreemptType, InsertLoadType DEF UserLoad

LEMMA MakeCurrentType ==
  ASSUME NEW s \in Rows, NEW l \in LoadIds PROVE MakeCurrent(s, l) \in Rows
<1> DEFINE replaced == {m \in LoadIds : /\ m = s.current /\ s.origin[l] = "refresh"
                                        /\ s.origin[m] = "refresh" /\ s.status[m] \in Servable}
<1>1. Mark(s, replaced, "deleting") \in Rows
  BY MarkType DEF LoadStatuses
<1> HIDE DEF replaced
<1>2. [Mark(s, replaced, "deleting") EXCEPT !.current = l] \in Rows
  BY <1>1 DEF Rows
<1> QED
  BY <1>2 DEF MakeCurrent, replaced

\* How a recorded outcome ends a job.
Ends == {"succeeded", "budget_exhausted", "failed"}

LEMMA EndLoadType ==
  ASSUME NEW s \in Rows, NEW l \in LoadIds, NEW outcome \in Ends, NEW heldSets
  PROVE  EndLoad(s, l, outcome, heldSets) \in Rows
<1>1. LoadEnd[outcome] \in LoadStatuses
  BY DEF Ends, LoadEnd, LoadStatuses, Deletable
<1>2. Mark(s, {l}, LoadEnd[outcome]) \in Rows /\ Mark(s, {l}, "deleting") \in Rows
  BY <1>1, MarkType DEF LoadStatuses
<1>3. MakeCurrent(Mark(s, {l}, LoadEnd[outcome]), l) \in Rows
  BY <1>2, MakeCurrentType
<1> HIDE DEF Rows
<1> QED
  BY <1>2, <1>3 DEF EndLoad

LEMMA EndDeleteType ==
  ASSUME NEW s \in Rows, NEW l \in LoadIds, NEW outcome PROVE EndDelete(s, l, outcome) \in Rows
<1>1. \A st \in LoadStatuses : Mark(s, {l} \cap With(s, "deleting"), st) \in Rows
  BY MarkType
<1>2. {"deleted", "delete_failed"} \subseteq LoadStatuses
  BY DEF LoadStatuses, Deletable
<1>3. ASSUME NEW r \in Rows
      PROVE  [r EXCEPT !.members[l] = {}, !.extraction[l] = [d \in Docs |-> "none"]] \in Rows
  BY DEF Rows, Extractions
<1> QED
  BY <1>1, <1>2, <1>3 DEF EndDelete

\* With a job live, the job is of a load.
LEMMA LiveJobType == ASSUME NEW s \in Rows, Live(s) PROVE s.job \in Jobs /\ s.job.load \in LoadIds
BY DEF Rows, Live, Jobs

LEMMA EndWorkType ==
  ASSUME NEW s \in Rows, Live(s), NEW outcome \in Ends, NEW heldSets
  PROVE  EndWork(s, outcome, heldSets) \in Rows
BY LiveJobType, EndLoadType, EndDeleteType DEF EndWork

LEMMA FinishRetryType ==
  ASSUME NEW s \in Rows, Live(s), NEW ingestDone \in BOOLEAN, NEW uncounted \in BOOLEAN
  PROVE  FinishRetry(s, ingestDone, uncounted) \in Rows
<1> DEFINE phase == IF ingestDone /\ s.job.kind \in {"load", "apply"} THEN "documents" ELSE s.job.phase
           attempts == IF uncounted /\ s.job.attempts > 0 THEN s.job.attempts - 1 ELSE s.job.attempts
           job == [s.job EXCEPT !.status = "queued", !.owner = Nobody, !.phase = phase, !.attempts = attempts]
<1>1. s.job \in Jobs
  BY LiveJobType
<1>2. phase \in Phases
  BY <1>1 DEF Jobs, Phases
<1>3. attempts \in 0..(MaxAttempts + 1)
  BY <1>1, RowsAssumption DEF Jobs
<1> HIDE DEF phase, attempts
<1>4. job \in Jobs
  BY <1>1, <1>2, <1>3 DEF Jobs
<1>5. FinishRetry(s, ingestDone, uncounted) = Queue(s, job)
  BY <1>1 DEF FinishRetry, Jobs, phase, attempts
<1> QED
  BY <1>4, <1>5, QueueType

LEMMA FinishEndType ==
  ASSUME NEW s \in Rows, Live(s), NEW outcome \in Ends, NEW ingestDone, NEW heldSets, NEW b \in BOOLEAN,
         NEW old, NEW refreshId, s.job.kind = "apply" => refreshId \in LoadIds
  PROVE  FinishEnd(s, outcome, ingestDone, heldSets, b, old, refreshId) \in Rows
<1> DEFINE worked == EndWork(s, outcome, heldSets)
<1>1. worked \in Rows /\ CancelJob(worked) \in Rows /\ QueueAfter(CancelJob(worked), b) \in Rows
  BY EndWorkType, CancelType, QueueAfterType
<1>2. NewJob(s.job.kind, s.job.load, "documents") \in Jobs
  BY LiveJobType, NewJobType DEF Jobs, Phases
<1>3. ASSUME s.job.kind = "apply", s.current = s.job.load PROVE FullRefresh(CancelJob(worked), refreshId) \in Rows
  <2>1. worked = s
    BY <1>3 DEF EndWork
  <2>2. CancelJob(worked).current = s.current /\ s.current # NoLoad
    BY <1>3, <2>1, LiveJobType DEF CancelJob, LoadIds, NoLoad, Rows
  <2> QED
    BY <1>1, <1>3, <2>2, FullRefreshType
<1>4. Queue(worked, NewJob(s.job.kind, s.job.load, "documents")) \in Rows
  BY <1>1, <1>2, QueueType
<1> QED
  BY <1>1, <1>3, <1>4 DEF FinishEnd

LEMMA SetCurrentLoadType ==
  ASSUME NEW s \in Rows, NEW l \in LoadIds, NEW b \in BOOLEAN PROVE SetCurrentLoad(s, l, b) \in Rows
<1> DEFINE moved == Snapshot([s EXCEPT !.current = l], l)
           owed == moved.owed \/ Waiting(moved, l) # {}
<1>1. [s EXCEPT !.current = l] \in Rows
  BY DEF Rows
<1>2. moved \in Rows
  BY <1>1, SnapshotType
<1> HIDE DEF moved
<1>3. owed \in BOOLEAN
  OBVIOUS
<1>4. SetCurrentLoad(s, l, b) = IF Live(s) THEN [moved EXCEPT !.owed = owed] ELSE QueueExtract(moved, b)
  BY Zenon DEF SetCurrentLoad, moved
<1> HIDE DEF owed
<1> QED
  BY <1>2, <1>3, <1>4, FlagType, QueueExtractType

LEMMA DeleteOneLoadType ==
  ASSUME NEW s \in Rows, NEW l \in LoadIds PROVE DeleteOneLoad(s, l) \in Rows
BY MarkType, QueueNextDeleteType DEF DeleteOneLoad, LoadStatuses

LEMMA DeleteWholeOntologyType == ASSUME NEW s \in Rows PROVE DeleteWholeOntology(s) \in Rows
<1> DEFINE left == {l \in LoadIds : s.status[l] \notin {"none", "deleting", "deleted"}}
<1>1. CancelJob(Mark(s, left, "deleting")) \in Rows
  BY MarkType, CancelType DEF LoadStatuses
<1> HIDE DEF left
<1>2. [CancelJob(Mark(s, left, "deleting")) EXCEPT !.deleted = TRUE, !.current = NoLoad, !.owed = FALSE] \in Rows
  BY <1>1 DEF Rows
<1> QED
  BY <1>2, QueueNextDeleteType DEF DeleteWholeOntology, left

LEMMA ResumeDrainType == ASSUME NEW s \in Rows PROVE ResumeDrain(s) \in Rows
BY MarkType, QueueNextDeleteType DEF ResumeDrain, LoadStatuses

LEMMA FanOutType ==
  ASSUME NEW s \in Rows, NEW d \in Docs, NEW canWrite, NEW b \in BOOLEAN PROVE FanOut(s, d, canWrite, b) \in Rows
<1> DEFINE first == IF WorkedOn(s) # NoLoad THEN WorkedOn(s) ELSE s.current
           reads(l) == l # NoLoad /\ s.docSet[d] \in s.scope[l]
           joined == IF reads(first) THEN [s EXCEPT !.members[first] = @ \cup {d}] ELSE s
<1>1. first \in LoadIds \cup {NoLoad}
  BY LiveJobType DEF WorkedOn, Rows
<1>2. joined \in Rows
  BY <1>1, ZenonT(60) DEF Rows
<1> HIDE DEF joined
<1>3. [joined EXCEPT !.owed = TRUE] \in Rows /\ QueueExtract(joined, b) \in Rows
  BY <1>2, FlagType, QueueExtractType
<1> QED
  BY <1>2, <1>3 DEF FanOut, joined

LEMMA RemoveDocumentType ==
  ASSUME NEW s \in Rows, NEW d \in Docs PROVE RemoveDocument(s, d) \in Rows
<1>1. [s EXCEPT !.docStatus[d] = "deleted"] \in Rows
  BY DEF Rows
<1> QED
  BY <1>1, FlagType, QueueExtractType DEF RemoveDocument, OweRemovals

LEMMA RecordType ==
  ASSUME NEW s \in Rows, NEW l \in LoadIds, NEW d \in Docs, NEW result \in Extractions
  PROVE  RecordExtraction(s, l, d, result) \in Rows /\ RecordRemoval(s, l, d) \in Rows
BY DEF RecordExtraction, RecordRemoval, Rows, Extractions

--------------------------------------------------------------------------------
(* A transaction keeps the live job or leaves one that nobody runs; only an *)
(* apply leaves an apply, and creates no load.                              *)

Unstarted(s, t) ==
  /\ t.job.status = "running" => /\ s.job.status = "running" /\ t.job.owner = s.job.owner
                                 /\ t.job.kind = s.job.kind /\ t.job.load = s.job.load
  /\ t.job.kind = "apply" => s.job.kind = "apply" /\ With(t, "none") = With(s, "none")

\* What changes no job.
LEMMA JobKept ==
  ASSUME NEW s \in Rows
  PROVE  /\ \A L, st : Mark(s, L, st).job = s.job
         /\ \A l \in LoadIds : Snapshot(s, l).job = s.job
         /\ \A b : [s EXCEPT !.owed = b].job = s.job
         /\ CancelJob(s).job = NoJob
BY DEF Mark, Snapshot, CancelJob, Rows

LEMMA QueuesUnstarted ==
  ASSUME NEW s \in Rows
  PROVE  /\ \A b : QueueExtract(s, b).job.status = "running" => QueueExtract(s, b).job = s.job
         /\ \A b : QueueExtract(s, b).job.kind = "apply" => QueueExtract(s, b) = s
         /\ QueueNextDelete(s).job.status = "running" => QueueNextDelete(s).job = s.job
         /\ QueueNextDelete(s).job.kind = "apply" => QueueNextDelete(s).job = s.job /\ QueueNextDelete(s).status = s.status
BY DEF QueueExtract, QueueNextDelete, Queue, NewJob, Rows

\* A job's end leaves no job, or one that nobody runs and that is no apply.
LEMMA QueueAfterUnstarted ==
  ASSUME NEW s \in Rows, NEW b \in BOOLEAN, ~Live(s)
  PROVE  QueueAfter(s, b).job.status # "running" /\ QueueAfter(s, b).job.kind # "apply"
<1> DEFINE kept == Retain(s)
           joined == IF s.current # NoLoad THEN Snapshot(kept, s.current) ELSE kept
           extracting == IF s.owed THEN [QueueExtract(joined, b) EXCEPT !.owed = FALSE] ELSE kept
           Quiet(t) == t.job.status # "running" /\ t.job.kind # "apply"
<1>1. Quiet(s)
  BY DEF Live, NoJob
<1>2. kept \in Rows /\ kept.job = s.job
  BY MarkType DEF Retain, Mark, LoadStatuses, Rows
<1>3. joined \in Rows /\ joined.job = s.job
  BY <1>2, SnapshotType, ZenonT(60) DEF Snapshot, Rows
<1> HIDE DEF joined, kept
<1>4. QueueExtract(joined, b) \in Rows /\ Quiet(QueueExtract(joined, b))
  BY <1>1, <1>3, QueueExtractType, QueuesUnstarted
<1>5. extracting \in Rows /\ Quiet(extracting)
  BY <1>1, <1>2, <1>4, FlagType, JobKept, ZenonT(60)
<1>6. Quiet(QueueNextDelete(extracting)) /\ Quiet(QueueNextDelete(s))
  BY <1>1, <1>5, QueuesUnstarted
<1> QED
  BY <1>5, <1>6 DEF QueueAfter, joined, kept

LEMMA UserLoadUnstarted ==
  ASSUME NEW s \in Rows, NEW l \in LoadIds, NEW scope \in Scopes PROVE Unstarted(s, UserLoad(s, l, scope))
<1>1. Preempt(s) \in Rows
  BY PreemptType
<1>2. UserLoad(s, l, scope).job = NewJob("load", l, "provisioning")
  BY <1>1 DEF UserLoad, InsertLoad, Snapshot, Rows
<1> QED
  BY <1>2 DEF Unstarted, NewJob

LEMMA FullRefreshUnstarted ==
  ASSUME NEW s \in Rows, NEW l \in LoadIds PROVE FullRefresh(s, l).job = NewJob("load", l, "provisioning")
BY DEF FullRefresh, InsertLoad, Snapshot, Rows

LEMMA SetCurrentUnstarted ==
  ASSUME NEW s \in Rows, NEW l \in LoadIds, NEW b \in BOOLEAN PROVE Unstarted(s, SetCurrentLoad(s, l, b))
<1> DEFINE moved == Snapshot([s EXCEPT !.current = l], l)
<1>1. [s EXCEPT !.current = l] \in Rows
  BY DEF Rows
<1>2. moved \in Rows /\ moved.job = s.job /\ moved.status = s.status
  BY <1>1, SnapshotType, ZenonT(60) DEF Snapshot, Rows
<1> HIDE DEF moved
<1>3. Unstarted(s, QueueExtract(moved, b))
  BY <1>2, QueuesUnstarted DEF Unstarted, With
<1>4. Unstarted(s, [moved EXCEPT !.owed = moved.owed \/ Waiting(moved, l) # {}])
  BY <1>2 DEF Unstarted, With, Rows
<1> QED
  BY <1>3, <1>4 DEF SetCurrentLoad, moved

LEMMA DeleteOneUnstarted ==
  ASSUME NEW s \in Rows, NEW l \in LoadIds, s.status[l] # "none" PROVE Unstarted(s, DeleteOneLoad(s, l))
<1>1. Mark(s, {l}, "deleting") \in Rows /\ Mark(s, {l}, "deleting").job = s.job
  BY MarkType DEF Mark, LoadStatuses, Rows
<1>2. With(Mark(s, {l}, "deleting"), "none") = With(s, "none")
  BY DEF Mark, With, Rows
<1> QED
  BY <1>1, <1>2, QueuesUnstarted DEF DeleteOneLoad, Unstarted, With

LEMMA DeleteWholeUnstarted == ASSUME NEW s \in Rows PROVE Unstarted(s, DeleteWholeOntology(s))
<1> DEFINE left == {l \in LoadIds : s.status[l] \notin {"none", "deleting", "deleted"}}
           cancelled == [CancelJob(Mark(s, left, "deleting")) EXCEPT !.deleted = TRUE, !.current = NoLoad, !.owed = FALSE]
<1>1. CancelJob(Mark(s, left, "deleting")) \in Rows /\ CancelJob(Mark(s, left, "deleting")).job = NoJob
  BY MarkType, CancelType, JobKept DEF LoadStatuses
<1> HIDE DEF left
<1>2. cancelled \in Rows /\ cancelled.job = NoJob
  BY <1>1 DEF Rows
<1> HIDE DEF cancelled
<1>3. DeleteWholeOntology(s) = QueueNextDelete(cancelled)
  BY DEF DeleteWholeOntology, left, cancelled
<1>4. NoJob.status # "running" /\ NoJob.kind # "apply"
  BY DEF NoJob
<1>5. QueueNextDelete(cancelled).job.status # "running" /\ QueueNextDelete(cancelled).job.kind # "apply"
  BY <1>2, <1>4, QueuesUnstarted
<1> QED
  BY <1>3, <1>5 DEF Unstarted

LEMMA ResumeDrainUnstarted == ASSUME NEW s \in Rows, ~Live(s) PROVE Unstarted(s, ResumeDrain(s))
<1> DEFINE marked == Mark(s, With(s, "delete_failed"), "deleting")
<1>1. marked \in Rows /\ marked.job = NoJob
  BY MarkType, JobKept DEF LoadStatuses, Live
<1> HIDE DEF marked
<1>2. NoJob.status # "running" /\ NoJob.kind # "apply"
  BY DEF NoJob
<1>3. QueueNextDelete(marked).job.status # "running" /\ QueueNextDelete(marked).job.kind # "apply"
  BY <1>1, <1>2, QueuesUnstarted
<1> QED
  BY <1>3 DEF ResumeDrain, Unstarted, marked

LEMMA FanOutUnstarted ==
  ASSUME NEW s \in Rows, NEW d \in Docs, NEW canWrite, NEW b \in BOOLEAN PROVE Unstarted(s, FanOut(s, d, canWrite, b))
<1> DEFINE first == IF WorkedOn(s) # NoLoad THEN WorkedOn(s) ELSE s.current
           reads(l) == l # NoLoad /\ s.docSet[d] \in s.scope[l]
           joined == IF reads(first) THEN [s EXCEPT !.members[first] = @ \cup {d}] ELSE s
<1>1. first \in LoadIds \cup {NoLoad}
  BY LiveJobType DEF WorkedOn, Rows
<1>2. joined \in Rows /\ joined.job = s.job /\ joined.status = s.status
  BY <1>1, ZenonT(60) DEF Rows
<1> HIDE DEF joined
<1>3. [joined EXCEPT !.owed = TRUE].job = s.job /\ [joined EXCEPT !.owed = TRUE].status = s.status
  BY <1>2 DEF Rows
<1>4. Unstarted(s, s) /\ Unstarted(s, joined) /\ Unstarted(s, [joined EXCEPT !.owed = TRUE])
  BY <1>2, <1>3 DEF Unstarted, With
<1>5. Unstarted(s, QueueExtract(joined, b))
  BY <1>2, QueuesUnstarted DEF Unstarted, With
<1> QED
  BY <1>4, <1>5 DEF FanOut, joined

LEMMA RemoveDocumentUnstarted ==
  ASSUME NEW s \in Rows, NEW d \in Docs PROVE Unstarted(s, RemoveDocument(s, d))
<1> DEFINE gone == [s EXCEPT !.docStatus[d] = "deleted"]
<1>1. gone \in Rows /\ gone.job = s.job /\ gone.status = s.status
  BY DEF Rows
<1> HIDE DEF gone
<1>2. [gone EXCEPT !.owed = TRUE].job = s.job /\ [gone EXCEPT !.owed = TRUE].status = s.status
  BY <1>1 DEF Rows
<1>3. Unstarted(s, gone) /\ Unstarted(s, [gone EXCEPT !.owed = TRUE])
  BY <1>1, <1>2 DEF Unstarted, With
<1>4. Unstarted(s, QueueExtract(gone, FALSE))
  BY <1>1, QueuesUnstarted, ZenonT(60) DEF Unstarted, With
<1> QED
  BY <1>3, <1>4 DEF RemoveDocument, OweRemovals, gone

LEMMA FinishRetryUnstarted ==
  ASSUME NEW s \in Rows, Live(s), NEW ingestDone \in BOOLEAN, NEW uncounted \in BOOLEAN
  PROVE  Unstarted(s, FinishRetry(s, ingestDone, uncounted))
<1>1. s.job \in Jobs
  BY LiveJobType
<1>2. FinishRetry(s, ingestDone, uncounted).job.status = "queued" /\ FinishRetry(s, ingestDone, uncounted).job.kind = s.job.kind
  BY <1>1 DEF FinishRetry, Queue, Jobs, Rows
<1>3. FinishRetry(s, ingestDone, uncounted).status = s.status
  BY DEF FinishRetry, Queue, Rows
<1> QED
  BY <1>2, <1>3 DEF Unstarted, With

LEMMA FinishEndUnstarted ==
  ASSUME NEW s \in Rows, Live(s), NEW outcome \in Ends, NEW ingestDone, NEW heldSets, NEW b \in BOOLEAN,
         NEW old, NEW refreshId, s.job.kind = "apply" => refreshId \in LoadIds
  PROVE  Unstarted(s, FinishEnd(s, outcome, ingestDone, heldSets, b, old, refreshId))
<1> DEFINE worked == EndWork(s, outcome, heldSets)
<1>1. worked \in Rows /\ CancelJob(worked) \in Rows /\ CancelJob(worked).job = NoJob
  BY EndWorkType, CancelType, JobKept
<1>2. Unstarted(s, QueueAfter(CancelJob(worked), b))
  BY <1>1, QueueAfterUnstarted DEF Unstarted, Live
<1>3. ASSUME s.job.kind = "apply" PROVE Unstarted(s, FullRefresh(CancelJob(worked), refreshId))
  <2>1. FullRefresh(CancelJob(worked), refreshId).job = NewJob("load", refreshId, "provisioning")
    BY <1>1, <1>3, FullRefreshUnstarted
  <2> QED
    BY <2>1 DEF Unstarted, NewJob
<1>4. Unstarted(s, Queue(worked, NewJob(s.job.kind, s.job.load, "documents")))
  <2>1. Queue(worked, NewJob(s.job.kind, s.job.load, "documents")).job = NewJob(s.job.kind, s.job.load, "documents")
    BY <1>1 DEF Queue, Rows
  <2>2. Queue(worked, NewJob(s.job.kind, s.job.load, "documents")).status = worked.status
    BY <1>1 DEF Queue, Rows
  <2>3. s.job.kind = "apply" => worked = s
    BY DEF EndWork
  <2> QED
    BY <2>1, <2>2, <2>3 DEF Unstarted, NewJob, With
<1> QED
  BY <1>2, <1>3, <1>4 DEF FinishEnd

--------------------------------------------------------------------------------
(* The inductive invariant.                                                 *)

\* An apply that is live leaves an id for the full load it may hand over to.
ApplyHasId == db.job.kind = "apply" => Fresh(db) # {}
\* An attempt is one of a load, and its end is known before it is recorded.
AttemptFits == \A w \in Workers :
  /\ attempt[w].step # "idle" => attempt[w].load \in LoadIds
  /\ attempt[w].step = "ended" => attempt[w].outcome # "none"
IInv == TypeOK /\ ApplyHasId /\ Fenced /\ AttemptFits

LEMMA FreshIsLoadId == ASSUME NEW s, NEW l \in Fresh(s) PROVE l \in LoadIds
BY DEF Fresh, With

\* What a transaction that starts nobody keeps of the invariant.
LEMMA UnstartedKeeps ==
  ASSUME TypeOK, ApplyHasId, Fenced, db' \in Rows, Unstarted(db, db'),
         \A w \in Workers : attempt'[w].step # "idle" =>
           attempt'[w].kind = attempt[w].kind /\ attempt'[w].load = attempt[w].load /\ attempt[w].step # "idle"
  PROVE  ApplyHasId' /\ Fenced'
<1>1. ApplyHasId'
  <2>1. \A s, t : With(s, "none") = With(t, "none") /\ s \in Rows /\ t \in Rows => Fresh(s) = Fresh(t)
    BY RowsAssumption DEF Fresh, With, LoadIds
  <2> QED
    BY <2>1 DEF ApplyHasId, Unstarted, TypeOK
<1>2. Fenced'
  BY DEF Fenced, Owned, Unstarted
<1> QED
  BY <1>1, <1>2

LEMMA TypeInit == Init => IInv
<1> SUFFICES ASSUME Init PROVE IInv
  OBVIOUS
<1>1. db \in Rows
  <2>1. /\ [l \in LoadIds |-> "none"] \in [LoadIds -> LoadStatuses]
        /\ [l \in LoadIds |-> "user"] \in [LoadIds -> {"user", "refresh"}]
        /\ [l \in LoadIds |-> NoLoad] \in [LoadIds -> LoadIds \cup {NoLoad}]
    BY DEF LoadStatuses
  <2>2. /\ [l \in LoadIds |-> {}] \in [LoadIds -> SUBSET Sets]
        /\ [l \in LoadIds |-> {}] \in [LoadIds -> SUBSET Docs]
        /\ [d \in Docs |-> "pending_upload"] \in [Docs -> {"pending_upload", "uploaded", "deleted"}]
    OBVIOUS
  <2>3. [l \in LoadIds |-> [d \in Docs |-> "none"]] \in [LoadIds -> [Docs -> Extractions]]
    BY DEF Extractions
  <2> QED
    BY <2>1, <2>2, <2>3, ZenonT(60) DEF Init, Rows
<1>2. Idle \in Attempts
  BY DEF Idle, Attempts, Steps, Outcomes, Events
<1>3. TypeOK
  BY <1>1, <1>2 DEF Init, TypeOK
<1>4. db.job = NoJob
  BY DEF Init
<1> QED
  <2>1. AttemptFits
    BY DEF Init, Idle, AttemptFits
  <2> QED
    BY <1>3, <1>4, <2>1 DEF IInv, ApplyHasId, Fenced, Owned, NoJob

\* A request changes the rows alone, by a transaction that starts nobody.
LEMMA RequestKeeps ==
  ASSUME IInv, Request, db' \in Rows, Unstarted(db, db') PROVE IInv'
<1>1. TypeOK'
  BY DEF IInv, TypeOK, Request
<1>2. AttemptFits'
  BY DEF IInv, AttemptFits, Request
<1> QED
  BY <1>1, <1>2, UnstartedKeeps DEF IInv, Request

LEMMA PeopleKeep == IInv /\ People => IInv'
<1> SUFFICES ASSUME IInv, People PROVE IInv'
  OBVIOUS
<1> USE DEF IInv, TypeOK
<1>1. ASSUME NEW l \in LoadIds, NEW scope \in Scopes, CreateLoad(l, scope) PROVE IInv'
  BY <1>1, UserLoadType, UserLoadUnstarted, RequestKeeps DEF CreateLoad
<1>2. ASSUME NEW l \in LoadIds, NEW b \in BOOLEAN, SetCurrent(l, b) PROVE IInv'
  BY <1>2, SetCurrentLoadType, SetCurrentUnstarted, RequestKeeps DEF SetCurrent
<1>3. ASSUME NEW l \in LoadIds, DeleteLoad(l) PROVE IInv'
  BY <1>3, DeleteOneLoadType, DeleteOneUnstarted, RequestKeeps DEF DeleteLoad, Deletable
<1>4. CASE DeleteOntology
  BY <1>4, DeleteWholeOntologyType, DeleteWholeUnstarted, RequestKeeps DEF DeleteOntology
<1>5. CASE ResumeOntologyDrain
  BY <1>5, ResumeDrainType, ResumeDrainUnstarted, RequestKeeps DEF ResumeOntologyDrain
<1>6. ASSUME NEW on \in BOOLEAN, SetAutoRefresh(on) PROVE IInv'
  <2> DEFINE due == db.refreshDue /\ on
  <2>1. due \in BOOLEAN
    OBVIOUS
  <2>2. db' = [db EXCEPT !.autoRefresh = on, !.refreshDue = due] /\ Request
    BY <1>6, Zenon DEF SetAutoRefresh
  <2> HIDE DEF due
  <2>3. db' \in Rows
    BY <2>1, <2>2 DEF Rows
  <2>4. db'.job = db.job /\ db'.status = db.status
    BY <2>2 DEF Rows
  <2> QED
    BY <2>2, <2>3, <2>4, RequestKeeps DEF Unstarted, With
<1> QED
  BY <1>1, <1>2, <1>3, <1>4, <1>5, <1>6 DEF People

LEMMA SyncsKeep == IInv /\ Syncs => IInv'
<1> SUFFICES ASSUME IInv, Syncs PROVE IInv'
  OBVIOUS
<1> USE DEF IInv, TypeOK
<1>1. CASE OweRefresh
  <2>1. db' \in Rows /\ db'.job = db.job /\ db'.status = db.status
    BY <1>1 DEF OweRefresh, Rows
  <2> QED
    BY <1>1, <2>1, RequestKeeps DEF OweRefresh, Unstarted, With
<1>2. ASSUME NEW inPlace \in BOOLEAN, NEW l \in LoadIds, QueueRefresh(inPlace, l) PROVE IInv'
  <2>1. CASE db' = [db EXCEPT !.refreshDue = FALSE]
    <3>1. db' \in Rows /\ db'.job = db.job /\ db'.status = db.status
      BY <2>1 DEF Rows
    <3> QED
      BY <1>2, <3>1, RequestKeeps DEF QueueRefresh, Unstarted, With
  <2>2. ASSUME db.current # NoLoad, l \in Fresh(db), db' = [FullRefresh(db, l) EXCEPT !.refreshDue = FALSE] PROVE IInv'
    <3>1. FullRefresh(db, l) \in Rows /\ FullRefresh(db, l).job = NewJob("load", l, "provisioning")
      BY <2>2, FullRefreshType, FullRefreshUnstarted
    <3>2. db' \in Rows /\ db'.job = NewJob("load", l, "provisioning")
      BY <2>2, <3>1 DEF Rows
    <3> QED
      BY <1>2, <3>2, RequestKeeps DEF QueueRefresh, Unstarted, NewJob
  <2>3. ASSUME db.current # NoLoad, l \in Fresh(db),
               db' = [Queue(db, NewJob("apply", db.current, "provisioning")) EXCEPT !.refreshDue = FALSE]
        PROVE  IInv'
    <3>1. db.current \in LoadIds
      BY <2>3 DEF Rows
    <3>2. NewJob("apply", db.current, "provisioning") \in Jobs
      BY <3>1, NewJobType DEF Phases
    <3>3. db' \in Rows /\ db'.job = NewJob("apply", db.current, "provisioning") /\ db'.status = db.status
      BY <2>3, <3>2 DEF Queue, Rows
    <3>4. Fresh(db') = Fresh(db)
      BY <3>3 DEF Fresh, With
    <3>5. TypeOK' /\ ApplyHasId'
      BY <1>2, <2>3, <3>3, <3>4 DEF QueueRefresh, Request, ApplyHasId
    <3>6. Fenced'
      BY <3>3 DEF Fenced, Owned, NewJob
    <3>7. AttemptFits'
      BY <1>2 DEF QueueRefresh, Request, AttemptFits
    <3> QED
      BY <3>5, <3>6, <3>7
  <2> QED
    BY <1>2, <2>1, <2>2, <2>3 DEF QueueRefresh
<1> QED
  BY <1>1, <1>2 DEF Syncs

LEMMA DocumentsKeep == IInv /\ Documents => IInv'
<1> SUFFICES ASSUME IInv, Documents PROVE IInv'
  OBVIOUS
<1> USE DEF IInv, TypeOK
<1>1. ASSUME NEW d \in Docs, NEW canWrite \in BOOLEAN, NEW b \in BOOLEAN, CompleteUpload(d, canWrite, b) PROVE IInv'
  <2> DEFINE uploaded == [db EXCEPT !.docStatus[d] = "uploaded"]
  <2>1. uploaded \in Rows /\ uploaded.job = db.job /\ uploaded.status = db.status
    BY DEF Rows
  <2> HIDE DEF uploaded
  <2>2. db' = FanOut(uploaded, d, canWrite, b)
    BY <1>1 DEF CompleteUpload, uploaded
  <2>3. db' \in Rows /\ Unstarted(uploaded, db')
    BY <2>1, <2>2, FanOutType, FanOutUnstarted
  <2> QED
    BY <1>1, <2>1, <2>3, RequestKeeps DEF CompleteUpload, Unstarted, With
<1>2. ASSUME NEW d \in Docs, NEW set \in Sets, NEW canWrite \in BOOLEAN, NEW b \in BOOLEAN, MoveDocument(d, set, canWrite, b)
      PROVE  IInv'
  <2> DEFINE moved == [db EXCEPT !.docSet[d] = set]
  <2>1. moved \in Rows /\ moved.job = db.job /\ moved.status = db.status
    BY DEF Rows
  <2> HIDE DEF moved
  <2>2. db' = FanOut(moved, d, canWrite, b) \/ db' = moved
    BY <1>2 DEF MoveDocument, moved
  <2>3. db' \in Rows /\ Unstarted(moved, db')
    BY <2>1, <2>2, FanOutType, FanOutUnstarted DEF Unstarted
  <2> QED
    BY <1>2, <2>1, <2>3, RequestKeeps DEF MoveDocument, Unstarted, With
<1>3. ASSUME NEW d \in Docs, DeleteDocument(d) PROVE IInv'
  BY <1>3, RemoveDocumentType, RemoveDocumentUnstarted, RequestKeeps DEF DeleteDocument
<1> QED
  BY <1>1, <1>2, <1>3 DEF Documents

\* A worker's step that goes on with its attempt, or ends it.
LEMMA AttemptKeeps ==
  ASSUME IInv, NEW w \in Workers, NEW a \in Attempts, attempt' = [attempt EXCEPT ![w] = a],
         a.step = "idle" \/ (a.kind = attempt[w].kind /\ a.load = attempt[w].load /\ attempt[w].step # "idle"),
         a.step = "ended" => a.outcome # "none",
         db' \in Rows, Unstarted(db, db'), tables' \in [LoadIds -> BOOLEAN], graph' \in [LoadIds -> SUBSET Docs]
  PROVE  IInv'
<1> USE DEF IInv, TypeOK
<1>1. TypeOK'
  OBVIOUS
<1>2. \A v \in Workers : attempt'[v].step # "idle" =>
        attempt'[v].kind = attempt[v].kind /\ attempt'[v].load = attempt[v].load /\ attempt[v].step # "idle"
  OBVIOUS
<1>3. AttemptFits'
  BY DEF AttemptFits
<1> QED
  BY <1>1, <1>2, <1>3, UnstartedKeeps

LEMMA IdleType == Idle \in Attempts /\ Idle.step = "idle"
BY DEF Idle, Attempts, Steps, Outcomes, Events

\* A live job's row may change its phase and its counts under its attempt.
LEMMA RowKept ==
  ASSUME NEW s \in Rows, Live(s), NEW phase \in Phases, NEW owner \in Workers \cup {Nobody}
  PROVE  /\ [s EXCEPT !.job.phase = phase] \in Rows /\ Unstarted(s, [s EXCEPT !.job.phase = phase])
         /\ [s EXCEPT !.job.owner = owner] \in Rows
<1>1. s.job \in Jobs
  BY LiveJobType
<1>2. [s.job EXCEPT !.phase = phase] \in Jobs /\ [s.job EXCEPT !.owner = owner] \in Jobs
  BY <1>1 DEF Jobs
<1> QED
  BY <1>1, <1>2, ZenonT(60) DEF Rows, Unstarted, With, Jobs

LEMMA UnchangedUnstarted == ASSUME NEW s PROVE Unstarted(s, s)
BY DEF Unstarted

LEMMA UpdateKeeps ==
  ASSUME IInv, NEW w \in Workers, NEW phase \in Phases, NEW a \in Attempts, attempt[w].step # "idle",
         a.kind = attempt[w].kind, a.load = attempt[w].load, a.step = "ended" => a.outcome # "none", Update(w, phase, a)
  PROVE  IInv'
<1> USE DEF IInv, TypeOK
<1>1. CASE Owned(w)
  <2>1. Live(db)
    BY <1>1 DEF Owned, Live, NoJob
  <2>2. db' \in Rows /\ Unstarted(db, db')
    BY <1>1, <2>1, RowKept, UnchangedUnstarted DEF Update
  <2> QED
    BY <1>1, <2>2, AttemptKeeps DEF Update
<1>2. CASE ~Owned(w)
  <2> DEFINE ended == [attempt[w] EXCEPT !.step = "ended", !.outcome = "retry"]
  <2>1. ended \in Attempts /\ ended.kind = attempt[w].kind /\ ended.load = attempt[w].load /\ ended.outcome = "retry"
    BY DEF Attempts, Steps, Outcomes
  <2>2. attempt' = [attempt EXCEPT ![w] = ended]
    BY <1>2 DEF Update, End
  <2> HIDE DEF ended
  <2>3. db' = db /\ tables' = tables /\ graph' = graph
    BY <1>2 DEF Update
  <2> QED
    BY <2>1, <2>2, <2>3, AttemptKeeps, UnchangedUnstarted
<1> QED
  BY <1>1, <1>2

LEMMA ClaimKeeps == ASSUME IInv, NEW w \in Workers, Claim(w) PROVE IInv'
<1> USE DEF IInv, TypeOK
<1>1. Live(db)
  BY DEF Claim, Live, NoJob
<1>2. db.job \in Jobs /\ db.job.load \in LoadIds
  BY <1>1, LiveJobType
<1> DEFINE job == [db.job EXCEPT !.status = "running", !.owner = w,
                                 !.attempts = IF db.job.attempts <= MaxAttempts THEN db.job.attempts + 1 ELSE db.job.attempts]
           giveUp == db.job.attempts >= MaxAttempts
           a == [Idle EXCEPT !.step = IF giveUp THEN "ended" ELSE "begun", !.outcome = IF giveUp THEN "failed" ELSE "none",
                             !.kind = db.job.kind, !.load = db.job.load, !.ingestDone = ~giveUp /\ ~RunsIngest(db.job.phase)]
<1>3. job \in Jobs
  <2> DEFINE counted == IF db.job.attempts <= MaxAttempts THEN db.job.attempts + 1 ELSE db.job.attempts
  <2>1. db.job.attempts \in 0..(MaxAttempts + 1)
    BY <1>2 DEF Jobs
  <2>2. counted \in 0..(MaxAttempts + 1)
    BY <2>1, RowsAssumption
  <2> HIDE DEF counted
  <2>3. [db.job EXCEPT !.status = "running", !.owner = w, !.attempts = counted] \in Jobs
    BY <1>2, <2>2 DEF Jobs
  <2> QED
    BY <2>3 DEF counted
<1>4. db' = [db EXCEPT !.job = job]
  BY <1>2 DEF Claim, Rows, Jobs
<1>5. db' \in Rows /\ db'.job = job /\ db'.status = db.status
  BY <1>3, <1>4 DEF Rows
<1>6. attempt' = [attempt EXCEPT ![w] = a]
  BY DEF Claim
<1>7. a \in Attempts /\ a.kind = db.job.kind /\ a.load = db.job.load
  <2>1. (~giveUp /\ ~RunsIngest(db.job.phase)) \in BOOLEAN
    OBVIOUS
  <2>2. db.job.kind \in {"none", "load", "extract", "apply", "delete"} /\ db.job.load \in LoadIds \cup {NoLoad}
    BY <1>2 DEF Jobs
  <2> QED
    BY <2>1, <2>2 DEF Idle, Attempts, Steps, Outcomes, Events
<1>11. a.step = "ended" => a.outcome # "none"
  BY DEF Idle
<1> HIDE DEF a
<1>8. TypeOK'
  BY <1>5, <1>6, <1>7 DEF Claim
<1>9. ApplyHasId'
  BY <1>2, <1>5 DEF ApplyHasId, Fresh, With, Jobs
<1>10. Fenced'
  BY <1>2, <1>5, <1>6, <1>7 DEF Fenced, Owned, Jobs
<1>12. AttemptFits'
  BY <1>2, <1>6, <1>7, <1>11 DEF AttemptFits
<1> QED
  BY <1>8, <1>9, <1>10, <1>12

\* What the two records store changes no job and no load's status.
LEMMA RecordUnstarted ==
  ASSUME NEW s \in Rows, NEW l \in LoadIds, NEW d \in Docs, NEW result \in Extractions
  PROVE  Unstarted(s, RecordExtraction(s, l, d, result)) /\ Unstarted(s, RecordRemoval(s, l, d))
BY DEF RecordExtraction, RecordRemoval, Rows, Unstarted, With

LEMMA RecordKeeps == ASSUME IInv, NEW w \in Workers, Record(w) PROVE IInv'
<1> USE DEF IInv, TypeOK
<1> DEFINE l == attempt[w].load
           d == attempt[w].event.doc
           result == attempt[w].event.result
           recorded == [attempt[w] EXCEPT !.event = NoEvent, !.pending = IF result = "removed" THEN @ ELSE @ \ {d},
                                          !.removed = @ \ {d}]
           ended == [attempt[w] EXCEPT !.event = NoEvent, !.step = "ended", !.outcome = "retry"]
<1>0. attempt[w] \in Attempts
  OBVIOUS
<1>1. attempt[w].step = "sending" /\ l \in LoadIds /\ d \in Docs /\ result \in {"extracted", "retryable", "failed", "removed"}
  BY DEF Record, AttemptFits, Attempts, Events
<1>2. NoEvent \in Events
  BY DEF Events
<1>3. recorded \in Attempts /\ recorded.kind = attempt[w].kind /\ recorded.load = l /\ recorded.step = "sending"
  BY <1>1, <1>2, ZenonT(60) DEF Attempts
<1>4. ended \in Attempts /\ ended.kind = attempt[w].kind /\ ended.load = l /\ ended.outcome = "retry"
  BY <1>1, <1>2, ZenonT(60) DEF Attempts, Steps, Outcomes
<1>5. tables' = tables /\ graph' = graph
  BY DEF Record
<1>6. \/ /\ attempt' = [attempt EXCEPT ![w] = recorded]
         /\ db' = IF result = "removed" THEN RecordRemoval(db, l, d) ELSE RecordExtraction(db, l, d, result)
      \/ attempt' = [attempt EXCEPT ![w] = ended] /\ db' = db
  <2> DEFINE pending == IF result = "removed" THEN attempt[w].pending ELSE attempt[w].pending \ {d}
  <2>1. CASE Owned(w) /\ (result = "removed" \/ d \in db.members[l])
    <3>1. attempt' = [attempt EXCEPT ![w].event = NoEvent, ![w].pending = pending, ![w].removed = @ \ {d}]
      BY <2>1, Zenon DEF Record
    <3>2. recorded = [attempt[w] EXCEPT !.event = NoEvent, !.pending = pending, !.removed = @ \ {d}]
      BY <1>0 DEF Attempts
    <3>3. attempt' = [attempt EXCEPT ![w] = recorded]
      BY <3>1, <3>2
    <3>4. db' = IF result = "removed" THEN RecordRemoval(db, l, d) ELSE RecordExtraction(db, l, d, result)
      BY <2>1, Zenon DEF Record
    <3> QED
      BY <3>3, <3>4
  <2>2. CASE ~(Owned(w) /\ (result = "removed" \/ d \in db.members[l]))
    <3>1. /\ attempt' = [attempt EXCEPT ![w].event = NoEvent, ![w].step = "ended", ![w].outcome = "retry"]
          /\ db' = db
      BY <2>2, Zenon DEF Record
    <3> QED
      BY <3>1
  <2> QED
    BY <2>1, <2>2
<1> HIDE DEF l, d, result, recorded, ended
<1>7. db' \in Rows /\ Unstarted(db, db')
  <2>1. CASE db' = db
    BY <2>1, UnchangedUnstarted
  <2>2. CASE db' = RecordRemoval(db, l, d)
    <3>1. "none" \in Extractions
      BY DEF Extractions
    <3> QED
      BY <1>1, <2>2, <3>1, RecordType, RecordUnstarted
  <2>3. CASE result # "removed" /\ db' = RecordExtraction(db, l, d, result)
    <3>1. result \in Extractions
      BY <1>1, <2>3 DEF Extractions
    <3> QED
      BY <1>1, <2>3, <3>1, RecordType, RecordUnstarted
  <2> QED
    BY <1>6, <2>1, <2>2, <2>3
<1>8. attempt' = [attempt EXCEPT ![w] = recorded] \/ attempt' = [attempt EXCEPT ![w] = ended]
  BY <1>6
<1>9. attempt[w].step # "idle" /\ l = attempt[w].load
  BY <1>1 DEF l
<1> QED
  BY <1>3, <1>4, <1>5, <1>7, <1>8, <1>9, AttemptKeeps

LEMMA WorksKeep == ASSUME IInv, NEW w \in Workers, Works(w) PROVE IInv'
<1> USE DEF IInv, TypeOK
<1>0. attempt[w] \in Attempts
  OBVIOUS
<1>1. CASE StartIngest(w)
  <2> DEFINE a == [attempt[w] EXCEPT !.step = "ingesting"]
  <2>1. a \in Attempts /\ a.kind = attempt[w].kind /\ a.load = attempt[w].load /\ a.step # "ended"
    BY DEF Attempts, Steps
  <2> HIDE DEF a
  <2>2. Update(w, "ingest", a) /\ attempt[w].step # "idle"
    BY <1>1 DEF StartIngest, a
  <2> QED
    BY <2>1, <2>2, UpdateKeeps DEF Phases
<1>2. CASE StartDelete(w)
  <2> DEFINE a == [attempt[w] EXCEPT !.step = "deleting"]
  <2>1. a \in Attempts /\ a.kind = attempt[w].kind /\ a.load = attempt[w].load /\ a.step # "ended"
    BY DEF Attempts, Steps
  <2> HIDE DEF a
  <2>2. Update(w, "deleting", a) /\ attempt[w].step # "idle"
    BY <1>2 DEF StartDelete, a
  <2> QED
    BY <2>1, <2>2, UpdateKeeps DEF Phases
<1>3. CASE ListPending(w)
  <2> DEFINE a == [attempt[w] EXCEPT !.step = "listed", !.pending = Waiting(db, attempt[w].load)]
  <2>1. Waiting(db, attempt[w].load) \in SUBSET Docs
    BY <1>3 DEF ListPending, AttemptFits, Waiting, Uploaded, Rows
  <2>2. a \in Attempts /\ a.kind = attempt[w].kind /\ a.load = attempt[w].load /\ a.step # "ended"
    BY <2>1, ZenonT(60) DEF Attempts, Steps
  <2> HIDE DEF a
  <2>3. Update(w, "documents", a) /\ attempt[w].step # "idle"
    BY <1>3 DEF ListPending, a
  <2> QED
    BY <2>2, <2>3, UpdateKeeps DEF Phases
<1>4. CASE ExtractDone(w)
  <2> DEFINE a == [attempt[w] EXCEPT !.step = "ended", !.outcome = "succeeded"]
  <2>1. a \in Attempts /\ a.kind = attempt[w].kind /\ a.load = attempt[w].load /\ a.outcome # "none"
    BY ZenonT(60) DEF Attempts, Steps, Outcomes
  <2> HIDE DEF a
  <2>2. Update(w, "finishing", a) /\ attempt[w].step # "idle"
    BY <1>4 DEF ExtractDone, a
  <2> QED
    BY <2>1, <2>2, UpdateKeeps DEF Phases
<1>5. CASE Ingest(w)
  <2> DEFINE a == [attempt[w] EXCEPT !.step = "ingested", !.ingestDone = TRUE]
  <2>1. a \in Attempts /\ a.kind = attempt[w].kind /\ a.load = attempt[w].load /\ a.step # "ended"
    BY ZenonT(60) DEF Attempts, Steps
  <2>2. attempt' = [attempt EXCEPT ![w] = a] /\ attempt[w].step # "idle"
    BY <1>5 DEF Ingest
  <2> HIDE DEF a
  <2>3. db' = db /\ graph' = graph /\ tables' \in [LoadIds -> BOOLEAN]
    BY <1>5 DEF Ingest
  <2> QED
    BY <2>1, <2>2, <2>3, AttemptKeeps, UnchangedUnstarted
<1>6. CASE ListRemoved(w)
  <2> DEFINE a == [attempt[w] EXCEPT !.step = "sending", !.removed = Removed(db, attempt[w].load)]
  <2>1. Removed(db, attempt[w].load) \in SUBSET Docs
    BY <1>6 DEF ListRemoved, AttemptFits, Removed, Rows
  <2>2. a \in Attempts /\ a.kind = attempt[w].kind /\ a.load = attempt[w].load /\ a.step # "ended"
    BY <2>1, ZenonT(60) DEF Attempts, Steps
  <2>3. attempt' = [attempt EXCEPT ![w] = a] /\ attempt[w].step # "idle"
    BY <1>6 DEF ListRemoved
  <2> HIDE DEF a
  <2>4. db' = db /\ graph' = graph /\ tables' = tables
    BY <1>6 DEF ListRemoved
  <2> QED
    BY <2>2, <2>3, <2>4, AttemptKeeps, UnchangedUnstarted
<1>7. ASSUME NEW d \in Docs, AgentRemoves(w, d) PROVE IInv'
  <2> DEFINE a == [attempt[w] EXCEPT !.event = [doc |-> d, result |-> "removed"]]
  <2>1. a \in Attempts /\ a.kind = attempt[w].kind /\ a.load = attempt[w].load /\ a.step = attempt[w].step
    BY DEF Attempts, Events
  <2>2. attempt' = [attempt EXCEPT ![w] = a] /\ attempt[w].step = "sending"
    BY <1>7 DEF AgentRemoves
  <2> HIDE DEF a
  <2>3. db' = db /\ tables' = tables /\ graph' \in [LoadIds -> SUBSET Docs]
    BY <1>7 DEF AgentRemoves
  <2> QED
    BY <2>1, <2>2, <2>3, AttemptKeeps, UnchangedUnstarted
<1>8. ASSUME NEW d \in Docs, NEW result \in {"extracted", "retryable", "failed"}, AgentExtracts(w, d, result) PROVE IInv'
  <2> DEFINE a == [attempt[w] EXCEPT !.event = [doc |-> d, result |-> result]]
  <2>1. a \in Attempts /\ a.kind = attempt[w].kind /\ a.load = attempt[w].load /\ a.step = attempt[w].step
    BY DEF Attempts, Events
  <2>2. attempt' = [attempt EXCEPT ![w] = a] /\ attempt[w].step = "sending"
    BY <1>8 DEF AgentExtracts
  <2> HIDE DEF a
  <2>3. db' = db /\ tables' = tables /\ graph' \in [LoadIds -> SUBSET Docs]
    BY <1>8 DEF AgentExtracts
  <2> QED
    BY <2>1, <2>2, <2>3, AttemptKeeps, UnchangedUnstarted
<1>9. CASE Record(w)
  BY <1>9, RecordKeeps
<1>10. CASE AgentDeletes(w)
  <2> DEFINE a == [attempt[w] EXCEPT !.step = "ended", !.outcome = "succeeded"]
  <2>1. a \in Attempts /\ a.kind = attempt[w].kind /\ a.load = attempt[w].load /\ a.outcome # "none"
    BY ZenonT(60) DEF Attempts, Steps, Outcomes
  <2>2. attempt' = [attempt EXCEPT ![w] = a] /\ attempt[w].step # "idle"
    BY <1>10 DEF AgentDeletes, End
  <2> HIDE DEF a
  <2>3. db' = db /\ tables' \in [LoadIds -> BOOLEAN] /\ graph' \in [LoadIds -> SUBSET Docs]
    BY <1>10 DEF AgentDeletes
  <2> QED
    BY <2>1, <2>2, <2>3, AttemptKeeps, UnchangedUnstarted
<1> QED
  BY <1>1, <1>2, <1>3, <1>4, <1>5, <1>6, <1>7, <1>8, <1>9, <1>10 DEF Works

LEMMA CrashKeeps == ASSUME IInv, NEW w \in Workers, Crash(w) PROVE IInv'
<1> USE DEF IInv, TypeOK
<1>1. attempt' = [attempt EXCEPT ![w] = Idle] /\ tables' = tables /\ graph' = graph
  BY DEF Crash
<1>2. CASE db.job.owner # w
  <2>1. db' = db
    BY <1>2 DEF Crash
  <2> QED
    BY <1>1, <2>1, AttemptKeeps, IdleType, UnchangedUnstarted
<1>3. CASE db.job.owner = w
  <2>1. Live(db)
    BY <1>3, RowsAssumption DEF Live, NoJob
  <2>2. db' = [db EXCEPT !.job.owner = Nobody]
    BY <1>3 DEF Crash
  <2>3. db' \in Rows
    BY <2>1, <2>2, RowKept DEF Phases
  <2>4. db.job \in Jobs
    BY <2>1, LiveJobType
  <2>5. db'.job.kind = db.job.kind /\ db'.job.owner = Nobody /\ db'.status = db.status
    BY <2>2, <2>4 DEF Rows, Jobs
  <2>6. TypeOK' /\ AttemptFits'
    BY <1>1, <2>3, IdleType DEF AttemptFits
  <2>7. ApplyHasId'
    BY <2>5 DEF ApplyHasId, Fresh, With
  <2>8. Fenced'
    BY <2>5, RowsAssumption DEF Fenced, Owned
  <2> QED
    BY <2>6, <2>7, <2>8
<1> QED
  BY <1>2, <1>3

LEMMA FailsKeep == ASSUME IInv, NEW w \in Workers, Fails(w) PROVE IInv'
<1> USE DEF IInv, TypeOK
<1>0. attempt[w] \in Attempts /\ NoEvent \in Events
  BY DEF Events
<1>1. ASSUME NEW d \in Docs, TextGone(w, d) PROVE IInv'
  <2> DEFINE a == [attempt[w] EXCEPT !.pending = @ \ {d}]
  <2>1. a \in Attempts /\ a.kind = attempt[w].kind /\ a.load = attempt[w].load /\ a.step = attempt[w].step
    BY <1>0 DEF Attempts
  <2>2. attempt' = [attempt EXCEPT ![w] = a] /\ attempt[w].step = "sending"
    BY <1>1 DEF TextGone
  <2> HIDE DEF a
  <2>3. tables' = tables /\ graph' = graph /\ (db' = db \/ db' = RemoveDocument(db, d))
    BY <1>1 DEF TextGone
  <2>4. db' \in Rows /\ Unstarted(db, db')
    BY <2>3, RemoveDocumentType, RemoveDocumentUnstarted, UnchangedUnstarted
  <2> QED
    BY <2>1, <2>2, <2>3, <2>4, AttemptKeeps
<1>2. ASSUME NEW heldSets \in SUBSET Sets, BudgetStops(w, heldSets) PROVE IInv'
  <2> DEFINE a == [attempt[w] EXCEPT !.step = "ended", !.outcome = "budget_exhausted", !.held = heldSets]
  <2>1. a \in Attempts /\ a.kind = attempt[w].kind /\ a.load = attempt[w].load /\ a.outcome # "none"
    BY <1>0 DEF Attempts, Steps, Outcomes
  <2>2. attempt' = [attempt EXCEPT ![w] = a] /\ attempt[w].step # "idle" /\ UNCHANGED <<db, tables, graph>>
    BY <1>2 DEF BudgetStops
  <2> HIDE DEF a
  <2> QED
    BY <2>1, <2>2, AttemptKeeps, UnchangedUnstarted
<1>3. ASSUME NEW outcome \in {"failed", "retry", "uncounted"},
             attempt[w].step # "idle", UNCHANGED <<db, tables, graph>>,
             attempt' = [attempt EXCEPT ![w].step = "ended", ![w].event = NoEvent, ![w].outcome = outcome]
      PROVE  IInv'
  <2> DEFINE a == [attempt[w] EXCEPT !.step = "ended", !.event = NoEvent, !.outcome = outcome]
  <2>1. a \in Attempts /\ a.kind = attempt[w].kind /\ a.load = attempt[w].load /\ a.outcome # "none"
    BY <1>0 DEF Attempts, Steps, Outcomes
  <2>2. attempt' = [attempt EXCEPT ![w] = a]
    BY <1>3
  <2> HIDE DEF a
  <2> QED
    BY <1>3, <2>1, <2>2, AttemptKeeps, UnchangedUnstarted
<1>4. ASSUME NEW outcome \in {"failed", "retry", "uncounted"}, Stops(w, outcome) PROVE IInv'
  BY <1>3, <1>4 DEF Stops
<1>5. CASE LosesLease(w)
  BY <1>3, <1>5 DEF LosesLease
<1>6. CASE FinishUnrecorded(w)
  BY <1>6, AttemptKeeps, IdleType, UnchangedUnstarted DEF FinishUnrecorded
<1>7. CASE Crash(w)
  BY <1>7, CrashKeeps
<1>8. CASE RemovalUnrecorded(w)
  <2> DEFINE a == [attempt[w] EXCEPT !.removed = @ \ {attempt[w].event.doc}, !.event = NoEvent]
  <2>1. a \in Attempts /\ a.kind = attempt[w].kind /\ a.load = attempt[w].load /\ a.step = attempt[w].step
    BY <1>0 DEF Attempts
  <2>2. attempt' = [attempt EXCEPT ![w] = a] /\ attempt[w].step = "sending" /\ UNCHANGED <<db, tables, graph>>
    BY <1>8 DEF RemovalUnrecorded
  <2> HIDE DEF a
  <2> QED
    BY <2>1, <2>2, AttemptKeeps, UnchangedUnstarted
<1> QED
  BY <1>1, <1>2, <1>4, <1>5, <1>6, <1>7, <1>8 DEF Fails

LEMMA FinishKeeps ==
  ASSUME IInv, NEW w \in Workers, NEW b \in BOOLEAN, NEW old \in BOOLEAN, NEW l \in LoadIds \cup {NoLoad},
         IF Fresh(db) = {} THEN l = NoLoad ELSE l \in Fresh(db), Finish(w, b, old, l)
  PROVE  IInv'
<1> USE DEF IInv, TypeOK
<1> DEFINE a == attempt[w]
           retries == \/ a.outcome = "uncounted"
                      \/ a.outcome = "retry" /\ db.job.attempts < MaxAttempts
           outcome == IF a.outcome = "retry" THEN "failed" ELSE a.outcome
<1>1. attempt' = [attempt EXCEPT ![w] = Idle] /\ tables' = tables /\ graph' = graph /\ a.step = "ended"
  BY DEF Finish
<1>2. a.ingestDone \in BOOLEAN /\ (a.outcome = "uncounted") \in BOOLEAN /\ a.outcome \in Outcomes \ {"none"}
  BY <1>1 DEF Attempts, AttemptFits
<1>3. CASE ~Owned(w)
  <2>1. db' = db
    BY <1>3 DEF Finish
  <2> QED
    BY <1>1, <2>1, AttemptKeeps, IdleType, UnchangedUnstarted
<1>4. CASE Owned(w)
  <2>1. Live(db)
    BY <1>4 DEF Owned, Live, NoJob
  <2>2. CASE retries
    <3>1. db' = FinishRetry(db, a.ingestDone, a.outcome = "uncounted")
      BY <1>4, <2>2 DEF Finish
    <3>2. db' \in Rows /\ Unstarted(db, db')
      BY <1>2, <2>1, <3>1, FinishRetryType, FinishRetryUnstarted
    <3> QED
      BY <1>1, <3>2, AttemptKeeps, IdleType
  <2>3. CASE ~retries
    <3>1. db' = FinishEnd(db, outcome, a.ingestDone, a.held, b, old, l)
      BY <1>4, <2>3 DEF Finish
    <3>2. outcome \in Ends
      BY <1>2, <2>3 DEF Ends, Outcomes
    <3>3. db.job.kind = "apply" => l \in LoadIds
      BY FreshIsLoadId DEF ApplyHasId
    <3>4. db' \in Rows /\ Unstarted(db, db')
      BY <1>2, <2>1, <3>1, <3>2, <3>3, FinishEndType, FinishEndUnstarted
    <3> QED
      BY <1>1, <3>4, AttemptKeeps, IdleType
  <2> QED
    BY <2>2, <2>3
<1> QED
  BY <1>3, <1>4

LEMMA NextKeeps == IInv /\ [Next]_vars => IInv'
<1> SUFFICES ASSUME IInv, [Next]_vars PROVE IInv'
  OBVIOUS
<1>1. CASE People
  BY <1>1, PeopleKeep
<1>2. CASE Syncs
  BY <1>2, SyncsKeep
<1>3. CASE Documents
  BY <1>3, DocumentsKeep
<1>4. ASSUME NEW w \in Workers, Claim(w) \/ Works(w) \/ Fails(w) PROVE IInv'
  BY <1>4, ClaimKeeps, WorksKeep, FailsKeep
<1>5. ASSUME NEW w \in Workers, Finishes(w) PROVE IInv'
  BY <1>5, FinishKeeps DEF Finishes
<1>6. CASE UNCHANGED vars
  BY <1>6 DEF vars, IInv, TypeOK, ApplyHasId, Fenced, Owned, AttemptFits
<1> QED
  BY <1>1, <1>2, <1>3, <1>4, <1>5, <1>6 DEF Next

--------------------------------------------------------------------------------
(* What the fence of every write rests on.                                  *)

\* The invariant holds of every reachable state.
LEMMA Invariant == Spec => []IInv
<1>1. Init => IInv
  BY TypeInit
<1> QED
  BY <1>1, NextKeeps, PTL DEF Spec

\* However many loads, documents, workers and attempts there are, each
\* transaction of the store leaves rows of the kind it found: no transaction
\* leaves a live job of no load, or of a kind, phase or status it may not have.
THEOREM RowsTyped == Spec => []TypeOK
<1>1. IInv => TypeOK
  BY DEF IInv
<1> QED
  BY <1>1, Invariant, PTL

\* An attempt that holds the live job is always an attempt of that very job,
\* whatever was cancelled, preempted, finished or claimed since it began: the
\* fence of every write (ownedFoundryGraphJob) lets no other attempt's write in.
THEOREM AttemptsAreFenced == Spec => []Fenced
<1>1. IInv => Fenced
  BY DEF IInv
<1> QED
  BY <1>1, Invariant, PTL


--------------------------------------------------------------------------------
(* What the rows keep.                                                      *)

Leaving == {"deleting", "delete_failed", "deleted"}   \* a load never comes back from these
Absent == {"none", "deleted"}                         \* a load not in the graph database

WritersLive(s) == \A l \in LoadIds : s.status[l] = "writing" => s.job.kind = "load" /\ s.job.load = l
JobFits(s) ==
  /\ s.job.kind = "delete" => s.status[s.job.load] = "deleting"
  /\ s.job.kind \in {"extract", "apply"} => s.status[s.job.load] \in Servable
  /\ s.job.kind = "load" => s.status[s.job.load] \in {"writing", "ready"}
CurrentFits(s) == s.current # NoLoad => s.status[s.current] \in Servable
Drained(s) == s.deleted =>
  /\ s.current = NoLoad /\ ~s.owed /\ s.job.kind \in {"none", "delete"}
  /\ \A l \in LoadIds : s.status[l] \in Leaving \cup {"none"}
AbsentClear(s) == \A l \in LoadIds : s.status[l] \in Absent =>
  s.members[l] = {} /\ \A d \in Docs : s.extraction[l][d] = "none"
LoadsAgree(s) == WritersLive(s) /\ JobFits(s) /\ CurrentFits(s) /\ Drained(s) /\ AbsentClear(s)

\* Between jobs nothing is owed or waits, and a database is let go of empty.
Queued(s) == ~Live(s) => ~s.owed /\ \A l \in LoadIds : s.status[l] # "deleting"
Held(s) == ~s.held => s.deleted /\ ~Live(s) /\ \A l \in LoadIds : s.status[l] \in Absent
Agree(s) == LoadsAgree(s) /\ Queued(s) /\ Held(s)

\* What every transaction but a job's end keeps of the rows before it: no load
\* comes back, starts to serve or is deleted, and no document leaves one.
Moves(s, t) ==
  /\ \A l \in LoadIds :
       /\ s.status[l] \in Leaving => t.status[l] \in Leaving
       /\ t.status[l] = "none" => s.status[l] = "none"
       /\ t.status[l] \in Servable => t.status[l] = s.status[l]
       /\ t.status[l] = "deleted" <=> s.status[l] = "deleted"
       /\ s.members[l] \subseteq t.members[l]
  /\ t.extraction = s.extraction
  /\ \A d \in Docs : s.docStatus[d] = "deleted" => t.docStatus[d] = "deleted"
  /\ t.job = s.job \/ t.job.kind \in {"none", "extract", "delete"} \/ RunsIngest(t.job.phase)
  /\ t.current \in {s.current, NoLoad} \/ (t.current \in LoadIds /\ s.status[t.current] \in Servable)

LEMMA MovesTwice ==
  ASSUME NEW s \in Rows, NEW m \in Rows, NEW t \in Rows, Moves(s, m), Moves(m, t) PROVE Moves(s, t)
BY DEF Moves

LEMMA MovesNot == ASSUME NEW s \in Rows PROVE Moves(s, s)
BY DEF Moves

--------------------------------------------------------------------------------
(* The parts of a transaction.                                              *)

LEMMA NewJobIs ==
  ASSUME NEW kind \in {"load", "extract", "apply", "delete"}, NEW l, NEW phase
  PROVE  /\ NewJob(kind, l, phase).kind = kind /\ NewJob(kind, l, phase).load = l
         /\ NewJob(kind, l, phase).phase = phase /\ NewJob(kind, l, phase) # NoJob
BY DEF NewJob, NoJob

LEMMA IdIsNoNone == \A l \in LoadIds : l # NoLoad
BY RowsAssumption DEF LoadIds, NoLoad

LEMMA NoJobIs == ASSUME NEW s \in Rows PROVE (~Live(s) => s.job.kind = "none") /\ (Live(s) => s.job.kind # "none")
BY DEF Live, NoJob, Rows, Jobs

\* Loads that nothing serves from or works on may be marked for their delete.
LEMMA MarkAgrees ==
  ASSUME NEW s \in Rows, LoadsAgree(s), NEW L \in SUBSET LoadIds,
         \A l \in L : l # s.current /\ s.status[l] \notin Absent /\ (Live(s) => s.job.load # l \/ s.job.kind = "delete")
  PROVE  LoadsAgree(Mark(s, L, "deleting")) /\ Moves(s, Mark(s, L, "deleting"))
<1> DEFINE t == Mark(s, L, "deleting")
<1>1. /\ t.status = [l \in LoadIds |-> IF l \in L THEN "deleting" ELSE s.status[l]]
      /\ t.job = s.job /\ t.current = s.current /\ t.deleted = s.deleted /\ t.owed = s.owed
      /\ t.members = s.members /\ t.extraction = s.extraction /\ t.docStatus = s.docStatus
  BY DEF Mark, Rows
<1> HIDE DEF t
<1>2. \A l \in LoadIds : t.status[l] = IF l \in L THEN "deleting" ELSE s.status[l]
  BY <1>1
<1>3. WritersLive(t)
  BY <1>1, <1>2 DEF LoadsAgree, WritersLive
<1>4. JobFits(t)
  BY <1>1, <1>2, NoJobIs, LiveJobType DEF LoadsAgree, JobFits, Servable
<1>5. CurrentFits(t)
  BY <1>1, <1>2 DEF LoadsAgree, CurrentFits, Rows
<1>6. Drained(t) /\ AbsentClear(t)
  BY <1>1, <1>2 DEF LoadsAgree, Drained, AbsentClear, Leaving, Absent
<1>7. Moves(s, t)
  BY <1>1, <1>2 DEF Moves, Leaving, Absent, Servable
<1> QED
  BY <1>3, <1>4, <1>5, <1>6, <1>7 DEF LoadsAgree, t

LEMMA SnapshotAgrees ==
  ASSUME NEW s \in Rows, LoadsAgree(s), NEW l \in LoadIds, s.status[l] \notin Absent
  PROVE  LoadsAgree(Snapshot(s, l)) /\ Moves(s, Snapshot(s, l))
<1> DEFINE t == Snapshot(s, l)
<1>1. /\ t.status = s.status /\ t.job = s.job /\ t.current = s.current /\ t.deleted = s.deleted /\ t.owed = s.owed
      /\ t.extraction = s.extraction /\ t.docStatus = s.docStatus
      /\ \A m \in LoadIds : s.members[m] \subseteq t.members[m] /\ (m # l => t.members[m] = s.members[m])
  BY DEF Snapshot, Rows
<1> HIDE DEF t
<1>2. WritersLive(t) /\ JobFits(t) /\ CurrentFits(t) /\ Drained(t)
  BY <1>1 DEF LoadsAgree, WritersLive, JobFits, CurrentFits, Drained
<1>3. AbsentClear(t)
  BY <1>1 DEF LoadsAgree, AbsentClear
<1>4. Moves(s, t)
  BY <1>1 DEF Moves
<1> QED
  BY <1>2, <1>3, <1>4 DEF LoadsAgree, t

\* With no job live, an extract is queued for the current load or nothing changes.
LEMMA QueueExtractAgrees ==
  ASSUME NEW s \in Rows, LoadsAgree(s), ~Live(s), ~s.deleted, s.held, NEW b
  PROVE  LET t == QueueExtract(s, b)
         IN  /\ t = s \/ Live(t)
             /\ LoadsAgree(t) /\ Moves(s, t) /\ t.held /\ t.deleted = s.deleted /\ t.current = s.current
<1>1. CASE QueueExtract(s, b) = s
  BY <1>1, MovesNot
<1>2. CASE s.current # NoLoad /\ QueueExtract(s, b) = Queue(s, NewJob("extract", s.current, "documents"))
  <2> DEFINE t == Queue(s, NewJob("extract", s.current, "documents"))
  <2>1. /\ t.job = NewJob("extract", s.current, "documents")
        /\ t.status = s.status /\ t.current = s.current /\ t.deleted = s.deleted /\ t.owed = s.owed /\ t.held = s.held
        /\ t.members = s.members /\ t.extraction = s.extraction /\ t.docStatus = s.docStatus
    BY DEF Queue, Rows
  <2> HIDE DEF t
  <2>2. t.job.kind = "extract" /\ t.job.load = s.current /\ Live(t)
    BY <2>1, NewJobIs DEF Live
  <2>3. s.job.kind = "none"
    BY NoJobIs
  <2>4. LoadsAgree(t)
    BY <2>1, <2>2, <2>3, <1>2 DEF LoadsAgree, WritersLive, JobFits, CurrentFits, Drained, AbsentClear
  <2>5. Moves(s, t)
    BY <2>1, <2>2 DEF Moves
  <2> QED
    BY <1>2, <2>1, <2>2, <2>4, <2>5 DEF t
<1> QED
  BY <1>1, <1>2 DEF QueueExtract

\* With no job live and nothing owed, the next delete is queued, or none waits.
LEMMA QueueNextDeleteAgrees ==
  ASSUME NEW s \in Rows, LoadsAgree(s), ~Live(s), ~s.owed, Held(s)
  PROVE  Agree(QueueNextDelete(s)) /\ Moves(s, QueueNextDelete(s))
<1> DEFINE t == QueueNextDelete(s)
<1>1. s.job.kind = "none"
  BY NoJobIs
<1>2. CASE With(s, "deleting") # {}
  <2> DEFINE l == Oldest(With(s, "deleting"))
  <2>1. l \in LoadIds /\ s.status[l] = "deleting"
    BY <1>2, OldestIsOne DEF With
  <2>2. /\ t.job = NewJob("delete", l, "deleting")
        /\ t.status = s.status /\ t.current = s.current /\ t.deleted = s.deleted /\ t.owed = s.owed /\ t.held = s.held
        /\ t.members = s.members /\ t.extraction = s.extraction /\ t.docStatus = s.docStatus
    BY <1>2 DEF QueueNextDelete, Queue, Rows
  <2> HIDE DEF t, l
  <2>3. t.job.kind = "delete" /\ t.job.load = l /\ Live(t)
    BY <2>2, NewJobIs DEF Live
  <2>4. LoadsAgree(t)
    BY <1>1, <2>1, <2>2, <2>3 DEF LoadsAgree, WritersLive, JobFits, CurrentFits, Drained, AbsentClear
  <2>5. Queued(t) /\ Held(t)
    BY <2>1, <2>2, <2>3 DEF Queued, Held, Absent
  <2>6. Moves(s, t)
    BY <2>2, <2>3 DEF Moves
  <2> QED
    BY <2>4, <2>5, <2>6 DEF Agree, t
<1>3. CASE With(s, "deleting") = {}
  <2>1. /\ t.job = s.job
        /\ t.status = s.status /\ t.current = s.current /\ t.deleted = s.deleted /\ t.owed = s.owed
        /\ t.members = s.members /\ t.extraction = s.extraction /\ t.docStatus = s.docStatus
        /\ ~t.held => ~s.held \/ (s.deleted /\ With(s, "delete_failed") = {})
    BY <1>3 DEF QueueNextDelete, Rows
  <2> HIDE DEF t
  <2>2. LoadsAgree(t)
    BY <2>1 DEF LoadsAgree, WritersLive, JobFits, CurrentFits, Drained, AbsentClear
  <2>3. \A l \in LoadIds : s.status[l] # "deleting"
    BY <1>3 DEF With
  <2>4. With(s, "delete_failed") = {} => \A l \in LoadIds : s.status[l] # "delete_failed"
    BY DEF With
  <2>5. Queued(t) /\ Held(t)
    BY <2>1, <2>3, <2>4 DEF Queued, Held, Live, LoadsAgree, Drained, Leaving, Absent
  <2>6. Moves(s, t)
    BY <2>1 DEF Moves
  <2> QED
    BY <2>2, <2>5, <2>6 DEF Agree, t
<1> QED
  BY <1>2, <1>3

\* After a job's end: the retention, what is owed, or else the next delete.
LEMMA QueueAfterAgrees ==
  ASSUME NEW s \in Rows, LoadsAgree(s), ~Live(s), Held(s), NEW b \in BOOLEAN
  PROVE  Agree(QueueAfter(s, b)) /\ Moves(s, QueueAfter(s, b))
<1> DEFINE kept == Retain(s)
           joined == IF s.current # NoLoad THEN Snapshot(kept, s.current) ELSE kept
           queued == QueueExtract(joined, b)
           extracting == IF s.owed THEN [queued EXCEPT !.owed = FALSE] ELSE kept
<1>1. CASE s.deleted
  <2>1. ~s.owed
    BY <1>1 DEF LoadsAgree, Drained
  <2> QED
    BY <1>1, <2>1, QueueNextDeleteAgrees DEF QueueAfter
<1>2. CASE ~s.deleted
  <2>1. s.held
    BY <1>2 DEF Held
  <2>2. kept \in Rows /\ LoadsAgree(kept) /\ Moves(s, kept)
    <3>1. \A l \in PastRetention(s) : l \in LoadIds /\ l # s.current /\ s.status[l] \notin Absent
      BY DEF PastRetention, Absent
    <3>2. PastRetention(s) \in SUBSET LoadIds
      BY <3>1
    <3> QED
      BY <3>1, <3>2, MarkAgrees, MarkType DEF Retain, LoadStatuses
  <2>3. kept.job = s.job /\ kept.held = s.held /\ kept.deleted = s.deleted /\ kept.owed = s.owed /\ kept.current = s.current
    BY DEF Retain, Mark, Rows
  <2> HIDE DEF kept
  <2>4. joined \in Rows /\ LoadsAgree(joined) /\ Moves(s, joined)
    <3>1. CASE s.current = NoLoad
      BY <2>2, <3>1
    <3>2. CASE s.current # NoLoad
      <4>1. s.current \in LoadIds
        BY <3>2 DEF Rows
      <4>2. kept.status[s.current] \notin Absent
        BY <2>2, <2>3, <3>2 DEF LoadsAgree, CurrentFits, Servable, Absent
      <4>3. Snapshot(kept, s.current) \in Rows /\ LoadsAgree(Snapshot(kept, s.current)) /\ Moves(kept, Snapshot(kept, s.current))
        BY <2>2, <4>1, <4>2, SnapshotType, SnapshotAgrees
      <4> QED
        BY <2>2, <3>2, <4>3, MovesTwice
    <3> QED
      BY <3>1, <3>2
  <2>5. joined.job = s.job /\ joined.held = s.held /\ joined.deleted = s.deleted
    BY <2>2, <2>3 DEF Snapshot, Rows
  <2> HIDE DEF joined
  <2>6. ~Live(joined) /\ joined.held /\ ~joined.deleted
    BY <1>2, <2>1, <2>5 DEF Live
  <2>7. /\ queued \in Rows /\ LoadsAgree(queued) /\ Moves(s, queued) /\ queued.held /\ ~queued.deleted
    <3>1. queued \in Rows
      BY <2>4, QueueExtractType
    <3>2. /\ LoadsAgree(queued) /\ Moves(joined, queued) /\ queued.held /\ queued.deleted = joined.deleted
      BY <2>4, <2>6, QueueExtractAgrees
    <3> QED
      BY <2>4, <2>6, <3>1, <3>2, MovesTwice
  <2> HIDE DEF queued
  <2>8. /\ extracting \in Rows /\ LoadsAgree(extracting) /\ Moves(s, extracting)
        /\ extracting.held /\ ~extracting.deleted /\ ~extracting.owed
    <3>1. CASE ~s.owed
      BY <1>2, <2>1, <2>2, <2>3, <3>1
    <3>2. CASE s.owed
      <4> DEFINE t == [queued EXCEPT !.owed = FALSE]
      <4>1. t \in Rows
        BY <2>7, FlagType
      <4>2. /\ t.status = queued.status /\ t.job = queued.job /\ t.current = queued.current /\ t.deleted = queued.deleted
            /\ t.members = queued.members /\ t.extraction = queued.extraction /\ t.docStatus = queued.docStatus
            /\ ~t.owed /\ t.held = queued.held
        BY <2>7 DEF Rows
      <4> HIDE DEF t
      <4>3. LoadsAgree(t)
        BY <2>7, <4>2 DEF LoadsAgree, WritersLive, JobFits, CurrentFits, Drained, AbsentClear
      <4>4. Moves(s, t)
        BY <2>7, <4>2 DEF Moves
      <4> QED
        BY <2>7, <3>2, <4>1, <4>2, <4>3, <4>4 DEF t
    <3> QED
      BY <3>1, <3>2
  <2> HIDE DEF extracting
  <2>9. CASE Live(extracting)
    <3>1. Agree(extracting)
      BY <2>8, <2>9 DEF Agree, Queued, Held
    <3>2. QueueAfter(s, b) = extracting
      BY <1>2, <2>9 DEF QueueAfter, extracting, queued, joined, kept
    <3> QED
      BY <2>8, <3>1, <3>2
  <2>10. CASE ~Live(extracting)
    <3>1. Agree(QueueNextDelete(extracting)) /\ Moves(extracting, QueueNextDelete(extracting))
      BY <2>8, <2>10, QueueNextDeleteAgrees DEF Held
    <3>2. QueueNextDelete(extracting) \in Rows
      BY <2>8, QueueNextDeleteType
    <3>3. QueueAfter(s, b) = QueueNextDelete(extracting)
      BY <1>2, <2>10 DEF QueueAfter, extracting, queued, joined, kept
    <3> QED
      BY <2>8, <3>1, <3>2, <3>3, MovesTwice
  <2> QED
    BY <2>9, <2>10
<1> QED
  BY <1>1, <1>2

--------------------------------------------------------------------------------
(* The transactions of people, uploads and syncs.                           *)

\* A new load l, with no load left writing and no current one in its place.
LEMMA InsertLoadAgrees ==
  ASSUME NEW s \in Rows, LoadsAgree(s), ~Live(s), ~s.deleted, s.held, NEW l \in LoadIds, s.status[l] = "none",
         NEW origin \in {"user", "refresh"}, NEW refreshes \in LoadIds \cup {NoLoad}, NEW scope \in SUBSET Sets
  PROVE  LET t == InsertLoad(s, l, origin, refreshes, scope) IN Agree(t) /\ Moves(s, t)
<1> DEFINE begun == [s EXCEPT !.status[l] = "writing", !.origin[l] = origin, !.refreshes[l] = refreshes,
                              !.scope[l] = scope, !.job = NewJob("load", l, "provisioning")]
           t == Snapshot(begun, l)
<1>1. NewJob("load", l, "provisioning") \in Jobs
  BY NewJobType DEF Phases
<1>2. begun \in Rows
  BY <1>1 DEF Rows, LoadStatuses
<1>3. /\ begun.status = [s.status EXCEPT ![l] = "writing"] /\ begun.job = NewJob("load", l, "provisioning")
      /\ begun.current = s.current /\ begun.deleted = s.deleted /\ begun.owed = s.owed /\ begun.held = s.held
      /\ begun.members = s.members /\ begun.extraction = s.extraction /\ begun.docStatus = s.docStatus
  BY DEF Rows
<1> HIDE DEF begun
<1>4. \A m \in LoadIds : begun.status[m] = IF m = l THEN "writing" ELSE s.status[m]
  BY <1>3 DEF Rows
<1>5. begun.job.kind = "load" /\ begun.job.load = l /\ begun.job.phase = "provisioning" /\ Live(begun)
  BY <1>3, NewJobIs DEF Live
<1>6. s.job.kind = "none" /\ s.current # l
  BY NoJobIs, IdIsNoNone DEF LoadsAgree, CurrentFits, Servable
<1>7. LoadsAgree(begun)
  <2>1. WritersLive(begun) /\ JobFits(begun)
    BY <1>4, <1>5, <1>6 DEF LoadsAgree, WritersLive, JobFits
  <2>2. CurrentFits(begun) /\ Drained(begun)
    BY <1>3, <1>4, <1>6 DEF LoadsAgree, CurrentFits, Drained, Rows
  <2>3. AbsentClear(begun)
    BY <1>3, <1>4 DEF LoadsAgree, AbsentClear, Absent
  <2> QED
    BY <2>1, <2>2, <2>3 DEF LoadsAgree
<1>8. Moves(s, begun)
  BY <1>3, <1>4, <1>5 DEF Moves, Leaving, Servable, RunsIngest
<1>9. LoadsAgree(t) /\ Moves(begun, t) /\ t \in Rows
  BY <1>2, <1>4, <1>7, SnapshotAgrees, SnapshotType DEF Absent
<1>10. t.job = begun.job /\ t.held = begun.held
  BY <1>2 DEF Snapshot, Rows
<1>11. Agree(t)
  BY <1>3, <1>5, <1>9, <1>10 DEF Agree, Queued, Held, Live
<1> QED
  BY <1>2, <1>8, <1>9, <1>11, MovesTwice DEF InsertLoad, begun

LEMMA FullRefreshAgrees ==
  ASSUME NEW s \in Rows, LoadsAgree(s), ~Live(s), ~s.deleted, s.held, NEW l \in LoadIds, s.status[l] = "none", s.current # NoLoad
  PROVE  Agree(FullRefresh(s, l)) /\ Moves(s, FullRefresh(s, l))
<1>1. s.current \in LoadIds /\ s.scope[s.current] \in SUBSET Sets
  BY DEF Rows
<1> QED
  BY <1>1, InsertLoadAgrees DEF FullRefresh

\* The job a user's load goes before is cancelled, and a refresh's load marked.
LEMMA PreemptAgrees ==
  ASSUME NEW s \in Rows, Agree(s), ~s.deleted, GivesWay(s)
  PROVE  LET t == Preempt(s) IN LoadsAgree(t) /\ ~Live(t) /\ ~t.deleted /\ t.held /\ Moves(s, t)
<1> DEFINE writing == {l \in LoadIds : IsRefreshJob(s) /\ l = s.job.load /\ s.status[l] = "writing"}
           t == Preempt(s)
<1>1. /\ t.status = [l \in LoadIds |-> IF l \in writing THEN "deleting" ELSE s.status[l]]
      /\ t.job = NoJob /\ t.current = s.current /\ t.deleted = s.deleted /\ t.owed = s.owed /\ t.held = s.held
      /\ t.members = s.members /\ t.extraction = s.extraction /\ t.docStatus = s.docStatus
  BY DEF Preempt, CancelJob, Mark, Rows
<1> HIDE DEF t
<1>2. \A l \in LoadIds : t.status[l] = IF l \in writing THEN "deleting" ELSE s.status[l]
  BY <1>1
<1>3. NoJob.kind = "none" /\ ~Live(t)
  BY <1>1 DEF NoJob, Live
<1>4. \A l \in LoadIds : s.status[l] = "writing" => l \in writing
  BY NoJobIs DEF Agree, LoadsAgree, WritersLive, GivesWay
<1>5. \A l \in writing : s.status[l] = "writing"
  OBVIOUS
<1> HIDE DEF writing
<1>6. WritersLive(t) /\ JobFits(t)
  BY <1>1, <1>2, <1>3, <1>4 DEF WritersLive, JobFits
<1>7. CurrentFits(t) /\ Drained(t) /\ AbsentClear(t)
  <2>1. CurrentFits(t)
    BY <1>1, <1>2, <1>5 DEF Agree, LoadsAgree, CurrentFits, Servable, Rows
  <2>2. Drained(t)
    BY <1>1 DEF Drained
  <2>3. AbsentClear(t)
    BY <1>1, <1>2 DEF Agree, LoadsAgree, AbsentClear, Absent
  <2> QED
    BY <2>1, <2>2, <2>3
<1>8. Moves(s, t)
  BY <1>1, <1>2, <1>3, <1>5 DEF Moves, Leaving, Servable
<1> QED
  BY <1>1, <1>3, <1>6, <1>7, <1>8 DEF LoadsAgree, Agree, Held, t

LEMMA UserLoadAgrees ==
  ASSUME NEW s \in Rows, Agree(s), ~s.deleted, GivesWay(s), NEW l \in LoadIds, s.status[l] = "none", NEW scope \in Scopes
  PROVE  Agree(UserLoad(s, l, scope)) /\ Moves(s, UserLoad(s, l, scope))
<1> DEFINE m == Preempt(s)
<1>1. m \in Rows /\ LoadsAgree(m) /\ ~Live(m) /\ ~m.deleted /\ m.held /\ Moves(s, m)
  BY PreemptType, PreemptAgrees
<1>2. m.status[l] = "none"
  BY DEF Preempt, CancelJob, Mark, Rows
<1>3. scope \in SUBSET Sets
  BY RowsAssumption
<1> HIDE DEF m
<1>4. Agree(InsertLoad(m, l, "user", NoLoad, scope)) /\ Moves(m, InsertLoad(m, l, "user", NoLoad, scope))
  BY <1>1, <1>2, <1>3, InsertLoadAgrees
<1>5. InsertLoad(m, l, "user", NoLoad, scope) \in Rows
  BY <1>1, <1>3, InsertLoadType
<1> QED
  BY <1>1, <1>4, <1>5, MovesTwice DEF UserLoad, m

LEMMA SetCurrentLoadAgrees ==
  ASSUME NEW s \in Rows, Agree(s), ~s.deleted, NEW l \in LoadIds, s.status[l] \in Servable, NEW b \in BOOLEAN
  PROVE  Agree(SetCurrentLoad(s, l, b)) /\ Moves(s, SetCurrentLoad(s, l, b))
<1> DEFINE pointed == [s EXCEPT !.current = l]
           moved == Snapshot(pointed, l)
<1>1. /\ pointed \in Rows /\ pointed.current = l
      /\ pointed.status = s.status /\ pointed.job = s.job /\ pointed.deleted = s.deleted /\ pointed.owed = s.owed
      /\ pointed.members = s.members /\ pointed.extraction = s.extraction /\ pointed.docStatus = s.docStatus
      /\ pointed.held = s.held
  BY DEF Rows
<1> HIDE DEF pointed
<1>2. LoadsAgree(pointed) /\ Moves(s, pointed)
  <2>1. LoadsAgree(pointed)
    BY <1>1 DEF Agree, LoadsAgree, WritersLive, JobFits, CurrentFits, Drained, AbsentClear
  <2>2. Moves(s, pointed)
    BY <1>1 DEF Moves
  <2> QED
    BY <2>1, <2>2
<1>3. moved \in Rows /\ LoadsAgree(moved) /\ Moves(s, moved)
  <2>1. pointed.status[l] \notin Absent
    BY <1>1 DEF Absent, Servable
  <2>2. moved \in Rows /\ LoadsAgree(moved) /\ Moves(pointed, moved)
    BY <1>1, <1>2, <2>1, SnapshotType, SnapshotAgrees
  <2> QED
    BY <1>1, <1>2, <2>2, MovesTwice
<1>4. moved.job = s.job /\ moved.held /\ ~moved.deleted /\ moved.owed = s.owed /\ moved.status = s.status
  BY <1>1 DEF Snapshot, Rows, Agree, Held
<1> HIDE DEF moved
<1>5. CASE Live(s)
  <2> DEFINE owed == moved.owed \/ Waiting(moved, l) # {}
             t == [moved EXCEPT !.owed = owed]
  <2>1. SetCurrentLoad(s, l, b) = t
    BY <1>5, Zenon DEF SetCurrentLoad, moved, pointed
  <2>2. owed \in BOOLEAN
    OBVIOUS
  <2> HIDE DEF owed
  <2>3. /\ t.status = moved.status /\ t.job = moved.job /\ t.current = moved.current /\ t.deleted = moved.deleted
        /\ t.members = moved.members /\ t.extraction = moved.extraction /\ t.docStatus = moved.docStatus /\ t.held = moved.held
    BY <1>3 DEF Rows
  <2> HIDE DEF t
  <2>4. LoadsAgree(t)
    BY <1>3, <1>4, <2>3 DEF LoadsAgree, WritersLive, JobFits, CurrentFits, Drained, AbsentClear
  <2>5. Queued(t) /\ Held(t)
    BY <1>4, <1>5, <2>3 DEF Queued, Held, Live
  <2>6. Moves(s, t)
    BY <1>3, <2>3 DEF Moves
  <2> QED
    BY <2>1, <2>4, <2>5, <2>6 DEF Agree
<1>6. CASE ~Live(s)
  <2> DEFINE t == QueueExtract(moved, b)
  <2>1. SetCurrentLoad(s, l, b) = t
    BY <1>6, Zenon DEF SetCurrentLoad, moved, pointed
  <2>2. t \in Rows /\ LoadsAgree(t) /\ Moves(moved, t) /\ t.held /\ ~t.deleted /\ (t = moved \/ Live(t))
    BY <1>3, <1>4, <1>6, QueueExtractType, QueueExtractAgrees DEF Live
  <2>3. Moves(s, t)
    BY <1>3, <2>2, MovesTwice
  <2>4. Queued(t) /\ Held(t)
    BY <1>4, <1>6, <2>2 DEF Agree, Queued, Held
  <2> QED
    BY <2>1, <2>2, <2>3, <2>4 DEF Agree
<1> QED
  BY <1>5, <1>6

LEMMA DeleteOneLoadAgrees ==
  ASSUME NEW s \in Rows, Agree(s), ~s.deleted, NEW l \in LoadIds, l # s.current, s.status[l] \in Deletable, s.job.load # l
  PROVE  Agree(DeleteOneLoad(s, l)) /\ Moves(s, DeleteOneLoad(s, l))
<1> DEFINE t == Mark(s, {l}, "deleting")
<1>1. t \in Rows /\ LoadsAgree(t) /\ Moves(s, t)
  BY MarkAgrees, MarkType DEF Agree, Deletable, Absent, LoadStatuses
<1>2. t.job = s.job /\ t.owed = s.owed /\ t.held = s.held /\ t.held
  BY DEF Mark, Rows, Agree, Held
<1> HIDE DEF t
<1>3. CASE Live(s)
  <2>1. Queued(t) /\ Held(t)
    BY <1>2, <1>3 DEF Queued, Held, Live
  <2> QED
    BY <1>1, <1>3, <2>1 DEF DeleteOneLoad, Agree, t
<1>4. CASE ~Live(s)
  <2>1. ~Live(t) /\ ~t.owed /\ Held(t)
    BY <1>2, <1>4 DEF Live, Agree, Queued, Held
  <2>2. Agree(QueueNextDelete(t)) /\ Moves(t, QueueNextDelete(t)) /\ QueueNextDelete(t) \in Rows
    BY <1>1, <2>1, QueueNextDeleteAgrees, QueueNextDeleteType
  <2> QED
    BY <1>1, <1>4, <2>2, MovesTwice DEF DeleteOneLoad, t
<1> QED
  BY <1>3, <1>4

LEMMA DeleteWholeOntologyAgrees ==
  ASSUME NEW s \in Rows, Agree(s), ~s.deleted
  PROVE  Agree(DeleteWholeOntology(s)) /\ Moves(s, DeleteWholeOntology(s))
<1> DEFINE left == {l \in LoadIds : s.status[l] \notin {"none", "deleting", "deleted"}}
           marked == CancelJob(Mark(s, left, "deleting"))
           t == [marked EXCEPT !.deleted = TRUE, !.current = NoLoad, !.owed = FALSE]
<1>1. marked \in Rows
  BY MarkType, CancelType DEF LoadStatuses
<1>2. t \in Rows
  BY <1>1 DEF Rows
<1>3. /\ t.status = [l \in LoadIds |-> IF l \in left THEN "deleting" ELSE s.status[l]]
      /\ t.job = NoJob /\ t.current = NoLoad /\ t.deleted /\ ~t.owed /\ t.held = s.held
      /\ t.members = s.members /\ t.extraction = s.extraction /\ t.docStatus = s.docStatus
  BY DEF CancelJob, Mark, Rows
<1>4. DeleteWholeOntology(s) = QueueNextDelete(t)
  BY DEF DeleteWholeOntology
<1> HIDE DEF t, marked
<1>5. \A l \in LoadIds : t.status[l] = IF s.status[l] \notin {"none", "deleting", "deleted"} THEN "deleting" ELSE s.status[l]
  BY <1>3
<1> HIDE DEF left
<1>6. NoJob.kind = "none" /\ ~Live(t)
  BY <1>3 DEF NoJob, Live
<1>7. \A l \in LoadIds : t.status[l] \in {"none", "deleting", "deleted"}
  BY <1>5
<1>8. LoadsAgree(t)
  <2>1. WritersLive(t) /\ JobFits(t) /\ CurrentFits(t) /\ Drained(t)
    BY <1>3, <1>6, <1>7 DEF WritersLive, JobFits, CurrentFits, Drained, Leaving
  <2>2. AbsentClear(t)
    BY <1>3, <1>5 DEF Agree, LoadsAgree, AbsentClear, Absent
  <2> QED
    BY <2>1, <2>2 DEF LoadsAgree
<1>9. Moves(s, t)
  BY <1>3, <1>5, <1>6 DEF Moves, Leaving, Servable
<1>10. Held(t)
  BY <1>3 DEF Agree, Held
<1>11. Agree(QueueNextDelete(t)) /\ Moves(t, QueueNextDelete(t)) /\ QueueNextDelete(t) \in Rows
  BY <1>2, <1>3, <1>6, <1>8, <1>10, QueueNextDeleteAgrees, QueueNextDeleteType
<1> QED
  BY <1>2, <1>4, <1>9, <1>11, MovesTwice

LEMMA ResumeDrainAgrees ==
  ASSUME NEW s \in Rows, Agree(s), s.deleted, s.held, ~Live(s)
  PROVE  Agree(ResumeDrain(s)) /\ Moves(s, ResumeDrain(s))
<1> DEFINE L == With(s, "delete_failed")
           t == Mark(s, L, "deleting")
<1>1. L \in SUBSET LoadIds /\ \A l \in L : l # s.current /\ s.status[l] \notin Absent
  BY IdIsNoNone DEF With, Absent, Agree, LoadsAgree, Drained
<1>2. t \in Rows /\ LoadsAgree(t) /\ Moves(s, t)
  BY <1>1, MarkAgrees, MarkType DEF Agree, LoadStatuses
<1>3. t.job = s.job /\ t.owed = s.owed /\ t.held
  BY DEF Mark, Rows
<1> HIDE DEF t, L
<1>4. ~Live(t) /\ ~t.owed /\ Held(t)
  BY <1>3 DEF Live, Agree, Queued, Held
<1>5. Agree(QueueNextDelete(t)) /\ Moves(t, QueueNextDelete(t)) /\ QueueNextDelete(t) \in Rows
  BY <1>2, <1>4, QueueNextDeleteAgrees, QueueNextDeleteType
<1> QED
  BY <1>2, <1>5, MovesTwice DEF ResumeDrain, t, L

\* What a document's or the schedule's columns hold changes no load and no job.
LEMMA ColumnsAgree ==
  ASSUME NEW s \in Rows, Agree(s), NEW t \in Rows,
         t.status = s.status, t.job = s.job, t.current = s.current, t.deleted = s.deleted, t.owed = s.owed, t.held = s.held,
         t.members = s.members, t.extraction = s.extraction,
         \A d \in Docs : s.docStatus[d] = "deleted" => t.docStatus[d] = "deleted"
  PROVE  Agree(t) /\ Moves(s, t)
<1>1. LoadsAgree(t)
  BY DEF Agree, LoadsAgree, WritersLive, JobFits, CurrentFits, Drained, AbsentClear
<1>2. Queued(t) /\ Held(t)
  BY DEF Agree, Queued, Held, Live
<1>3. Moves(s, t)
  BY DEF Moves
<1> QED
  BY <1>1, <1>2, <1>3 DEF Agree

\* An extract is owed under a live job, and queued with none.
LEMMA OwedAgrees ==
  ASSUME NEW s \in Rows, Agree(s), ~s.deleted, NEW b \in BOOLEAN
  PROVE  /\ Live(s) => Agree([s EXCEPT !.owed = TRUE]) /\ Moves(s, [s EXCEPT !.owed = TRUE])
         /\ ~Live(s) => Agree(QueueExtract(s, b)) /\ Moves(s, QueueExtract(s, b))
<1>1. ASSUME Live(s) PROVE Agree([s EXCEPT !.owed = TRUE]) /\ Moves(s, [s EXCEPT !.owed = TRUE])
  <2> DEFINE t == [s EXCEPT !.owed = TRUE]
  <2>1. /\ t.status = s.status /\ t.job = s.job /\ t.current = s.current /\ t.deleted = s.deleted
        /\ t.members = s.members /\ t.extraction = s.extraction /\ t.docStatus = s.docStatus /\ t.held = s.held
    BY DEF Rows
  <2> HIDE DEF t
  <2>2. LoadsAgree(t)
    BY <2>1 DEF Agree, LoadsAgree, WritersLive, JobFits, CurrentFits, Drained, AbsentClear
  <2>3. Queued(t) /\ Held(t) /\ Moves(s, t)
    BY <1>1, <2>1 DEF Agree, Queued, Held, Live, Moves
  <2> QED
    BY <2>2, <2>3 DEF Agree, t
<1>2. ASSUME ~Live(s) PROVE Agree(QueueExtract(s, b)) /\ Moves(s, QueueExtract(s, b))
  <2> DEFINE t == QueueExtract(s, b)
  <2>1. s.held
    BY DEF Agree, Held
  <2>2. LoadsAgree(t) /\ Moves(s, t) /\ t.held /\ (t = s \/ Live(t))
    BY <1>2, <2>1, QueueExtractAgrees DEF Agree
  <2>3. Queued(t) /\ Held(t)
    BY <2>1, <2>2 DEF Agree, Queued, Held
  <2> QED
    BY <2>2, <2>3 DEF Agree
<1> QED
  BY <1>1, <1>2

LEMMA FanOutAgrees ==
  ASSUME NEW s \in Rows, Agree(s), NEW d \in Docs, NEW canWrite, NEW b \in BOOLEAN
  PROVE  Agree(FanOut(s, d, canWrite, b)) /\ Moves(s, FanOut(s, d, canWrite, b))
<1> DEFINE first == IF WorkedOn(s) # NoLoad THEN WorkedOn(s) ELSE s.current
           reads(l) == l # NoLoad /\ s.docSet[d] \in s.scope[l]
           joined == IF reads(first) THEN [s EXCEPT !.members[first] = @ \cup {d}] ELSE s
<1>1. joined \in Rows /\ Agree(joined) /\ Moves(s, joined) /\ joined.job = s.job /\ joined.deleted = s.deleted
  <2>1. CASE joined = s
    BY <2>1, MovesNot
  <2>2. CASE first # NoLoad /\ joined = [s EXCEPT !.members[first] = @ \cup {d}]
    <3>1. first \in LoadIds /\ s.status[first] \notin Absent
      <4>1. CASE Live(s) /\ s.job.kind # "delete"
        <5>1. s.job.load \in LoadIds /\ s.job.load # NoLoad /\ s.job.kind \in {"load", "extract", "apply"}
          BY <4>1, LiveJobType, IdIsNoNone DEF Jobs
        <5>2. first = s.job.load
          BY <4>1, <5>1 DEF WorkedOn
        <5> QED
          BY <5>1, <5>2 DEF Agree, LoadsAgree, JobFits, Absent, Servable
      <4>2. CASE ~(Live(s) /\ s.job.kind # "delete")
        <5>1. first = s.current
          BY <4>2 DEF WorkedOn
        <5> HIDE DEF first
        <5> QED
          BY <2>2, <5>1 DEF Agree, LoadsAgree, CurrentFits, Absent, Servable, Rows
      <4> QED
        BY <4>1, <4>2
    <3> HIDE DEF first, joined
    <3>2. /\ joined \in Rows /\ joined.status = s.status /\ joined.job = s.job /\ joined.current = s.current
          /\ joined.deleted = s.deleted /\ joined.owed = s.owed /\ joined.held = s.held
          /\ joined.extraction = s.extraction /\ joined.docStatus = s.docStatus
          /\ \A m \in LoadIds : joined.members[m] = IF m = first THEN s.members[m] \cup {d} ELSE s.members[m]
      BY <2>2, <3>1, ZenonT(60) DEF Rows
    <3>3. LoadsAgree(joined)
      <4>1. WritersLive(joined) /\ JobFits(joined) /\ CurrentFits(joined) /\ Drained(joined)
        BY <3>2 DEF Agree, LoadsAgree, WritersLive, JobFits, CurrentFits, Drained
      <4>2. AbsentClear(joined)
        BY <3>1, <3>2, ZenonT(60) DEF Agree, LoadsAgree, AbsentClear
      <4> QED
        BY <4>1, <4>2 DEF LoadsAgree
    <3>4. Queued(joined) /\ Held(joined) /\ Moves(s, joined)
      BY <3>2 DEF Agree, Queued, Held, Live, Moves
    <3> QED
      BY <3>2, <3>3, <3>4 DEF Agree
  <2> QED
    BY <2>1, <2>2
<1> HIDE DEF joined
<1>2. [joined EXCEPT !.owed = TRUE] \in Rows /\ QueueExtract(joined, b) \in Rows
  BY <1>1, FlagType, QueueExtractType
<1>3. ~s.deleted => /\ Live(s) => Agree([joined EXCEPT !.owed = TRUE]) /\ Moves(s, [joined EXCEPT !.owed = TRUE])
                    /\ ~Live(s) => Agree(QueueExtract(joined, b)) /\ Moves(s, QueueExtract(joined, b))
  BY <1>1, <1>2, OwedAgrees, MovesTwice DEF Live
<1> QED
  BY <1>1, <1>3, MovesNot DEF FanOut, joined

LEMMA RemoveDocumentAgrees ==
  ASSUME NEW s \in Rows, Agree(s), NEW d \in Docs
  PROVE  Agree(RemoveDocument(s, d)) /\ Moves(s, RemoveDocument(s, d))
<1> DEFINE gone == [s EXCEPT !.docStatus[d] = "deleted"]
<1>1. gone \in Rows /\ Agree(gone) /\ Moves(s, gone) /\ gone.job = s.job
  <2>1. /\ gone \in Rows /\ gone.status = s.status /\ gone.job = s.job /\ gone.current = s.current
        /\ gone.deleted = s.deleted /\ gone.owed = s.owed /\ gone.held = s.held
        /\ gone.members = s.members /\ gone.extraction = s.extraction
        /\ \A e \in Docs : s.docStatus[e] = "deleted" => gone.docStatus[e] = "deleted"
    BY DEF Rows
  <2> HIDE DEF gone
  <2> QED
    BY <2>1, ColumnsAgree
<1> HIDE DEF gone
<1>2. [gone EXCEPT !.owed = TRUE] \in Rows /\ QueueExtract(gone, FALSE) \in Rows
  BY <1>1, FlagType, QueueExtractType
<1>3. ~gone.deleted => /\ Live(gone) => Agree([gone EXCEPT !.owed = TRUE]) /\ Moves(s, [gone EXCEPT !.owed = TRUE])
                       /\ ~Live(gone) => Agree(QueueExtract(gone, FALSE)) /\ Moves(s, QueueExtract(gone, FALSE))
  BY <1>1, <1>2, OwedAgrees, MovesTwice
<1> QED
  BY <1>1, <1>3 DEF RemoveDocument, OweRemovals, gone

--------------------------------------------------------------------------------
(* The transactions of an attempt.                                          *)

\* The live job's row may change, but not which job it is.
LEMMA JobRowAgrees ==
  ASSUME NEW s \in Rows, Agree(s), Live(s), NEW t \in Rows, t.job.kind = s.job.kind, t.job.load = s.job.load,
         t.status = s.status, t.current = s.current, t.deleted = s.deleted, t.owed = s.owed, t.held = s.held,
         t.members = s.members, t.extraction = s.extraction
  PROVE  Agree(t)
<1>1. Live(t)
  BY NoJobIs
<1>2. LoadsAgree(t)
  BY DEF Agree, LoadsAgree, WritersLive, JobFits, CurrentFits, Drained, AbsentClear
<1>3. Queued(t) /\ Held(t)
  BY <1>1 DEF Agree, Queued, Held
<1> QED
  BY <1>2, <1>3 DEF Agree

LEMMA RecordAgrees ==
  ASSUME NEW s \in Rows, Agree(s), NEW l \in LoadIds, NEW d \in Docs, NEW result \in Extractions
  PROVE  /\ s.status[l] \notin Absent => Agree(RecordExtraction(s, l, d, result))
         /\ Agree(RecordRemoval(s, l, d))
<1>1. ASSUME s.status[l] \notin Absent PROVE Agree(RecordExtraction(s, l, d, result))
  <2> DEFINE t == RecordExtraction(s, l, d, result)
  <2>1. /\ t.status = s.status /\ t.job = s.job /\ t.current = s.current /\ t.deleted = s.deleted /\ t.owed = s.owed
        /\ t.held = s.held /\ t.members = s.members
        /\ \A m \in LoadIds : m # l => t.extraction[m] = s.extraction[m]
    BY DEF RecordExtraction, Rows
  <2> HIDE DEF t
  <2>2. LoadsAgree(t)
    <3>1. WritersLive(t) /\ JobFits(t) /\ CurrentFits(t) /\ Drained(t)
      BY <2>1 DEF Agree, LoadsAgree, WritersLive, JobFits, CurrentFits, Drained
    <3>2. AbsentClear(t)
      BY <1>1, <2>1 DEF Agree, LoadsAgree, AbsentClear
    <3> QED
      BY <3>1, <3>2 DEF LoadsAgree
  <2>3. Queued(t) /\ Held(t)
    BY <2>1 DEF Agree, Queued, Held, Live
  <2> QED
    BY <2>2, <2>3 DEF Agree, t
<1>2. Agree(RecordRemoval(s, l, d))
  <2> DEFINE t == RecordRemoval(s, l, d)
  <2>1. /\ t.status = s.status /\ t.job = s.job /\ t.current = s.current /\ t.deleted = s.deleted /\ t.owed = s.owed
        /\ t.held = s.held
        /\ \A m \in LoadIds : t.members[m] \subseteq s.members[m]
        /\ \A m \in LoadIds, e \in Docs : t.extraction[m][e] \in {s.extraction[m][e], "none"}
    BY DEF RecordRemoval, Rows
  <2> HIDE DEF t
  <2>2. LoadsAgree(t)
    <3>1. WritersLive(t) /\ JobFits(t) /\ CurrentFits(t) /\ Drained(t)
      BY <2>1 DEF Agree, LoadsAgree, WritersLive, JobFits, CurrentFits, Drained
    <3>2. AbsentClear(t)
      BY <2>1 DEF Agree, LoadsAgree, AbsentClear
    <3> QED
      BY <3>1, <3>2 DEF LoadsAgree
  <2>3. Queued(t) /\ Held(t)
    BY <2>1 DEF Agree, Queued, Held, Live
  <2> QED
    BY <2>2, <2>3 DEF Agree, t
<1> QED
  BY <1>1, <1>2

--------------------------------------------------------------------------------
(* A job's end.                                                             *)

\* The load the outcome ends: it serves from now on.
Serves(s, t, l, outcome) ==
  /\ s.job.kind = "load" /\ l = s.job.load /\ s.status[l] = "writing"
  /\ outcome \in {"succeeded", "budget_exhausted"} /\ t.status[l] = LoadEnd[outcome]
\* The load the outcome deletes.
Deletes(s, l, outcome) == s.job.kind = "delete" /\ l = s.job.load /\ outcome # "failed"
\* The load the outcome makes current: a refresh only in place of the load it
\* refreshes, and a partial one only with nothing missing.
Replaces(s, l, outcome) ==
  /\ s.job.kind = "load" /\ l = s.job.load /\ s.status[l] = "writing"
  /\ s.origin[l] = "refresh" => /\ s.current # NoLoad /\ s.refreshes[l] = s.current
                                /\ outcome = "budget_exhausted" => Missing(s, l) = {}

\* What a job's end keeps of the rows before it.
EndMoves(s, t, outcome) ==
  /\ \A l \in LoadIds :
       /\ s.status[l] \in Leaving => t.status[l] \in Leaving
       /\ t.status[l] = "none" => s.status[l] = "none"
       /\ t.status[l] \in Servable => t.status[l] = s.status[l] \/ Serves(s, t, l, outcome)
       /\ s.status[l] = "deleted" => t.status[l] = "deleted"
       /\ t.status[l] = "deleted" => s.status[l] = "deleted" \/ Deletes(s, l, outcome)
       /\ t.status[l] = "deleted" \/ s.members[l] \subseteq t.members[l]
       /\ \A d \in Docs : t.extraction[l][d] = "extracted" => s.extraction[l][d] = "extracted"
  /\ \A d \in Docs : s.docStatus[d] = "deleted" => t.docStatus[d] = "deleted"
  /\ t.current = s.current \/ Replaces(s, t.current, outcome)

LEMMA EndLoadMoves ==
  ASSUME NEW s \in Rows, Agree(s), s.job.kind = "load", NEW outcome \in Ends, NEW heldSets
  PROVE  LET t == EndLoad(s, s.job.load, outcome, heldSets)
         IN  /\ EndMoves(s, t, outcome) /\ CurrentFits(t) /\ ~t.deleted /\ t.job = s.job /\ t.held
             /\ \A m \in LoadIds : t.status[m] # "writing" /\ (t.status[m] \in Absent <=> s.status[m] \in Absent)
             /\ t.members = s.members /\ t.extraction = s.extraction
             /\ outcome = "succeeded" /\ t.current = s.job.load => t.status[s.job.load] = "ready"
<1> DEFINE l == s.job.load
           t == EndLoad(s, l, outcome, heldSets)
           ended == Mark(s, {l}, LoadEnd[outcome])
           dropped == Mark(s, {l}, "deleting")
           replaced == {m \in LoadIds : /\ m = s.current /\ s.origin[l] = "refresh"
                                        /\ s.origin[m] = "refresh" /\ ended.status[m] \in Servable}
           made == MakeCurrent(ended, l)
<1>1. Live(s) /\ l \in LoadIds
  BY NoJobIs, LiveJobType
<1>2. ~s.deleted /\ s.held
  BY DEF Agree, LoadsAgree, Drained, Held
<1>3. s.status[l] \in {"writing", "ready"} /\ \A m \in LoadIds : s.status[m] = "writing" => m = l
  BY DEF Agree, LoadsAgree, JobFits, WritersLive
<1>4. s.current \in LoadIds \cup {NoLoad} /\ CurrentFits(s)
  BY DEF Rows, Agree, LoadsAgree
<1>5. LoadEnd[outcome] = (IF outcome = "succeeded" THEN "ready" ELSE IF outcome = "budget_exhausted" THEN "partial" ELSE "failed")
  BY DEF LoadEnd, Ends
<1>6. /\ ended.status = [m \in LoadIds |-> IF m \in {l} THEN LoadEnd[outcome] ELSE s.status[m]]
      /\ ended.job = s.job /\ ended.current = s.current /\ ended.deleted = s.deleted /\ ended.held = s.held
      /\ ended.members = s.members /\ ended.extraction = s.extraction /\ ended.docStatus = s.docStatus
      /\ ended.origin = s.origin
  BY DEF Mark, Rows
<1>7. /\ dropped.status = [m \in LoadIds |-> IF m \in {l} THEN "deleting" ELSE s.status[m]]
      /\ dropped.job = s.job /\ dropped.current = s.current /\ dropped.deleted = s.deleted /\ dropped.held = s.held
      /\ dropped.members = s.members /\ dropped.extraction = s.extraction /\ dropped.docStatus = s.docStatus
  BY DEF Mark, Rows
<1>8. ended \in Rows
  BY <1>5, MarkType DEF LoadStatuses, Deletable
<1> HIDE DEF ended, dropped
<1>9. /\ made.status = [m \in LoadIds |-> IF m \in replaced THEN "deleting" ELSE ended.status[m]]
      /\ made.job = s.job /\ made.current = l /\ made.deleted = s.deleted /\ made.held = s.held
      /\ made.members = s.members /\ made.extraction = s.extraction /\ made.docStatus = s.docStatus
  BY <1>6, <1>8 DEF MakeCurrent, Mark, Rows
<1> DEFINE Fine(r) ==
             /\ EndMoves(s, r, outcome) /\ CurrentFits(r) /\ ~r.deleted /\ r.job = s.job /\ r.held
             /\ \A m \in LoadIds : r.status[m] # "writing" /\ (r.status[m] \in Absent <=> s.status[m] \in Absent)
             /\ r.members = s.members /\ r.extraction = s.extraction
             /\ outcome = "succeeded" /\ r.current = l => r.status[l] = "ready"
<1> HIDE DEF l, made
<1>10. ASSUME s.status[l] # "writing" PROVE Fine(s)
  <2>1. EndMoves(s, s, outcome)
    BY DEF EndMoves
  <2> QED
    BY <1>2, <1>3, <1>4, <1>10, <2>1
<1>11. ASSUME s.status[l] = "writing" PROVE Fine(ended)
  <2>1. \A m \in LoadIds : ended.status[m] = IF m = l THEN LoadEnd[outcome] ELSE s.status[m]
    BY <1>6
  <2>2. s.current # l
    BY <1>1, <1>4, <1>11, IdIsNoNone DEF CurrentFits, Servable
  <2>3. CurrentFits(ended)
    BY <1>4, <1>6, <2>1, <2>2 DEF CurrentFits
  <2>4. \A m \in LoadIds : ended.status[m] # "writing" /\ (ended.status[m] \in Absent <=> s.status[m] \in Absent)
    BY <1>3, <1>5, <1>11, <2>1 DEF Absent
  <2>5. EndMoves(s, ended, outcome)
    BY <1>1, <1>5, <1>6, <1>11, <2>1 DEF EndMoves, Serves, Servable, Leaving, Ends, l
  <2> QED
    BY <1>2, <1>6, <2>2, <2>3, <2>4, <2>5
<1>12. ASSUME s.status[l] = "writing" PROVE Fine(dropped)
  <2>1. \A m \in LoadIds : dropped.status[m] = IF m = l THEN "deleting" ELSE s.status[m]
    BY <1>7
  <2>2. s.current # l
    BY <1>1, <1>4, <1>12, IdIsNoNone DEF CurrentFits, Servable
  <2>3. CurrentFits(dropped)
    BY <1>4, <1>7, <2>1, <2>2 DEF CurrentFits
  <2>4. \A m \in LoadIds : dropped.status[m] # "writing" /\ (dropped.status[m] \in Absent <=> s.status[m] \in Absent)
    BY <1>3, <1>12, <2>1 DEF Absent
  <2>5. EndMoves(s, dropped, outcome)
    BY <1>1, <1>7, <1>12, <2>1 DEF EndMoves, Servable, Leaving
  <2> QED
    BY <1>2, <1>7, <2>2, <2>3, <2>4, <2>5
<1> DEFINE Holds == s.origin[l] = "refresh" => /\ s.current # NoLoad /\ s.refreshes[l] = s.current
                                               /\ outcome = "budget_exhausted" => Missing(s, l) = {}
<1>13. ASSUME s.status[l] = "writing", outcome # "failed", Holds
       PROVE  Fine(made)
  <2>1. \A m \in LoadIds : ended.status[m] = IF m = l THEN LoadEnd[outcome] ELSE s.status[m]
    BY <1>6
  <2>2. s.current # l
    BY <1>1, <1>4, <1>13, IdIsNoNone DEF CurrentFits, Servable
  <2>3. \A m \in LoadIds : made.status[m] = IF m \in replaced THEN "deleting" ELSE ended.status[m]
    BY <1>9
  <2>4. l \notin replaced /\ \A m \in replaced : s.status[m] \in Servable
    BY <2>1, <2>2
  <2> HIDE DEF replaced
  <2>5. CurrentFits(made)
    BY <1>1, <1>5, <1>9, <1>13, <2>1, <2>3, <2>4 DEF CurrentFits, Servable, Ends
  <2>6. \A m \in LoadIds : made.status[m] # "writing" /\ (made.status[m] \in Absent <=> s.status[m] \in Absent)
    BY <1>3, <1>5, <1>13, <2>1, <2>3, <2>4 DEF Absent, Servable
  <2>7. EndMoves(s, made, outcome)
    <3>1. Replaces(s, l, outcome)
      BY <1>13 DEF Replaces, l
    <3>2. ASSUME NEW m \in LoadIds, made.status[m] \in Servable PROVE made.status[m] = s.status[m] \/ Serves(s, made, m, outcome)
      BY <1>5, <1>13, <2>1, <2>3, <2>4, <3>2 DEF Serves, Servable, Ends, l
    <3>3. \A m \in LoadIds :
            /\ s.status[m] \in Leaving => made.status[m] \in Leaving
            /\ made.status[m] = "none" => s.status[m] = "none"
            /\ s.status[m] = "deleted" => made.status[m] = "deleted"
            /\ made.status[m] = "deleted" => s.status[m] = "deleted"
      BY <1>5, <1>13, <2>1, <2>3, <2>4 DEF Leaving, Servable
    <3> QED
      BY <1>9, <3>1, <3>2, <3>3 DEF EndMoves
  <2>8. outcome = "succeeded" => made.status[l] = "ready"
    BY <1>1, <1>5, <2>1, <2>3, <2>4
  <2> QED
    BY <1>2, <1>9, <2>5, <2>6, <2>7, <2>8
<1> HIDE DEF Fine, Holds
<1>14. Fine(t)
  <2> DEFINE refreshesCurrent == s.origin[l] = "refresh" /\ s.current # NoLoad /\ s.refreshes[l] = s.current
             holds == refreshesCurrent /\ Missing(s, l) = {}
             partial == outcome = "budget_exhausted"
             onlyEnds == s.deleted \/ outcome = "failed" \/ (partial /\ s.current # NoLoad /\ ~holds)
             outdone == (partial /\ holds /\ Dropped(s, l, heldSets) # {}) \/ (s.origin[l] = "refresh" /\ ~refreshesCurrent)
  <2>1. t = IF s.status[l] # "writing" THEN s ELSE IF onlyEnds THEN ended ELSE IF outdone THEN dropped ELSE made
    BY Zenon DEF EndLoad, ended, dropped, made
  <2>2. ~onlyEnds /\ ~outdone => outcome # "failed" /\ Holds
    BY DEF Holds
  <2> HIDE DEF onlyEnds, outdone, t
  <2>3. CASE s.status[l] # "writing"
    BY <1>10, <2>1, <2>3
  <2>4. CASE s.status[l] = "writing" /\ onlyEnds
    BY <1>11, <2>1, <2>4
  <2>5. CASE s.status[l] = "writing" /\ ~onlyEnds /\ outdone
    BY <1>12, <2>1, <2>5
  <2>6. CASE s.status[l] = "writing" /\ ~onlyEnds /\ ~outdone
    <3>1. Fine(made)
      BY <1>13, <2>2, <2>6
    <3> QED
      BY <2>1, <2>6, <3>1
  <2> QED
    BY <2>3, <2>4, <2>5, <2>6
<1> QED
  BY <1>14 DEF Fine, l

LEMMA EndDeleteMoves ==
  ASSUME NEW s \in Rows, Agree(s), s.job.kind = "delete", NEW outcome
  PROVE  LET t == EndDelete(s, s.job.load, outcome)
         IN  /\ EndMoves(s, t, outcome) /\ LoadsAgree(CancelJob(t))
             /\ t.held = s.held /\ t.job = s.job /\ t.deleted = s.deleted
<1> DEFINE l == s.job.load
           t == EndDelete(s, l, outcome)
           gone == outcome # "failed"
<1>1. Live(s) /\ l \in LoadIds
  BY NoJobIs, LiveJobType
<1>2. s.status[l] = "deleting" /\ \A m \in LoadIds : s.status[m] # "writing"
  BY <1>1 DEF Agree, LoadsAgree, JobFits, WritersLive
<1>3. /\ t.status = [m \in LoadIds |-> IF m = l THEN (IF gone THEN "deleted" ELSE "delete_failed") ELSE s.status[m]]
      /\ t.job = s.job /\ t.current = s.current /\ t.deleted = s.deleted /\ t.held = s.held /\ t.owed = s.owed
      /\ t.docStatus = s.docStatus
      /\ t.members = IF gone THEN [s.members EXCEPT ![l] = {}] ELSE s.members
      /\ t.extraction = IF gone THEN [s.extraction EXCEPT ![l] = [d \in Docs |-> "none"]] ELSE s.extraction
  <2>1. {l} \cap With(s, "deleting") = {l}
    BY <1>1, <1>2 DEF With
  <2> QED
    BY <2>1 DEF EndDelete, Mark, Rows
<1>4. t \in Rows
  BY <1>1, EndDeleteType
<1> DEFINE c == CancelJob(t)
<1>5. /\ c.status = t.status /\ c.job = NoJob /\ c.current = t.current /\ c.deleted = t.deleted /\ c.owed = t.owed
      /\ c.members = t.members /\ c.extraction = t.extraction
  BY <1>4 DEF CancelJob, Rows
<1> HIDE DEF t, c, l
<1>6. \A m \in LoadIds : t.status[m] = IF m = l THEN (IF gone THEN "deleted" ELSE "delete_failed") ELSE s.status[m]
  BY <1>3
<1>7. EndMoves(s, t, outcome)
  <2>1. \A m \in LoadIds :
          /\ s.status[m] \in Leaving => t.status[m] \in Leaving
          /\ t.status[m] = "none" => s.status[m] = "none"
          /\ t.status[m] \in Servable => t.status[m] = s.status[m]
          /\ s.status[m] = "deleted" => t.status[m] = "deleted"
          /\ t.status[m] = "deleted" => s.status[m] = "deleted" \/ Deletes(s, m, outcome)
    BY <1>2, <1>6 DEF Leaving, Servable, Deletes, l
  <2>2. \A m \in LoadIds : t.status[m] = "deleted" \/ s.members[m] \subseteq t.members[m]
    BY <1>3, <1>6 DEF Rows
  <2>3. \A m \in LoadIds, d \in Docs : t.extraction[m][d] = "extracted" => s.extraction[m][d] = "extracted"
    BY <1>3 DEF Rows
  <2> QED
    BY <1>3, <2>1, <2>2, <2>3 DEF EndMoves
<1>8. LoadsAgree(c)
  <2>1. WritersLive(c) /\ JobFits(c)
    BY <1>2, <1>5, <1>6 DEF WritersLive, JobFits, NoJob
  <2>2. CurrentFits(c)
    BY <1>2, <1>3, <1>5, <1>6 DEF Agree, LoadsAgree, CurrentFits, Servable, Rows
  <2>3. Drained(c)
    BY <1>3, <1>5, <1>6 DEF Agree, LoadsAgree, Drained, NoJob, Leaving
  <2>4. AbsentClear(c)
    <3> SUFFICES ASSUME NEW m \in LoadIds, c.status[m] \in Absent
                 PROVE  c.members[m] = {} /\ \A d \in Docs : c.extraction[m][d] = "none"
      BY DEF AbsentClear
    <3>1. CASE m = l
      BY <1>3, <1>5, <1>6, <3>1 DEF Absent, Rows
    <3>2. CASE m # l
      BY <1>3, <1>5, <1>6, <3>2 DEF Absent, Agree, LoadsAgree, AbsentClear, Rows
    <3> QED
      BY <3>1, <3>2
  <2> QED
    BY <2>1, <2>2, <2>3, <2>4 DEF LoadsAgree
<1> QED
  BY <1>3, <1>7, <1>8 DEF t, c, l

\* Whatever it was, the work's end leaves rows from which the next job is queued.
LEMMA EndWorkMoves ==
  ASSUME NEW s \in Rows, Agree(s), Live(s), NEW outcome \in Ends, NEW heldSets
  PROVE  LET t == EndWork(s, outcome, heldSets)
         IN  /\ EndMoves(s, t, outcome) /\ LoadsAgree(CancelJob(t)) /\ t.held /\ t.job = s.job /\ t.deleted = s.deleted
             /\ outcome = "succeeded" /\ s.job.kind # "delete" /\ t.current = s.job.load =>
                  t.status[s.job.load] \in Servable /\ (s.job.kind = "load" => t.status[s.job.load] = "ready")
<1> DEFINE t == EndWork(s, outcome, heldSets)
           c == CancelJob(t)
<1>1. t \in Rows /\ s.held
  BY EndWorkType DEF Agree, Held
<1>2. /\ c.status = t.status /\ c.job = NoJob /\ c.current = t.current /\ c.deleted = t.deleted /\ c.owed = t.owed
      /\ c.members = t.members /\ c.extraction = t.extraction
  BY <1>1 DEF CancelJob, Rows
<1>3. s.job.kind \in {"load", "extract", "apply", "delete"} /\ s.job.load \in LoadIds
  BY LiveJobType DEF Jobs
<1>4. CASE s.job.kind = "load"
  <2>1. t = EndLoad(s, s.job.load, outcome, heldSets)
    BY <1>4 DEF EndWork
  <2> HIDE DEF t, c
  <2>2. /\ EndMoves(s, t, outcome) /\ CurrentFits(t) /\ ~t.deleted /\ t.job = s.job /\ t.held
        /\ \A m \in LoadIds : t.status[m] # "writing" /\ (t.status[m] \in Absent <=> s.status[m] \in Absent)
        /\ t.members = s.members /\ t.extraction = s.extraction
        /\ outcome = "succeeded" /\ t.current = s.job.load => t.status[s.job.load] = "ready"
    BY <1>4, <2>1, EndLoadMoves
  <2>3. ~s.deleted
    BY <1>4 DEF Agree, LoadsAgree, Drained
  <2>4. LoadsAgree(c)
    <3>1. WritersLive(c) /\ JobFits(c) /\ CurrentFits(c) /\ Drained(c)
      BY <1>2, <2>2 DEF WritersLive, JobFits, CurrentFits, Drained, NoJob
    <3>2. AbsentClear(c)
      BY <1>2, <2>2 DEF Agree, LoadsAgree, AbsentClear
    <3> QED
      BY <3>1, <3>2 DEF LoadsAgree
  <2>5. t.deleted = s.deleted
    BY <1>1, <2>2, <2>3 DEF Rows
  <2>6. "ready" \in Servable
    BY DEF Servable
  <2> QED
    BY <1>4, <2>2, <2>4, <2>5, <2>6 DEF t, c
<1>5. CASE s.job.kind = "delete"
  <2>1. t = EndDelete(s, s.job.load, outcome)
    BY <1>5 DEF EndWork
  <2> QED
    BY <1>1, <1>5, <2>1, EndDeleteMoves
<1>6. CASE s.job.kind \in {"extract", "apply"}
  <2>1. t = s
    BY <1>6 DEF EndWork
  <2> HIDE DEF t, c
  <2>2. EndMoves(s, t, outcome)
    BY <2>1 DEF EndMoves
  <2>3. WritersLive(c) /\ JobFits(c) /\ CurrentFits(c) /\ AbsentClear(c)
    BY <1>2, <1>6, <2>1 DEF Agree, LoadsAgree, WritersLive, JobFits, CurrentFits, AbsentClear, NoJob
  <2>4. Drained(c)
    BY <1>2, <1>6, <2>1 DEF Agree, LoadsAgree, Drained
  <2>5. s.status[s.job.load] \in Servable
    BY <1>6 DEF Agree, LoadsAgree, JobFits
  <2> QED
    BY <1>1, <1>6, <2>1, <2>2, <2>3, <2>4, <2>5 DEF LoadsAgree, t, c
<1> QED
  BY <1>3, <1>4, <1>5, <1>6

\* What is queued after a job's end leaves the current load as it is.
LEMMA CurrentKept ==
  ASSUME NEW s \in Rows
  PROVE  /\ \A b \in BOOLEAN : QueueAfter(s, b).current = s.current
         /\ \A l \in LoadIds : FullRefresh(s, l).current = s.current
<1>1. ASSUME NEW b \in BOOLEAN PROVE QueueAfter(s, b).current = s.current
  <2> DEFINE kept == Retain(s)
             joined == IF s.current # NoLoad THEN Snapshot(kept, s.current) ELSE kept
             extract == QueueExtract(joined, b)
             extracting == IF s.owed THEN [extract EXCEPT !.owed = FALSE] ELSE kept
  <2>1. kept \in Rows /\ kept.current = s.current
    BY MarkType DEF Retain, Mark, LoadStatuses, Rows
  <2>2. joined \in Rows /\ joined.current = s.current
    <3> HIDE DEF kept
    <3>1. CASE s.current = NoLoad
      BY <2>1, <3>1
    <3>2. CASE s.current # NoLoad
      <4>1. s.current \in LoadIds
        BY <3>2 DEF Rows
      <4> QED
        BY <2>1, <3>2, <4>1, SnapshotType DEF Snapshot, Rows
    <3> QED
      BY <3>1, <3>2
  <2> HIDE DEF kept, joined
  <2>3. extract \in Rows /\ extract.current = s.current
    BY <2>2, QueueExtractType, ZenonT(60) DEF QueueExtract, Queue, Rows
  <2> HIDE DEF extract
  <2>4. extracting \in Rows /\ extracting.current = s.current
    BY <2>1, <2>3 DEF Rows
  <2>5. \A r \in Rows : QueueNextDelete(r).current = r.current
    BY DEF QueueNextDelete, Queue, Rows
  <2>6. QueueAfter(s, b) \in {QueueNextDelete(s), extracting, QueueNextDelete(extracting)}
    BY DEF QueueAfter, kept, joined, extract
  <2> QED
    BY <2>4, <2>5, <2>6
<1>2. ASSUME NEW l \in LoadIds PROVE FullRefresh(s, l).current = s.current
  BY DEF FullRefresh, InsertLoad, Snapshot, Rows
<1> QED
  BY <1>1, <1>2

\* What the rows promise once an attempt's end is recorded.
EndAgrees(s, t, outcome) ==
  /\ Agree(t) /\ EndMoves(s, t, outcome)
  /\ t.job.kind \in {"none", "delete"} \/ RunsIngest(t.job.phase) \/ t.status[t.job.load] \in Servable

LEMMA EndThenMoves ==
  ASSUME NEW s \in Rows, NEW m \in Rows, NEW t \in Rows, NEW outcome,
         EndMoves(s, m, outcome), Moves(m, t), t.current = m.current, t.job # m.job \/ t.job = NoJob, Agree(t)
  PROVE  EndAgrees(s, t, outcome)
<1>1. \A l \in LoadIds : t.status[l] \in Servable => t.status[l] = s.status[l] \/ Serves(s, t, l, outcome)
  BY DEF EndMoves, Moves, Serves
<1>2. \A l \in LoadIds : t.status[l] = "deleted" \/ s.members[l] \subseteq t.members[l]
  BY DEF EndMoves, Moves
<1>3. EndMoves(s, t, outcome)
  BY <1>1, <1>2 DEF EndMoves, Moves
<1>4. t.job.kind \in {"none", "delete"} \/ RunsIngest(t.job.phase) \/ t.status[t.job.load] \in Servable
  BY DEF Agree, LoadsAgree, JobFits, Moves, NoJob
<1> QED
  BY <1>3, <1>4 DEF EndAgrees

LEMMA FinishEndAgrees ==
  ASSUME NEW s \in Rows, Agree(s), Live(s), NEW outcome \in Ends, NEW ingestDone, NEW heldSets, NEW b \in BOOLEAN, NEW old,
         NEW refreshId, s.job.kind = "apply" => refreshId \in LoadIds /\ s.status[refreshId] = "none"
  PROVE  EndAgrees(s, FinishEnd(s, outcome, ingestDone, heldSets, b, old, refreshId), outcome)
<1> DEFINE worked == EndWork(s, outcome, heldSets)
           ended == CancelJob(worked)
           l == s.job.load
           merges == /\ outcome = "succeeded" /\ s.job.kind # "delete" /\ worked.current = l
                     /\ Unrecorded(worked, l) # {}
           applied == s.job.kind = "apply" /\ ~s.deleted /\ s.current = l
           again == Queue(worked, NewJob(s.job.kind, l, "documents"))
           t == FinishEnd(s, outcome, ingestDone, heldSets, b, old, refreshId)
<1>1. /\ EndMoves(s, worked, outcome) /\ LoadsAgree(ended) /\ worked.held /\ worked.deleted = s.deleted
      /\ merges => worked.status[l] \in Servable /\ (s.job.kind = "load" => worked.status[l] = "ready")
  BY EndWorkMoves
<1>2. worked \in Rows /\ ended \in Rows
  BY EndWorkType, CancelType
<1>3. s.job.kind \in {"load", "extract", "apply", "delete"} /\ l \in LoadIds
  BY LiveJobType DEF Jobs
<1> HIDE DEF worked
<1>5. /\ ended.status = worked.status /\ ended.job = NoJob /\ ended.current = worked.current /\ ended.deleted = worked.deleted
      /\ ended.members = worked.members /\ ended.extraction = worked.extraction /\ ended.docStatus = worked.docStatus
      /\ ended.held = worked.held /\ ended.owed = worked.owed /\ ~Live(ended)
  BY <1>2 DEF CancelJob, Rows, Live
<1> HIDE DEF ended
<1>6. EndMoves(s, ended, outcome)
  BY <1>1, <1>5 DEF EndMoves, Serves
<1>7. ASSUME merges PROVE EndAgrees(s, again, outcome)
  <2>1. s.job.kind \in {"load", "extract", "apply"} /\ worked.current = l
    BY <1>3, <1>7
  <2>2. /\ again.job.kind = s.job.kind /\ again.job.load = l /\ again.job.phase = "documents" /\ Live(again)
        /\ again.status = worked.status /\ again.current = worked.current /\ again.deleted = worked.deleted
        /\ again.members = worked.members /\ again.extraction = worked.extraction /\ again.docStatus = worked.docStatus
        /\ again.held = worked.held /\ again.owed = worked.owed
    BY <1>2, <2>1, NewJobIs DEF Queue, Rows, Live
  <2> HIDE DEF again
  <2>3. worked.status[l] \in Servable /\ (s.job.kind = "load" => worked.status[l] = "ready")
    BY <1>1, <1>7
  <2>4. ~worked.deleted
    BY <1>1, <1>3, <1>5, <2>1, IdIsNoNone DEF LoadsAgree, Drained
  <2>5. WritersLive(again)
    BY <1>1, <1>5, <2>2 DEF LoadsAgree, WritersLive, NoJob
  <2>6. JobFits(again)
    BY <2>1, <2>2, <2>3 DEF JobFits
  <2>7. CurrentFits(again) /\ Drained(again) /\ AbsentClear(again)
    BY <1>1, <1>5, <2>2, <2>4 DEF LoadsAgree, CurrentFits, Drained, AbsentClear
  <2>8. Queued(again) /\ Held(again)
    BY <1>1, <2>2 DEF Queued, Held
  <2>9. EndMoves(s, again, outcome)
    BY <1>1, <2>2 DEF EndMoves, Serves
  <2> QED
    BY <2>2, <2>3, <2>5, <2>6, <2>7, <2>8, <2>9 DEF EndAgrees, Agree, LoadsAgree
<1>8. ASSUME applied PROVE EndAgrees(s, FullRefresh(ended, refreshId), outcome)
  <2> DEFINE r == FullRefresh(ended, refreshId)
  <2>1. worked = s
    BY <1>8 DEF EndWork, worked
  <2>2. refreshId \in LoadIds /\ ended.status[refreshId] = "none" /\ ended.current # NoLoad /\ ~ended.deleted /\ ended.held
    BY <1>1, <1>3, <1>5, <1>8, <2>1, IdIsNoNone
  <2>3. r \in Rows /\ Agree(r) /\ Moves(ended, r) /\ r.current = ended.current
    BY <1>1, <1>2, <1>5, <2>2, FullRefreshAgrees, FullRefreshType, CurrentKept
  <2>4. r.job # NoJob
    BY <1>2, <2>2, FullRefreshUnstarted, NewJobIs
  <2> QED
    BY <1>2, <1>5, <1>6, <2>3, <2>4, EndThenMoves
<1>9. EndAgrees(s, QueueAfter(ended, b), outcome)
  <2> DEFINE r == QueueAfter(ended, b)
  <2>1. r \in Rows /\ Agree(r) /\ Moves(ended, r) /\ r.current = ended.current
    BY <1>1, <1>2, <1>5, QueueAfterAgrees, QueueAfterType, CurrentKept DEF Held
  <2> QED
    BY <1>2, <1>5, <1>6, <2>1, EndThenMoves
<1>10. \/ merges /\ t = again
       \/ applied /\ t = FullRefresh(ended, refreshId)
       \/ t = QueueAfter(ended, b)
  BY Zenon DEF FinishEnd, worked, ended
<1> QED
  BY <1>7, <1>8, <1>9, <1>10

--------------------------------------------------------------------------------
(* The inductive invariant.                                                 *)

Going(s, l) == s.status[l] \in Leaving
Gone(s, d) == s.docStatus[d] = "deleted"

\* A delete writes nothing and its load is on the way out.
KnowsDelete(a, s) == a.kind = "delete" =>
  /\ Going(s, a.load) /\ a.removed = {} /\ a.event = NoEvent
  /\ a.step \in {"begun", "deleting", "ended"} /\ a.outcome # "budget_exhausted"
\* Any other job's attempt goes on to the documents, or ends well, only with
\* its load's tables in.
KnowsTables(a, s, T) == a.kind # "delete" =>
  /\ a.step # "deleting"
  /\ a.ingestDone => T[a.load] \/ Going(s, a.load)
  /\ a.step \in {"ingested", "listed", "sending"} => a.ingestDone
  /\ a.step = "ended" /\ a.outcome \in {"succeeded", "budget_exhausted"} => a.ingestDone
\* It takes out deleted documents only, and what it is about to record as
\* extracted is in the graph.
KnowsDocuments(a, s, G) ==
  /\ \A d \in a.removed : Gone(s, d)
  /\ a.event.result = "removed" => Gone(s, a.event.doc)
  /\ a.event.result = "extracted" => a.event.doc \in G[a.load] \/ Gone(s, a.event.doc) \/ Going(s, a.load)
Knows(a, s, T, G) ==
  /\ a.kind # "none" /\ s.status[a.load] # "none"
  /\ KnowsDelete(a, s) /\ KnowsTables(a, s, T) /\ KnowsDocuments(a, s, G)

Remembers == \A w \in Workers : attempt[w].step # "idle" => Knows(attempt[w], db, tables, graph)

\* The attempt that holds a delete ends well only once the agent is done.
Cleared == \A w \in Workers :
  Owned(w) /\ attempt[w].kind = "delete" /\ attempt[w].step = "ended" /\ attempt[w].outcome = "succeeded" =>
    ~tables[attempt[w].load] /\ graph[attempt[w].load] = {}

Written(s, T, G) ==
  /\ \A l \in LoadIds :
       /\ s.status[l] \in Servable => T[l]
       /\ s.status[l] \in Absent => ~T[l] /\ G[l] = {}
       /\ ~Going(s, l) => \A d \in Docs : s.extraction[l][d] = "extracted" => d \in G[l] \/ Gone(s, d)
  /\ s.job.kind \in {"load", "extract", "apply"} /\ ~RunsIngest(s.job.phase) => T[s.job.load]

Full == IInv /\ Agree(db) /\ Remembers /\ Cleared /\ Written(db, tables, graph)

--------------------------------------------------------------------------------
(* What an attempt knows stays true.                                        *)

\* What every step keeps: leaving and deleted for good.
LaterRows(s, t) ==
  /\ \A l \in LoadIds : (Going(s, l) => Going(t, l)) /\ (t.status[l] = "none" => s.status[l] = "none")
  /\ \A d \in Docs : Gone(s, d) => Gone(t, d)
\* The agent takes out only what is deleted or is on the way out.
LaterGraph(s, T, G, T2, G2) == \A l \in LoadIds :
  /\ T[l] => T2[l] \/ Going(s, l)
  /\ \A d \in Docs : d \in G[l] => d \in G2[l] \/ Gone(s, d) \/ Going(s, l)

\* Every step leaves the loads their documents and makes no load current that
\* does not serve, but for a job's end and the record of a removal.
Quiet(s, t) ==
  /\ t.current \in {s.current, NoLoad} \/ s.status[t.current] \in Servable
  /\ \A l \in LoadIds : s.members[l] \subseteq t.members[l]
JobEnds == UNCHANGED <<tables, graph>> /\ \E outcome \in Ends : EndAgrees(db, db', outcome)
RemovalRecorded(w) ==
  /\ attempt[w].step = "sending" /\ attempt[w].event.result = "removed"
  /\ db' = RecordRemoval(db, attempt[w].load, attempt[w].event.doc)
StepKind == Quiet(db, db') \/ JobEnds \/ \E w \in Workers : RemovalRecorded(w)
FullStep == Full' /\ StepKind

LEMMA LaterNot == ASSUME NEW s, NEW T, NEW G PROVE LaterRows(s, s) /\ LaterGraph(s, T, G, T, G)
BY DEF LaterRows, LaterGraph

LEMMA MovesLater == ASSUME NEW s \in Rows, NEW t \in Rows, Moves(s, t) PROVE LaterRows(s, t)
BY DEF Moves, LaterRows, Going, Gone

LEMMA MovesQuiet == ASSUME NEW s \in Rows, NEW t \in Rows, s = t \/ Moves(s, t) PROVE Quiet(s, t)
BY DEF Moves, Quiet

LEMMA EndLater == ASSUME NEW s \in Rows, NEW t \in Rows, NEW outcome, EndMoves(s, t, outcome) PROVE LaterRows(s, t)
BY DEF EndMoves, LaterRows, Going, Gone

LEMMA KnowsStill ==
  ASSUME NEW a \in Attempts, a.load \in LoadIds, NEW s \in Rows, NEW T, NEW G, NEW t \in Rows, NEW T2, NEW G2,
         Knows(a, s, T, G), LaterRows(s, t), LaterGraph(s, T, G, T2, G2)
  PROVE  Knows(a, t, T2, G2)
<1>1. a.removed \in SUBSET Docs /\ (a.event.result # "none" => a.event.doc \in Docs)
  BY DEF Attempts, Events, NoEvent
<1>2. a.kind # "none" /\ t.status[a.load] # "none" /\ KnowsDelete(a, t)
  BY DEF Knows, KnowsDelete, LaterRows
<1>3. KnowsTables(a, t, T2)
  BY DEF Knows, KnowsTables, LaterRows, LaterGraph
<1>4. KnowsDocuments(a, t, G2)
  BY <1>1 DEF Knows, KnowsDocuments, LaterRows, LaterGraph
<1> QED
  BY <1>2, <1>3, <1>4 DEF Knows

\* A transaction that is no job's end leaves the graph database as the rows say.
LEMMA WrittenMoves ==
  ASSUME NEW s \in Rows, NEW t \in Rows, NEW T, NEW G, Written(s, T, G), Moves(s, t), Agree(t)
  PROVE  Written(t, T, G)
<1>1. ASSUME NEW l \in LoadIds
      PROVE  /\ t.status[l] \in Servable => T[l]
             /\ t.status[l] \in Absent => ~T[l] /\ G[l] = {}
             /\ ~Going(t, l) => \A d \in Docs : t.extraction[l][d] = "extracted" => d \in G[l] \/ Gone(t, d)
  BY DEF Written, Moves, Absent, Going, Gone
<1>2. ASSUME t.job.kind \in {"load", "extract", "apply"}, ~RunsIngest(t.job.phase) PROVE T[t.job.load]
  <2>1. CASE t.job = s.job
    BY <1>2, <2>1 DEF Written
  <2>2. CASE t.job.kind = "extract"
    <3>1. t.status[t.job.load] \in Servable /\ t.job.load \in LoadIds
      BY <2>2, NoJobIs, LiveJobType DEF Agree, LoadsAgree, JobFits
    <3> QED
      BY <1>1, <3>1
  <2> QED
    BY <1>2, <2>1, <2>2 DEF Moves
<1> QED
  BY <1>1, <1>2 DEF Written

\* A step of w's attempt, or of nobody's, that keeps what the others know.
LEMMA StepKeepsFull ==
  ASSUME Full, IInv', Agree(db)', Written(db, tables, graph)', Cleared',
         LaterRows(db, db'), LaterGraph(db, tables, graph, tables', graph'), StepKind,
         \A v \in Workers : \/ attempt'[v] = attempt[v]
                            \/ attempt'[v].step # "idle" => Knows(attempt'[v], db', tables', graph')
  PROVE  FullStep
<1>1. ASSUME NEW v \in Workers, attempt'[v].step # "idle", attempt'[v] = attempt[v]
      PROVE  Knows(attempt'[v], db', tables', graph')
  <2>1. attempt[v] \in Attempts /\ attempt[v].load \in LoadIds /\ Knows(attempt[v], db, tables, graph)
    BY <1>1 DEF Full, IInv, TypeOK, AttemptFits, Remembers
  <2>2. db \in Rows /\ db' \in Rows
    BY DEF Full, IInv, TypeOK
  <2> QED
    BY <1>1, <2>1, <2>2, KnowsStill
<1>2. Remembers'
  BY <1>1 DEF Remembers
<1> QED
  BY <1>2 DEF FullStep, Full

\* No step but the agent's own and the end of an attempt touches what is cleared.
LEMMA ClearedStill ==
  ASSUME Full, db' \in Rows, Unstarted(db, db'), UNCHANGED <<tables, graph>>,
         \A v \in Workers : \/ attempt'[v] = attempt[v]
                            \/ attempt'[v].kind = "delete" /\ attempt'[v].step = "ended" => attempt'[v].outcome # "succeeded"
  PROVE  Cleared'
<1>1. ASSUME NEW v \in Workers, Owned(v)' PROVE Owned(v)
  BY <1>1 DEF Owned, Unstarted
<1> QED
  BY <1>1 DEF Full, Cleared

--------------------------------------------------------------------------------
(* People, uploads and syncs.                                               *)

LEMMA RequestKeepsFull ==
  ASSUME Full, IInv', Request, Unstarted(db, db'), Agree(db'), Moves(db, db') PROVE FullStep
<1>1. db \in Rows /\ db' \in Rows
  BY DEF Full, IInv, TypeOK
<1>2. LaterRows(db, db') /\ Written(db', tables, graph) /\ StepKind
  BY <1>1, MovesLater, MovesQuiet, WrittenMoves DEF Full, StepKind
<1>3. tables' = tables /\ graph' = graph /\ attempt' = attempt
  BY DEF Request
<1>4. Cleared'
  BY <1>1, <1>3, ClearedStill
<1> QED
  BY <1>2, <1>3, <1>4, LaterNot, StepKeepsFull

LEMMA FullInit == Init => Full
<1> SUFFICES ASSUME Init PROVE Full
  OBVIOUS
<1>1. IInv
  BY TypeInit
<1>2. /\ db.status = [l \in LoadIds |-> "none"] /\ db.job = NoJob /\ db.current = NoLoad /\ ~db.deleted /\ db.held /\ ~db.owed
      /\ db.members = [l \in LoadIds |-> {}] /\ db.extraction = [l \in LoadIds |-> [d \in Docs |-> "none"]]
  BY DEF Init
<1>3. LoadsAgree(db)
  BY <1>2 DEF LoadsAgree, WritersLive, JobFits, CurrentFits, Drained, AbsentClear, NoJob
<1>4. Queued(db) /\ Held(db)
  BY <1>2 DEF Queued, Held
<1>5. \A w \in Workers : attempt[w].step = "idle"
  BY DEF Init, Idle
<1>6. Written(db, tables, graph)
  <2>1. tables = [l \in LoadIds |-> FALSE] /\ graph = [l \in LoadIds |-> {}]
    BY DEF Init
  <2> QED
    BY <1>2, <2>1 DEF Written, Servable, NoJob
<1> QED
  BY <1>1, <1>3, <1>4, <1>5, <1>6 DEF Full, Agree, Remembers, Cleared

LEMMA PeopleKeepFull == Full /\ People => FullStep
<1> SUFFICES ASSUME Full, People PROVE FullStep
  OBVIOUS
<1>0. db \in Rows /\ Agree(db) /\ IInv'
  BY PeopleKeep DEF Full, IInv, TypeOK
<1>1. ASSUME NEW l \in LoadIds, NEW scope \in Scopes, CreateLoad(l, scope) PROVE FullStep
  <2>1. db.status[l] = "none" /\ ~db.deleted /\ GivesWay(db) /\ db' = UserLoad(db, l, scope) /\ Request
    BY <1>1 DEF CreateLoad, Fresh, With
  <2> QED
    BY <1>0, <2>1, UserLoadAgrees, UserLoadUnstarted, RequestKeepsFull
<1>2. ASSUME NEW l \in LoadIds, NEW b \in BOOLEAN, SetCurrent(l, b) PROVE FullStep
  BY <1>0, <1>2, SetCurrentLoadAgrees, SetCurrentUnstarted, RequestKeepsFull DEF SetCurrent
<1>3. ASSUME NEW l \in LoadIds, DeleteLoad(l) PROVE FullStep
  BY <1>0, <1>3, DeleteOneLoadAgrees, DeleteOneUnstarted, RequestKeepsFull DEF DeleteLoad, Deletable
<1>4. CASE DeleteOntology
  BY <1>0, <1>4, DeleteWholeOntologyAgrees, DeleteWholeUnstarted, RequestKeepsFull DEF DeleteOntology
<1>5. CASE ResumeOntologyDrain
  BY <1>0, <1>5, ResumeDrainAgrees, ResumeDrainUnstarted, RequestKeepsFull DEF ResumeOntologyDrain
<1>6. ASSUME NEW on \in BOOLEAN, SetAutoRefresh(on) PROVE FullStep
  <2>1. db' \in Rows
    BY <1>0 DEF IInv, TypeOK
  <2>2. /\ db'.status = db.status /\ db'.job = db.job /\ db'.current = db.current /\ db'.deleted = db.deleted
        /\ db'.owed = db.owed /\ db'.held = db.held /\ db'.members = db.members /\ db'.extraction = db.extraction
        /\ db'.docStatus = db.docStatus
    BY <1>0, <1>6 DEF SetAutoRefresh, Rows
  <2>3. Agree(db') /\ Moves(db, db')
    BY <1>0, <2>1, <2>2, ColumnsAgree
  <2> QED
    BY <1>0, <1>6, <2>2, <2>3, RequestKeepsFull DEF SetAutoRefresh, Unstarted, With
<1> QED
  BY <1>1, <1>2, <1>3, <1>4, <1>5, <1>6 DEF People

LEMMA SyncsKeepFull == Full /\ Syncs => FullStep
<1> SUFFICES ASSUME Full, Syncs PROVE FullStep
  OBVIOUS
<1>0. db \in Rows /\ db' \in Rows /\ Agree(db) /\ IInv'
  BY SyncsKeep DEF Full, IInv, TypeOK
<1>1. ASSUME NEW s \in Rows, Agree(s), Moves(db, s), Unstarted(db, s), Request, NEW b \in BOOLEAN,
             db' = [s EXCEPT !.refreshDue = b]
      PROVE  FullStep
  <2>1. /\ db'.status = s.status /\ db'.job = s.job /\ db'.current = s.current /\ db'.deleted = s.deleted
        /\ db'.owed = s.owed /\ db'.held = s.held /\ db'.members = s.members /\ db'.extraction = s.extraction
        /\ db'.docStatus = s.docStatus
    BY <1>1 DEF Rows
  <2>2. Agree(db') /\ Moves(s, db')
    BY <1>0, <1>1, <2>1, ColumnsAgree
  <2>3. Moves(db, db') /\ Unstarted(db, db')
    BY <1>0, <1>1, <2>1, <2>2, MovesTwice DEF Unstarted, With
  <2> QED
    BY <1>0, <1>1, <2>2, <2>3, RequestKeepsFull
<1>2. CASE OweRefresh
  BY <1>0, <1>1, <1>2, MovesNot, UnchangedUnstarted DEF OweRefresh
<1>3. ASSUME NEW inPlace \in BOOLEAN, NEW l \in LoadIds, QueueRefresh(inPlace, l) PROVE FullStep
  <2>1. CASE db' = [db EXCEPT !.refreshDue = FALSE]
    BY <1>0, <1>1, <1>3, <2>1, MovesNot, UnchangedUnstarted DEF QueueRefresh
  <2>2. ASSUME ~db.deleted, ~Live(db), db.current # NoLoad, l \in Fresh(db),
               db' = [FullRefresh(db, l) EXCEPT !.refreshDue = FALSE]
        PROVE  FullStep
    <3> DEFINE r == FullRefresh(db, l)
    <3>1. db.status[l] = "none" /\ db.held /\ LoadsAgree(db)
      BY <1>0, <2>2 DEF Fresh, With, Agree, Held
    <3>2. r \in Rows /\ Agree(r) /\ Moves(db, r)
      BY <1>0, <2>2, <3>1, FullRefreshAgrees, FullRefreshType
    <3>3. Unstarted(db, r)
      <4>1. r.job = NewJob("load", l, "provisioning")
        BY <1>0, FullRefreshUnstarted
      <4> QED
        BY <4>1 DEF Unstarted, NewJob
    <3> QED
      BY <1>1, <1>3, <2>2, <3>2, <3>3 DEF QueueRefresh
  <2>3. ASSUME ~Live(db), db.current # NoLoad, db.status[db.current] \in Servable, l \in Fresh(db), ~db.deleted,
               db' = [Queue(db, NewJob("apply", db.current, "provisioning")) EXCEPT !.refreshDue = FALSE]
        PROVE  FullStep
    <3>1. db.current \in LoadIds
      BY <1>0, <2>3 DEF Rows
    <3>2. /\ db'.job = NewJob("apply", db.current, "provisioning")
          /\ db'.status = db.status /\ db'.current = db.current /\ db'.deleted = db.deleted
          /\ db'.owed = db.owed /\ db'.held = db.held /\ db'.members = db.members /\ db'.extraction = db.extraction
          /\ db'.docStatus = db.docStatus
      BY <1>0, <2>3 DEF Queue, Rows
    <3>3. db'.job.kind = "apply" /\ db'.job.load = db.current /\ RunsIngest(db'.job.phase) /\ Live(db')
      BY <3>2, NewJobIs DEF RunsIngest, Live
    <3>4. LoadsAgree(db')
      <4>1. db.job.kind = "none"
        BY <1>0, <2>3, NoJobIs
      <4>2. LoadsAgree(db)
        BY <1>0 DEF Agree
      <4> QED
        BY <2>3, <3>2, <3>3, <4>1, <4>2 DEF LoadsAgree, WritersLive, JobFits, CurrentFits, Drained, AbsentClear
    <3>5. Agree(db')
      BY <1>0, <2>3, <3>2, <3>3, <3>4 DEF Agree, Queued, Held
    <3>6. Moves(db, db')
      BY <3>2, <3>3 DEF Moves
    <3>7. Written(db', tables, graph)
      BY <1>0, <3>5, <3>6, WrittenMoves DEF Full
    <3>8. Cleared'
      BY <3>2 DEF Cleared, Owned, NewJob
    <3>9. tables' = tables /\ graph' = graph /\ attempt' = attempt
      BY <1>3 DEF QueueRefresh, Request
    <3> QED
      BY <1>0, <3>5, <3>6, <3>7, <3>8, <3>9, LaterNot, MovesLater, MovesQuiet, StepKeepsFull DEF StepKind
  <2>4. \/ db' = [db EXCEPT !.refreshDue = FALSE]
        \/ /\ ~db.deleted /\ ~Live(db) /\ db.current # NoLoad /\ l \in Fresh(db)
           /\ \/ db' = [FullRefresh(db, l) EXCEPT !.refreshDue = FALSE]
              \/ /\ db.status[db.current] \in Servable
                 /\ db' = [Queue(db, NewJob("apply", db.current, "provisioning")) EXCEPT !.refreshDue = FALSE]
    BY <1>3, Zenon DEF QueueRefresh
  <2> QED
    BY <2>1, <2>2, <2>3, <2>4
<1> QED
  BY <1>2, <1>3 DEF Syncs

LEMMA DocumentsKeepFull == Full /\ Documents => FullStep
<1> SUFFICES ASSUME Full, Documents PROVE FullStep
  OBVIOUS
<1>0. db \in Rows /\ db' \in Rows /\ Agree(db) /\ IInv'
  BY DocumentsKeep DEF Full, IInv, TypeOK
<1>1. ASSUME NEW s \in Rows, s.status = db.status, s.job = db.job, s.current = db.current, s.deleted = db.deleted,
             s.owed = db.owed, s.held = db.held, s.members = db.members, s.extraction = db.extraction,
             \A d \in Docs : db.docStatus[d] = "deleted" => s.docStatus[d] = "deleted",
             NEW d \in Docs, NEW canWrite \in BOOLEAN, NEW b \in BOOLEAN,
             db' = FanOut(s, d, canWrite, b) \/ db' = s, Request
      PROVE  FullStep
  <2>1. Agree(s) /\ Moves(db, s)
    BY <1>0, <1>1, ColumnsAgree
  <2>2. Agree(db') /\ Moves(s, db') /\ Unstarted(s, db')
    BY <1>1, <2>1, FanOutAgrees, FanOutUnstarted, MovesNot, UnchangedUnstarted
  <2>3. Moves(db, db') /\ Unstarted(db, db')
    BY <1>0, <1>1, <2>1, <2>2, MovesTwice DEF Unstarted, With
  <2> QED
    BY <1>0, <1>1, <2>2, <2>3, RequestKeepsFull
<1>2. ASSUME NEW d \in Docs, NEW canWrite \in BOOLEAN, NEW b \in BOOLEAN, CompleteUpload(d, canWrite, b) PROVE FullStep
  <2> DEFINE s == [db EXCEPT !.docStatus[d] = "uploaded"]
  <2>1. /\ s \in Rows /\ s.status = db.status /\ s.job = db.job /\ s.current = db.current /\ s.deleted = db.deleted
        /\ s.owed = db.owed /\ s.held = db.held /\ s.members = db.members /\ s.extraction = db.extraction
        /\ \A e \in Docs : db.docStatus[e] = "deleted" => s.docStatus[e] = "deleted"
    BY <1>0, <1>2, ZenonT(60) DEF CompleteUpload, Rows
  <2>2. db' = FanOut(s, d, canWrite, b) /\ Request
    BY <1>2 DEF CompleteUpload
  <2> HIDE DEF s
  <2> QED
    BY <1>1, <2>1, <2>2
<1>3. ASSUME NEW d \in Docs, NEW set \in Sets, NEW canWrite \in BOOLEAN, NEW b \in BOOLEAN, MoveDocument(d, set, canWrite, b)
      PROVE  FullStep
  <2> DEFINE s == [db EXCEPT !.docSet[d] = set]
  <2>1. /\ s \in Rows /\ s.status = db.status /\ s.job = db.job /\ s.current = db.current /\ s.deleted = db.deleted
        /\ s.owed = db.owed /\ s.held = db.held /\ s.members = db.members /\ s.extraction = db.extraction
        /\ s.docStatus = db.docStatus
    BY <1>0 DEF Rows
  <2>2. (db' = FanOut(s, d, canWrite, b) \/ db' = s) /\ Request
    BY <1>3 DEF MoveDocument
  <2> HIDE DEF s
  <2> QED
    BY <1>1, <2>1, <2>2
<1>4. ASSUME NEW d \in Docs, DeleteDocument(d) PROVE FullStep
  BY <1>0, <1>4, RemoveDocumentAgrees, RemoveDocumentUnstarted, RequestKeepsFull DEF DeleteDocument
<1> QED
  BY <1>2, <1>3, <1>4 DEF Documents

--------------------------------------------------------------------------------
(* A graph worker's attempt.                                                *)

\* What the transactions that change only the live job's row leave alone.
SameLoads(s, t) ==
  /\ t.status = s.status /\ t.current = s.current /\ t.deleted = s.deleted /\ t.owed = s.owed /\ t.held = s.held
  /\ t.members = s.members /\ t.extraction = s.extraction /\ t.docStatus = s.docStatus

LEMMA JobRowKeepsFull ==
  ASSUME Full, IInv', Cleared', NEW w \in Workers, NEW a, attempt' = [attempt EXCEPT ![w] = a], UNCHANGED <<tables, graph>>,
         SameLoads(db, db'), Live(db), db'.job.kind = db.job.kind, db'.job.load = db.job.load,
         db.job.kind # "delete" /\ ~RunsIngest(db'.job.phase) => tables[db.job.load],
         a.step # "idle" => Knows(a, db', tables, graph)
  PROVE  FullStep
<1>1. db \in Rows /\ db' \in Rows /\ attempt \in [Workers -> Attempts]
  BY DEF Full, IInv, TypeOK
<1>2. Agree(db')
  BY <1>1, JobRowAgrees DEF Full, SameLoads
<1>3. Written(db', tables, graph)
  BY DEF Full, Written, SameLoads, Going, Gone
<1>4. LaterRows(db, db')
  BY DEF LaterRows, SameLoads, Going, Gone
<1>5. \A v \in Workers : \/ attempt'[v] = attempt[v]
                         \/ attempt'[v].step # "idle" => Knows(attempt'[v], db', tables', graph')
  BY <1>1
<1>6. StepKind
  BY DEF StepKind, Quiet, SameLoads
<1> QED
  BY <1>2, <1>3, <1>4, <1>5, <1>6, LaterNot, StepKeepsFull

LEMMA AttemptKeepsFull ==
  ASSUME Full, IInv', NEW w \in Workers, NEW a, attempt' = [attempt EXCEPT ![w] = a], UNCHANGED <<db, tables, graph>>,
         a.step # "idle" => Knows(a, db, tables, graph),
         a.kind = "delete" /\ a.step = "ended" => a.outcome # "succeeded"
  PROVE  FullStep
<1>1. db \in Rows /\ attempt \in [Workers -> Attempts]
  BY DEF Full, IInv, TypeOK
<1>2. Cleared'
  BY <1>1, ClearedStill, UnchangedUnstarted
<1>3. \A v \in Workers : \/ attempt'[v] = attempt[v]
                         \/ attempt'[v].step # "idle" => Knows(attempt'[v], db', tables', graph')
  BY <1>1
<1> QED
  BY <1>1, <1>2, <1>3, LaterNot, MovesQuiet, StepKeepsFull DEF Full, StepKind

LEMMA IdleIs == Idle.step = "idle" /\ Idle.kind = "none" /\ Idle.removed = {} /\ Idle.event = NoEvent /\ NoEvent.result = "none"
BY DEF Idle, NoEvent

\* An attempt that holds the live job is one of it, and its load is as its kind needs.
LEMMA OwnedIs ==
  ASSUME Full, NEW w \in Workers, Owned(w), attempt[w].step # "idle"
  PROVE  /\ Live(db) /\ db.job \in Jobs /\ attempt[w].kind = db.job.kind /\ attempt[w].load = db.job.load
         /\ attempt[w].kind \in {"load", "extract", "apply", "delete"}
         /\ db.status[attempt[w].load] \notin Absent
         /\ attempt[w].kind # "delete" => ~Going(db, attempt[w].load)
<1>1. db \in Rows /\ Live(db)
  BY DEF Full, IInv, TypeOK, Owned, Live, NoJob
<1>2. db.job \in Jobs
  BY <1>1, LiveJobType
<1>3. attempt[w].kind = db.job.kind /\ attempt[w].load = db.job.load
  BY DEF Full, IInv, Fenced
<1> QED
  BY <1>1, <1>2, <1>3 DEF Full, Agree, LoadsAgree, JobFits, Jobs, Servable, Absent, Leaving, Going

LEMMA ClaimKeepsFull == ASSUME Full, NEW w \in Workers, Claim(w) PROVE FullStep
<1>0. db \in Rows /\ Agree(db) /\ IInv'
  BY ClaimKeeps DEF Full, IInv, TypeOK
<1> DEFINE giveUp == db.job.attempts >= MaxAttempts
           a == [Idle EXCEPT !.step = IF giveUp THEN "ended" ELSE "begun", !.outcome = IF giveUp THEN "failed" ELSE "none",
                             !.kind = db.job.kind, !.load = db.job.load,
                             !.ingestDone = ~giveUp /\ ~RunsIngest(db.job.phase)]
<1>1. attempt' = [attempt EXCEPT ![w] = a] /\ UNCHANGED <<tables, graph>>
  BY DEF Claim
<1>2. Live(db)
  BY DEF Claim, Live, NoJob
<1>3. db.job \in Jobs /\ db.job.kind \in {"load", "extract", "apply", "delete"}
  BY <1>0, <1>2, LiveJobType DEF Jobs
<1>4. SameLoads(db, db') /\ db'.job.kind = db.job.kind /\ db'.job.load = db.job.load /\ db'.job.owner = w /\ db'.job.phase = db.job.phase
  BY <1>0, <1>3 DEF Claim, Rows, Jobs, SameLoads
<1>5. /\ a.step \in {"begun", "ended"} /\ a.outcome \in {"none", "failed"} /\ a.kind = db.job.kind /\ a.load = db.job.load
      /\ a.ingestDone => ~RunsIngest(db.job.phase)
      /\ a.removed = {} /\ a.event = NoEvent
  BY DEF Idle
<1> HIDE DEF a
<1>6. db.status[a.load] # "none" /\ (a.kind = "delete" => Going(db, a.load))
  BY <1>0, <1>3, <1>5 DEF Agree, LoadsAgree, JobFits, Servable, Going, Leaving
<1>7. db.job.kind # "delete" /\ ~RunsIngest(db.job.phase) => tables[db.job.load]
  BY <1>3 DEF Full, Written
<1>8. Knows(a, db', tables, graph)
  <2>1. KnowsDelete(a, db')
    BY <1>4, <1>5, <1>6 DEF KnowsDelete, Going, SameLoads
  <2>2. KnowsTables(a, db', tables)
    BY <1>5, <1>7 DEF KnowsTables
  <2>3. KnowsDocuments(a, db', graph)
    BY <1>5, IdleIs DEF KnowsDocuments
  <2> QED
    BY <1>3, <1>4, <1>5, <1>6, <2>1, <2>2, <2>3 DEF Knows, SameLoads
<1>9. Cleared'
  BY <1>1, <1>4, <1>5 DEF Cleared, Owned, Full, IInv, TypeOK
<1> QED
  BY <1>0, <1>1, <1>2, <1>4, <1>7, <1>8, <1>9, JobRowKeepsFull

\* An attempt that records its phase and goes on as next.
LEMMA UpdateKeepsFull ==
  ASSUME Full, IInv', NEW w \in Workers, NEW phase \in Phases, NEW a, attempt[w].step # "idle", Update(w, phase, a),
         Knows(a, db, tables, graph), a.kind = "delete" => a.step # "ended",
         attempt[w].kind # "delete" /\ ~RunsIngest(phase) => attempt[w].ingestDone
  PROVE  FullStep
<1>0. db \in Rows /\ attempt[w] \in Attempts /\ Knows(attempt[w], db, tables, graph)
  BY DEF Full, IInv, TypeOK, Remembers
<1>1. CASE ~Owned(w)
  <2> DEFINE ended == [attempt[w] EXCEPT !.step = "ended", !.outcome = "retry"]
  <2>1. attempt' = [attempt EXCEPT ![w] = ended] /\ UNCHANGED <<db, tables, graph>>
    BY <1>1, Zenon DEF Update, End
  <2>2. /\ ended.step = "ended" /\ ended.outcome = "retry" /\ ended.kind = attempt[w].kind /\ ended.load = attempt[w].load
        /\ ended.ingestDone = attempt[w].ingestDone /\ ended.removed = attempt[w].removed /\ ended.event = attempt[w].event
    BY <1>0 DEF Attempts
  <2> HIDE DEF ended
  <2>3. Knows(ended, db, tables, graph)
    BY <1>0, <2>2 DEF Knows, KnowsDelete, KnowsTables, KnowsDocuments
  <2> QED
    BY <2>1, <2>2, <2>3, AttemptKeepsFull
<1>2. CASE Owned(w) /\ db' = db
  BY <1>2, AttemptKeepsFull DEF Update
<1>3. CASE Owned(w) /\ db' = [db EXCEPT !.job.phase = phase]
  <2>1. attempt' = [attempt EXCEPT ![w] = a] /\ UNCHANGED <<tables, graph>>
    BY <1>3 DEF Update
  <2>2. /\ Live(db) /\ db.job \in Jobs /\ attempt[w].kind = db.job.kind /\ attempt[w].load = db.job.load
        /\ attempt[w].kind # "delete" => ~Going(db, attempt[w].load)
    BY <1>3, OwnedIs
  <2>3. /\ SameLoads(db, db') /\ db'.job.kind = db.job.kind /\ db'.job.load = db.job.load /\ db'.job.phase = phase
        /\ Unstarted(db, db') /\ db' \in Rows
    BY <1>0, <1>3, <2>2, RowKept, ZenonT(60) DEF Rows, Jobs, SameLoads
  <2>4. db.job.kind # "delete" /\ ~RunsIngest(db'.job.phase) => tables[db.job.load]
    BY <1>0, <2>2, <2>3 DEF Knows, KnowsTables
  <2>5. Knows(a, db', tables, graph)
    BY <2>3 DEF Knows, KnowsDelete, KnowsTables, KnowsDocuments, SameLoads, Going, Gone
  <2>6. Cleared'
    BY <2>1, <2>3, ClearedStill DEF Full, IInv, TypeOK
  <2> QED
    BY <2>1, <2>2, <2>3, <2>4, <2>5, <2>6, JobRowKeepsFull
<1> QED
  BY <1>1, <1>2, <1>3 DEF Update

\* The agent writes for w's attempt, of a load that is not deleted: other
\* attempts of that load keep what they know, and no delete of it is beside it.
LEMMA AgentKeepsFull ==
  ASSUME Full, IInv', NEW w \in Workers, NEW a, attempt' = [attempt EXCEPT ![w] = a], UNCHANGED db,
         Served(w), attempt[w].kind # "delete", attempt[w].step # "idle", a.kind = attempt[w].kind,
         \A l \in LoadIds : l # attempt[w].load => tables'[l] = tables[l] /\ graph'[l] = graph[l],
         tables[attempt[w].load] => tables'[attempt[w].load],
         \A d \in Docs : d \in graph[attempt[w].load] => d \in graph'[attempt[w].load] \/ Gone(db, d),
         Knows(a, db, tables', graph')
  PROVE  FullStep
<1> DEFINE l == attempt[w].load
<1>0. db \in Rows /\ l \in LoadIds /\ attempt \in [Workers -> Attempts] /\ Knows(attempt[w], db, tables, graph)
  BY DEF Full, IInv, TypeOK, AttemptFits, Remembers
<1>1. db.status[l] \notin Absent
  BY <1>0, OwnedIs DEF Served, Knows, Absent
<1>2. LaterGraph(db, tables, graph, tables', graph')
  BY DEF LaterGraph
<1>3. Written(db, tables', graph')
  <2>1. ASSUME NEW m \in LoadIds
        PROVE  /\ db.status[m] \in Servable => tables'[m]
               /\ db.status[m] \in Absent => ~tables'[m] /\ graph'[m] = {}
               /\ ~Going(db, m) => \A d \in Docs : db.extraction[m][d] = "extracted" => d \in graph'[m] \/ Gone(db, d)
    <3>1. CASE m # l
      BY <3>1 DEF Full, Written
    <3>2. CASE m = l
      BY <1>1, <3>2 DEF Full, Written
    <3> QED
      BY <3>1, <3>2
  <2>2. db.job.kind \in {"load", "extract", "apply"} /\ ~RunsIngest(db.job.phase) => tables'[db.job.load]
    <3>1. CASE db.job.load # l
      <4>1. db.job.kind \in {"load", "extract", "apply"} => db.job.load \in LoadIds
        BY <1>0 DEF Rows, Jobs, NoJob
      <4> QED
        BY <3>1, <4>1 DEF Full, Written
    <3>2. CASE db.job.load = l
      BY <3>2 DEF Full, Written
    <3> QED
      BY <3>1, <3>2
  <2> QED
    BY <2>1, <2>2 DEF Written
<1>4. Cleared'
  <2> SUFFICES ASSUME NEW v \in Workers, Owned(v)', attempt'[v].kind = "delete", attempt'[v].step = "ended",
                      attempt'[v].outcome = "succeeded"
               PROVE  ~tables'[attempt'[v].load] /\ graph'[attempt'[v].load] = {}
    BY DEF Cleared
  <2>1. v # w /\ attempt'[v] = attempt[v] /\ Owned(v)
    BY <1>0 DEF Owned
  <2>2. attempt[v].load \in LoadIds /\ attempt[v].kind = db.job.kind /\ attempt[v].load = db.job.load
    BY <2>1 DEF Full, IInv, Fenced, AttemptFits
  <2>3. attempt[v].load # l
    BY <2>1, <2>2 DEF Served, Owned
  <2> QED
    BY <2>1, <2>2, <2>3 DEF Full, Cleared
<1>5. \A v \in Workers : \/ attempt'[v] = attempt[v]
                         \/ attempt'[v].step # "idle" => Knows(attempt'[v], db', tables', graph')
  BY <1>0
<1> QED
  BY <1>0, <1>2, <1>3, <1>4, <1>5, LaterNot, MovesQuiet, StepKeepsFull DEF Full, StepKind

LEMMA AgentDeletesKeepsFull == ASSUME Full, NEW w \in Workers, AgentDeletes(w) PROVE FullStep
<1> DEFINE a == [attempt[w] EXCEPT !.step = "ended", !.outcome = "succeeded"]
           l == attempt[w].load
<1>0. /\ db \in Rows /\ l \in LoadIds /\ attempt \in [Workers -> Attempts] /\ IInv'
      /\ tables \in [LoadIds -> BOOLEAN] /\ graph \in [LoadIds -> SUBSET Docs]
  BY WorksKeep DEF Full, IInv, TypeOK, AttemptFits, AgentDeletes, Works
<1>1. attempt' = [attempt EXCEPT ![w] = a] /\ UNCHANGED db
  BY <1>0 DEF AgentDeletes, End
<1>2. Knows(attempt[w], db, tables, graph) /\ attempt[w].kind = "delete" /\ Going(db, l)
  BY DEF Full, Remembers, AgentDeletes, Knows, KnowsTables, KnowsDelete
<1>3. /\ a.step = "ended" /\ a.outcome = "succeeded" /\ a.kind = attempt[w].kind /\ a.load = l
      /\ a.removed = attempt[w].removed /\ a.event = attempt[w].event
  BY <1>0 DEF Attempts
<1> HIDE DEF a
<1>4. Knows(a, db, tables', graph')
  BY <1>2, <1>3, IdleIs DEF Knows, KnowsDelete, KnowsTables, KnowsDocuments
<1>5. /\ ~tables'[l] /\ graph'[l] = {}
      /\ \A m \in LoadIds : m # l => tables'[m] = tables[m] /\ graph'[m] = graph[m]
  BY <1>0 DEF AgentDeletes
<1> HIDE DEF l
<1>6. LaterGraph(db, tables, graph, tables', graph')
  BY <1>0, <1>2, <1>5 DEF LaterGraph
<1>7. Written(db, tables', graph')
  <2>1. ASSUME NEW m \in LoadIds
        PROVE  /\ db.status[m] \in Servable => tables'[m]
               /\ db.status[m] \in Absent => ~tables'[m] /\ graph'[m] = {}
               /\ ~Going(db, m) => \A d \in Docs : db.extraction[m][d] = "extracted" => d \in graph'[m] \/ Gone(db, d)
    <3>1. CASE m # l
      BY <1>5, <3>1 DEF Full, Written
    <3>2. CASE m = l
      BY <1>2, <1>5, <3>2 DEF Going, Leaving, Servable
    <3> QED
      BY <3>1, <3>2
  <2>2. ASSUME db.job.kind \in {"load", "extract", "apply"}, ~RunsIngest(db.job.phase) PROVE tables'[db.job.load]
    <3>1. db.job.load \in LoadIds /\ ~Going(db, db.job.load)
      BY <1>0, <2>2, NoJobIs, LiveJobType DEF Full, Agree, LoadsAgree, JobFits, Servable, Going, Leaving
    <3> QED
      BY <1>2, <1>5, <2>2, <3>1 DEF Full, Written
  <2> QED
    BY <2>1, <2>2 DEF Written
<1>8. Cleared'
  <2> SUFFICES ASSUME NEW v \in Workers, Owned(v)', attempt'[v].kind = "delete", attempt'[v].step = "ended",
                      attempt'[v].outcome = "succeeded"
               PROVE  ~tables'[attempt'[v].load] /\ graph'[attempt'[v].load] = {}
    BY DEF Cleared
  <2>1. CASE v = w
    BY <1>0, <1>1, <1>3, <1>5, <2>1 DEF l
  <2>2. CASE v # w
    <3>1. attempt'[v] = attempt[v] /\ Owned(v) /\ attempt[v].load \in LoadIds
      BY <1>0, <1>1, <2>2 DEF Owned, Full, IInv, AttemptFits
    <3>2. ~tables[attempt[v].load] /\ graph[attempt[v].load] = {}
      BY <3>1 DEF Full, Cleared
    <3> QED
      BY <1>5, <3>1, <3>2
  <2> QED
    BY <2>1, <2>2
<1>9. \A v \in Workers : \/ attempt'[v] = attempt[v]
                         \/ attempt'[v].step # "idle" => Knows(attempt'[v], db', tables', graph')
  BY <1>0, <1>1, <1>4
<1> QED
  BY <1>0, <1>1, <1>6, <1>7, <1>8, <1>9, LaterNot, MovesQuiet, StepKeepsFull DEF Full, StepKind

LEMMA RecordKeepsFull == ASSUME Full, NEW w \in Workers, Record(w) PROVE FullStep
<1> DEFINE l == attempt[w].load
           d == attempt[w].event.doc
           result == attempt[w].event.result
           pending == IF result = "removed" THEN attempt[w].pending ELSE attempt[w].pending \ {d}
           recorded == [attempt[w] EXCEPT !.event = NoEvent, !.pending = pending, !.removed = @ \ {d}]
           ended == [attempt[w] EXCEPT !.event = NoEvent, !.step = "ended", !.outcome = "retry"]
<1>0. db \in Rows /\ db' \in Rows /\ attempt \in [Workers -> Attempts] /\ l \in LoadIds /\ IInv'
  BY RecordKeeps DEF Full, IInv, TypeOK, AttemptFits, Record
<1>1. /\ attempt[w].step = "sending" /\ d \in Docs /\ result \in {"extracted", "retryable", "failed", "removed"}
      /\ tables' = tables /\ graph' = graph
  BY <1>0 DEF Record, Attempts, Events
<1>2. Knows(attempt[w], db, tables, graph) /\ attempt[w].kind # "delete"
  BY <1>1 DEF Full, Remembers, Knows, KnowsDelete
<1>3. /\ recorded.step = "sending" /\ recorded.kind = attempt[w].kind /\ recorded.load = l
      /\ recorded.ingestDone = attempt[w].ingestDone /\ recorded.removed \subseteq attempt[w].removed /\ recorded.event = NoEvent
  BY <1>0, <1>1 DEF Attempts
<1>4. /\ ended.step = "ended" /\ ended.outcome = "retry" /\ ended.kind = attempt[w].kind /\ ended.load = l
      /\ ended.ingestDone = attempt[w].ingestDone /\ ended.removed = attempt[w].removed /\ ended.event = NoEvent
  BY <1>0, <1>1 DEF Attempts
<1> HIDE DEF recorded, ended
<1>5. CASE ~(Owned(w) /\ (result = "removed" \/ d \in db.members[l]))
  <2>1. attempt' = [attempt EXCEPT ![w] = ended] /\ UNCHANGED <<db, tables, graph>>
    <3>1. /\ attempt' = [attempt EXCEPT ![w].event = NoEvent, ![w].step = "ended", ![w].outcome = "retry"]
          /\ db' = db
      BY <1>5, Zenon DEF Record
    <3> QED
      BY <1>1, <3>1 DEF ended
  <2>2. Knows(ended, db, tables, graph)
    BY <1>2, <1>4, IdleIs DEF Knows, KnowsDelete, KnowsTables, KnowsDocuments
  <2> QED
    BY <1>0, <1>2, <1>4, <2>1, <2>2, AttemptKeepsFull
<1>6. CASE Owned(w) /\ (result = "removed" \/ d \in db.members[l])
  <2>1. attempt' = [attempt EXCEPT ![w] = recorded]
    <3>1. attempt' = [attempt EXCEPT ![w].event = NoEvent, ![w].pending = pending, ![w].removed = @ \ {d}]
      BY <1>6, Zenon DEF Record
    <3> QED
      BY <1>0, <3>1 DEF recorded, Attempts
  <2>2. db' = IF result = "removed" THEN RecordRemoval(db, l, d) ELSE RecordExtraction(db, l, d, result)
    BY <1>6, Zenon DEF Record
  <2> HIDE DEF result, d, l
  <2>3. db.status[l] \notin Absent
    BY <1>1, <1>6, OwnedIs DEF l
  <2>4. Agree(db')
    <3>1. "none" \in Extractions /\ (result # "removed" => result \in Extractions)
      BY <1>1 DEF Extractions
    <3> QED
      BY <1>0, <1>1, <2>2, <2>3, <3>1, RecordAgrees DEF Full
  <2>5. /\ db'.status = db.status /\ db'.docStatus = db.docStatus /\ db'.job = db.job
        /\ \A m \in LoadIds, e \in Docs : db'.extraction[m][e] = "extracted" =>
              db.extraction[m][e] = "extracted" \/ (m = l /\ e = d /\ result = "extracted")
    <3>1. CASE result = "removed"
      BY <1>0, <1>1, <2>2, <3>1 DEF RecordRemoval, Rows
    <3>2. CASE result # "removed"
      BY <1>0, <1>1, <2>2, <3>2 DEF RecordExtraction, Rows
    <3> QED
      BY <3>1, <3>2
  <2>6. result = "extracted" => d \in graph[l] \/ Gone(db, d) \/ Going(db, l)
    BY <1>2 DEF Knows, KnowsDocuments, result, d, l
  <2>7. Written(db', tables, graph)
    BY <2>5, <2>6 DEF Full, Written, Going, Gone
  <2>8. Knows(recorded, db', tables, graph)
    <3>1. Knows(recorded, db, tables, graph)
      BY <1>1, <1>2, <1>3, IdleIs DEF Knows, KnowsDelete, KnowsTables, KnowsDocuments, l
    <3> QED
      BY <2>5, <3>1 DEF Knows, KnowsDelete, KnowsTables, KnowsDocuments, Going, Gone
  <2>9. Cleared'
    <3>1. Unstarted(db, db')
      BY <2>5 DEF Unstarted, With
    <3> QED
      BY <1>0, <1>1, <1>2, <1>3, <2>1, <3>1, ClearedStill
  <2>10. LaterRows(db, db')
    BY <2>5 DEF LaterRows, Going, Gone
  <2>11. \A v \in Workers : \/ attempt'[v] = attempt[v]
                            \/ attempt'[v].step # "idle" => Knows(attempt'[v], db', tables', graph')
    BY <1>0, <1>1, <2>1, <2>8
  <2>12. StepKind
    <3>1. CASE result = "removed"
      BY <1>1, <2>2, <3>1 DEF StepKind, RemovalRecorded, result, d, l
    <3>2. CASE result # "removed"
      <4>1. Quiet(db, db')
        BY <1>0, <1>1, <2>2, <3>2 DEF RecordExtraction, Rows, Quiet
      <4> QED
        BY <4>1 DEF StepKind
    <3> QED
      BY <3>1, <3>2
  <2> QED
    BY <1>0, <1>1, <2>4, <2>7, <2>9, <2>10, <2>11, <2>12, LaterNot, StepKeepsFull
<1> QED
  BY <1>5, <1>6

LEMMA WorksKeepFull == ASSUME Full, NEW w \in Workers, Works(w) PROVE FullStep
<1>0. /\ db \in Rows /\ attempt \in [Workers -> Attempts] /\ IInv' /\ attempt[w] \in Attempts
      /\ tables \in [LoadIds -> BOOLEAN] /\ graph \in [LoadIds -> SUBSET Docs]
  BY WorksKeep DEF Full, IInv, TypeOK
<1>1. attempt[w].step # "idle" => attempt[w].load \in LoadIds /\ Knows(attempt[w], db, tables, graph)
  BY DEF Full, IInv, AttemptFits, Remembers
<1>2. CASE StartIngest(w)
  <2> DEFINE a == [attempt[w] EXCEPT !.step = "ingesting"]
  <2>1. /\ a.step = "ingesting" /\ a.kind = attempt[w].kind /\ a.load = attempt[w].load
        /\ a.ingestDone = attempt[w].ingestDone /\ a.removed = attempt[w].removed /\ a.event = attempt[w].event
    BY <1>0 DEF Attempts
  <2> HIDE DEF a
  <2>2. Update(w, "ingest", a) /\ attempt[w].step # "idle" /\ attempt[w].kind # "delete"
    BY <1>2 DEF StartIngest, a
  <2>3. Knows(a, db, tables, graph)
    BY <1>1, <2>1, <2>2 DEF Knows, KnowsDelete, KnowsTables, KnowsDocuments
  <2> QED
    BY <1>0, <2>1, <2>2, <2>3, UpdateKeepsFull DEF Phases, RunsIngest
<1>3. CASE StartDelete(w)
  <2> DEFINE a == [attempt[w] EXCEPT !.step = "deleting"]
  <2>1. /\ a.step = "deleting" /\ a.kind = attempt[w].kind /\ a.load = attempt[w].load /\ a.outcome = attempt[w].outcome
        /\ a.removed = attempt[w].removed /\ a.event = attempt[w].event
    BY <1>0 DEF Attempts
  <2> HIDE DEF a
  <2>2. Update(w, "deleting", a) /\ attempt[w].step # "idle" /\ attempt[w].kind = "delete"
    BY <1>3 DEF StartDelete, a
  <2>3. Knows(a, db, tables, graph)
    BY <1>1, <2>1, <2>2 DEF Knows, KnowsDelete, KnowsTables, KnowsDocuments
  <2> QED
    BY <1>0, <2>1, <2>2, <2>3, UpdateKeepsFull DEF Phases
<1>4. CASE ListPending(w)
  <2> DEFINE a == [attempt[w] EXCEPT !.step = "listed", !.pending = Waiting(db, attempt[w].load)]
  <2>1. /\ a.step = "listed" /\ a.kind = attempt[w].kind /\ a.load = attempt[w].load
        /\ a.ingestDone = attempt[w].ingestDone /\ a.removed = attempt[w].removed /\ a.event = attempt[w].event
    BY <1>0 DEF Attempts
  <2> HIDE DEF a
  <2>2. Update(w, "documents", a) /\ attempt[w].step # "idle" /\ attempt[w].kind # "delete" /\ attempt[w].ingestDone
    BY <1>4 DEF ListPending, a
  <2>3. Knows(a, db, tables, graph)
    BY <1>1, <2>1, <2>2 DEF Knows, KnowsDelete, KnowsTables, KnowsDocuments
  <2> QED
    BY <1>0, <2>1, <2>2, <2>3, UpdateKeepsFull DEF Phases
<1>5. CASE ExtractDone(w)
  <2> DEFINE a == [attempt[w] EXCEPT !.step = "ended", !.outcome = "succeeded"]
  <2>1. /\ a.step = "ended" /\ a.kind = attempt[w].kind /\ a.load = attempt[w].load
        /\ a.ingestDone = attempt[w].ingestDone /\ a.removed = attempt[w].removed /\ a.event = attempt[w].event
    BY <1>0 DEF Attempts
  <2> HIDE DEF a
  <2>2. Update(w, "finishing", a) /\ attempt[w].step = "sending"
    BY <1>5 DEF ExtractDone, a
  <2>3. attempt[w].kind # "delete" /\ attempt[w].ingestDone
    BY <1>1, <2>2 DEF Knows, KnowsDelete, KnowsTables
  <2>4. Knows(a, db, tables, graph)
    BY <1>1, <2>1, <2>2, <2>3 DEF Knows, KnowsDelete, KnowsTables, KnowsDocuments
  <2> QED
    BY <1>0, <2>1, <2>2, <2>3, <2>4, UpdateKeepsFull DEF Phases
<1>6. CASE Ingest(w)
  <2> DEFINE a == [attempt[w] EXCEPT !.step = "ingested", !.ingestDone = TRUE]
             l == attempt[w].load
  <2>1. /\ a.step = "ingested" /\ a.kind = attempt[w].kind /\ a.load = l /\ a.ingestDone
        /\ a.removed = attempt[w].removed /\ a.event = attempt[w].event
    BY <1>0 DEF Attempts
  <2>2. attempt' = [attempt EXCEPT ![w] = a] /\ UNCHANGED <<db, graph>> /\ Served(w) /\ attempt[w].step = "ingesting"
    BY <1>0, <1>6 DEF Ingest
  <2> HIDE DEF a
  <2>3. /\ tables'[l] /\ \A m \in LoadIds : m # l => tables'[m] = tables[m]
    BY <1>0, <1>1, <1>6, <2>2 DEF Ingest
  <2>4. attempt[w].kind # "delete"
    BY <1>1, <2>2 DEF Knows, KnowsDelete
  <2>5. Knows(a, db, tables', graph')
    BY <1>1, <2>1, <2>2, <2>3, <2>4 DEF Knows, KnowsDelete, KnowsTables, KnowsDocuments
  <2> QED
    BY <1>0, <2>1, <2>2, <2>3, <2>4, <2>5, AgentKeepsFull
<1>7. CASE ListRemoved(w)
  <2> DEFINE a == [attempt[w] EXCEPT !.step = "sending", !.removed = Removed(db, attempt[w].load)]
  <2>1. /\ a.step = "sending" /\ a.kind = attempt[w].kind /\ a.load = attempt[w].load
        /\ a.ingestDone = attempt[w].ingestDone /\ a.removed = Removed(db, attempt[w].load) /\ a.event = attempt[w].event
    BY <1>0 DEF Attempts
  <2>2. attempt' = [attempt EXCEPT ![w] = a] /\ attempt[w].step = "listed" /\ UNCHANGED <<db, tables, graph>>
    BY <1>0, <1>7 DEF ListRemoved
  <2> HIDE DEF a
  <2>3. attempt[w].kind # "delete" /\ attempt[w].ingestDone
    BY <1>1, <2>2 DEF Knows, KnowsDelete, KnowsTables
  <2>4. \A d \in Removed(db, attempt[w].load) : Gone(db, d)
    BY DEF Removed, Gone
  <2>5. Knows(a, db, tables, graph)
    BY <1>1, <2>1, <2>2, <2>3, <2>4 DEF Knows, KnowsDelete, KnowsTables, KnowsDocuments
  <2> QED
    BY <1>0, <2>1, <2>2, <2>3, <2>5, AttemptKeepsFull
<1>8. ASSUME NEW d \in Docs, AgentRemoves(w, d) PROVE FullStep
  <2> DEFINE a == [attempt[w] EXCEPT !.event = [doc |-> d, result |-> "removed"]]
             l == attempt[w].load
  <2>1. /\ a.step = attempt[w].step /\ a.kind = attempt[w].kind /\ a.load = l /\ a.ingestDone = attempt[w].ingestDone
        /\ a.removed = attempt[w].removed /\ a.event.doc = d /\ a.event.result = "removed"
    BY <1>0 DEF Attempts
  <2>2. /\ attempt' = [attempt EXCEPT ![w] = a] /\ UNCHANGED <<db, tables>> /\ Served(w) /\ attempt[w].step = "sending"
        /\ d \in attempt[w].removed
    BY <1>0, <1>8 DEF AgentRemoves
  <2> HIDE DEF a
  <2>3. attempt[w].kind # "delete" /\ Gone(db, d)
    BY <1>1, <2>2 DEF Knows, KnowsDelete, KnowsDocuments
  <2>4. graph'[l] = graph[l] \ {d} /\ \A m \in LoadIds : m # l => graph'[m] = graph[m]
    BY <1>0, <1>1, <1>8, <2>2 DEF AgentRemoves
  <2>5. Knows(a, db, tables', graph')
    BY <1>1, <2>1, <2>2, <2>3 DEF Knows, KnowsDelete, KnowsTables, KnowsDocuments
  <2>6. \A e \in Docs : e \in graph[l] => e \in graph'[l] \/ Gone(db, e)
    BY <2>3, <2>4
  <2> QED
    BY <1>0, <2>1, <2>2, <2>3, <2>4, <2>5, <2>6, AgentKeepsFull
<1>9. ASSUME NEW d \in Docs, NEW result \in {"extracted", "retryable", "failed"}, AgentExtracts(w, d, result) PROVE FullStep
  <2> DEFINE a == [attempt[w] EXCEPT !.event = [doc |-> d, result |-> result]]
             l == attempt[w].load
  <2>1. /\ a.step = attempt[w].step /\ a.kind = attempt[w].kind /\ a.load = l /\ a.ingestDone = attempt[w].ingestDone
        /\ a.removed = attempt[w].removed /\ a.event.doc = d /\ a.event.result = result
    BY <1>0 DEF Attempts
  <2>2. attempt' = [attempt EXCEPT ![w] = a] /\ UNCHANGED <<db, tables>> /\ Served(w) /\ attempt[w].step = "sending"
    BY <1>0, <1>9 DEF AgentExtracts
  <2> HIDE DEF a
  <2>3. attempt[w].kind # "delete"
    BY <1>1, <2>2 DEF Knows, KnowsDelete
  <2>4. /\ graph[l] \subseteq graph'[l] /\ \A m \in LoadIds : m # l => graph'[m] = graph[m]
        /\ result = "extracted" => d \in graph'[l]
    BY <1>0, <1>1, <1>9, <2>2 DEF AgentExtracts
  <2>5. Knows(a, db, tables', graph')
    BY <1>1, <2>1, <2>2, <2>3, <2>4 DEF Knows, KnowsDelete, KnowsTables, KnowsDocuments
  <2> QED
    BY <1>0, <2>1, <2>2, <2>3, <2>4, <2>5, AgentKeepsFull
<1> QED
  BY <1>2, <1>3, <1>4, <1>5, <1>6, <1>7, <1>8, <1>9, RecordKeepsFull, AgentDeletesKeepsFull DEF Works

LEMMA CrashKeepsFull == ASSUME Full, NEW w \in Workers, Crash(w) PROVE FullStep
<1>0. db \in Rows /\ attempt \in [Workers -> Attempts] /\ IInv'
  BY CrashKeeps DEF Full, IInv, TypeOK
<1>1. attempt' = [attempt EXCEPT ![w] = Idle] /\ UNCHANGED <<tables, graph>>
  BY DEF Crash
<1>2. CASE db.job.owner # w
  <2>1. db' = db
    BY <1>2 DEF Crash
  <2> QED
    BY <1>0, <1>1, <2>1, AttemptKeepsFull, IdleIs
<1>3. CASE db.job.owner = w
  <2>1. Live(db) /\ db.job \in Jobs
    BY <1>0, <1>3, RowsAssumption, LiveJobType DEF Live, NoJob
  <2>2. /\ SameLoads(db, db') /\ db'.job.kind = db.job.kind /\ db'.job.load = db.job.load /\ db'.job.phase = db.job.phase
        /\ db'.job.owner = Nobody
    BY <1>0, <1>3, <2>1 DEF Crash, Rows, Jobs, SameLoads
  <2>3. Cleared'
    BY <2>2, RowsAssumption DEF Cleared, Owned
  <2>4. db.job.kind # "delete" /\ ~RunsIngest(db'.job.phase) => tables[db.job.load]
    BY <2>1, <2>2 DEF Full, Written, Jobs
  <2> QED
    BY <1>0, <1>1, <2>1, <2>2, <2>3, <2>4, JobRowKeepsFull, IdleIs
<1> QED
  BY <1>2, <1>3

LEMMA FailsKeepFull == ASSUME Full, NEW w \in Workers, Fails(w) PROVE FullStep
<1>0. db \in Rows /\ attempt \in [Workers -> Attempts] /\ attempt[w] \in Attempts /\ IInv'
  BY FailsKeep DEF Full, IInv, TypeOK
<1>1. attempt[w].step # "idle" => attempt[w].load \in LoadIds /\ Knows(attempt[w], db, tables, graph)
  BY DEF Full, IInv, AttemptFits, Remembers
<1>2. ASSUME NEW d \in Docs, TextGone(w, d) PROVE FullStep
  <2> DEFINE a == [attempt[w] EXCEPT !.pending = @ \ {d}]
  <2>1. /\ a.step = attempt[w].step /\ a.kind = attempt[w].kind /\ a.load = attempt[w].load
        /\ a.ingestDone = attempt[w].ingestDone /\ a.removed = attempt[w].removed /\ a.event = attempt[w].event
    BY <1>0 DEF Attempts
  <2>2. /\ attempt' = [attempt EXCEPT ![w] = a] /\ attempt[w].step = "sending" /\ UNCHANGED <<tables, graph>>
        /\ db' = db \/ db' = RemoveDocument(db, d)
    BY <1>0, <1>2 DEF TextGone
  <2> HIDE DEF a
  <2>3. Agree(db') /\ Moves(db, db') /\ Unstarted(db, db') /\ db' \in Rows
    BY <1>0, <2>2, RemoveDocumentAgrees, RemoveDocumentUnstarted, RemoveDocumentType, MovesNot, UnchangedUnstarted DEF Full
  <2>4. Knows(a, db, tables, graph)
    BY <1>1, <2>1, <2>2 DEF Knows, KnowsDelete, KnowsTables, KnowsDocuments
  <2>5. Knows(a, db', tables, graph)
    <3>1. LaterRows(db, db') /\ a \in Attempts /\ a.load \in LoadIds
      BY <1>0, <1>1, <2>1, <2>2, <2>3, MovesLater DEF Attempts, a
    <3> QED
      BY <1>0, <2>3, <2>4, <3>1, KnowsStill, LaterNot
  <2>6. Cleared'
    BY <1>0, <2>1, <2>2, <2>3, ClearedStill
  <2>7. \A v \in Workers : \/ attempt'[v] = attempt[v]
                           \/ attempt'[v].step # "idle" => Knows(attempt'[v], db', tables', graph')
    BY <1>0, <2>2, <2>5
  <2>8. LaterRows(db, db') /\ Written(db', tables, graph) /\ StepKind
    BY <1>0, <2>3, MovesLater, MovesQuiet, WrittenMoves DEF Full, StepKind
  <2> QED
    BY <1>0, <2>2, <2>3, <2>6, <2>7, <2>8, LaterNot, StepKeepsFull
<1>3. ASSUME NEW heldSets \in SUBSET Sets, BudgetStops(w, heldSets) PROVE FullStep
  <2> DEFINE a == [attempt[w] EXCEPT !.step = "ended", !.outcome = "budget_exhausted", !.held = heldSets]
  <2>1. /\ a.step = "ended" /\ a.outcome = "budget_exhausted" /\ a.kind = attempt[w].kind /\ a.load = attempt[w].load
        /\ a.ingestDone = attempt[w].ingestDone /\ a.removed = attempt[w].removed /\ a.event = attempt[w].event
    BY <1>0 DEF Attempts
  <2>2. attempt' = [attempt EXCEPT ![w] = a] /\ attempt[w].step = "sending" /\ UNCHANGED <<db, tables, graph>>
    BY <1>0, <1>3 DEF BudgetStops
  <2> HIDE DEF a
  <2>3. Knows(a, db, tables, graph)
    BY <1>1, <2>1, <2>2 DEF Knows, KnowsDelete, KnowsTables, KnowsDocuments
  <2> QED
    BY <1>0, <2>1, <2>2, <2>3, AttemptKeepsFull
<1>4. ASSUME NEW outcome \in {"failed", "retry", "uncounted"},
             attempt[w].step # "idle", UNCHANGED <<db, tables, graph>>,
             attempt' = [attempt EXCEPT ![w].step = "ended", ![w].event = NoEvent, ![w].outcome = outcome]
      PROVE  FullStep
  <2> DEFINE a == [attempt[w] EXCEPT !.step = "ended", !.event = NoEvent, !.outcome = outcome]
  <2>1. /\ a.step = "ended" /\ a.outcome = outcome /\ a.kind = attempt[w].kind /\ a.load = attempt[w].load
        /\ a.ingestDone = attempt[w].ingestDone /\ a.removed = attempt[w].removed /\ a.event = NoEvent
    BY <1>0 DEF Attempts
  <2>2. attempt' = [attempt EXCEPT ![w] = a]
    BY <1>0, <1>4
  <2> HIDE DEF a
  <2>3. Knows(a, db, tables, graph)
    BY <1>1, <1>4, <2>1, IdleIs DEF Knows, KnowsDelete, KnowsTables, KnowsDocuments
  <2> QED
    BY <1>0, <1>4, <2>1, <2>2, <2>3, AttemptKeepsFull
<1>5. ASSUME NEW outcome \in {"failed", "retry", "uncounted"}, Stops(w, outcome) PROVE FullStep
  BY <1>4, <1>5 DEF Stops
<1>6. CASE LosesLease(w)
  BY <1>4, <1>6 DEF LosesLease
<1>7. CASE FinishUnrecorded(w)
  BY <1>0, <1>7, AttemptKeepsFull, IdleIs DEF FinishUnrecorded
<1>8. CASE RemovalUnrecorded(w)
  <2> DEFINE a == [attempt[w] EXCEPT !.removed = @ \ {attempt[w].event.doc}, !.event = NoEvent]
  <2>1. /\ a.step = attempt[w].step /\ a.kind = attempt[w].kind /\ a.load = attempt[w].load
        /\ a.ingestDone = attempt[w].ingestDone /\ a.removed \subseteq attempt[w].removed /\ a.event = NoEvent
    BY <1>0 DEF Attempts
  <2>2. attempt' = [attempt EXCEPT ![w] = a] /\ attempt[w].step = "sending" /\ UNCHANGED <<db, tables, graph>>
    BY <1>0, <1>8 DEF RemovalUnrecorded
  <2> HIDE DEF a
  <2>3. Knows(a, db, tables, graph)
    BY <1>1, <2>1, <2>2, IdleIs DEF Knows, KnowsDelete, KnowsTables, KnowsDocuments
  <2> QED
    BY <1>0, <2>1, <2>2, <2>3, AttemptKeepsFull
<1> QED
  BY <1>2, <1>3, <1>5, <1>6, <1>7, <1>8, CrashKeepsFull DEF Fails

\* The graph database is as the rows say once an attempt's end is recorded: a
\* load serves from then on only with its tables in, and is deleted only once
\* the agent took it out.
LEMMA WrittenEnds ==
  ASSUME NEW s \in Rows, NEW t \in Rows, NEW T, NEW G, Written(s, T, G), NEW outcome, EndAgrees(s, t, outcome),
         s.job.kind = "load" /\ outcome \in {"succeeded", "budget_exhausted"} => T[s.job.load],
         s.job.kind = "delete" /\ outcome # "failed" => ~T[s.job.load] /\ G[s.job.load] = {}
  PROVE  Written(t, T, G)
<1>1. ASSUME NEW m \in LoadIds
      PROVE  /\ t.status[m] \in Servable => T[m]
             /\ t.status[m] \in Absent => ~T[m] /\ G[m] = {}
             /\ ~Going(t, m) => \A d \in Docs : t.extraction[m][d] = "extracted" => d \in G[m] \/ Gone(t, d)
  <2>1. t.status[m] \in Servable => T[m]
    BY DEF Written, EndAgrees, EndMoves, Serves
  <2>2. t.status[m] \in Absent => ~T[m] /\ G[m] = {}
    BY DEF Written, EndAgrees, EndMoves, Deletes, Absent
  <2>3. ~Going(t, m) => \A d \in Docs : t.extraction[m][d] = "extracted" => d \in G[m] \/ Gone(t, d)
    BY DEF Written, EndAgrees, EndMoves, Going, Gone
  <2> QED
    BY <2>1, <2>2, <2>3
<1>2. ASSUME t.job.kind \in {"load", "extract", "apply"}, ~RunsIngest(t.job.phase) PROVE T[t.job.load]
  <2>1. t.status[t.job.load] \in Servable
    BY <1>2 DEF EndAgrees
  <2>2. t.job.load \in LoadIds
    BY <1>2, NoJobIs, LiveJobType
  <2> QED
    BY <1>1, <2>1, <2>2
<1> QED
  BY <1>1, <1>2 DEF Written

LEMMA FinishKeepsFull ==
  ASSUME Full, NEW w \in Workers, NEW b \in BOOLEAN, NEW old \in BOOLEAN, NEW l \in LoadIds \cup {NoLoad},
         IF Fresh(db) = {} THEN l = NoLoad ELSE l \in Fresh(db), Finish(w, b, old, l)
  PROVE  FullStep
<1> DEFINE a == attempt[w]
           retries == \/ a.outcome = "uncounted"
                      \/ a.outcome = "retry" /\ db.job.attempts < MaxAttempts
           outcome == IF a.outcome = "retry" THEN "failed" ELSE a.outcome
<1>0. db \in Rows /\ db' \in Rows /\ Agree(db) /\ attempt \in [Workers -> Attempts] /\ IInv'
  BY FinishKeeps DEF Full, IInv, TypeOK
<1>1. attempt' = [attempt EXCEPT ![w] = Idle] /\ tables' = tables /\ graph' = graph /\ a.step = "ended"
  BY DEF Finish
<1>2. a.ingestDone \in BOOLEAN /\ (a.outcome = "uncounted") \in BOOLEAN /\ a.outcome \in Outcomes \ {"none"}
  BY <1>0, <1>1 DEF Attempts, Full, IInv, AttemptFits
<1>3. Knows(a, db, tables, graph)
  BY <1>1 DEF Full, Remembers
<1>4. CASE ~Owned(w)
  <2>1. db' = db
    BY <1>4 DEF Finish
  <2> QED
    BY <1>0, <1>1, <2>1, AttemptKeepsFull, IdleIs
<1>5. CASE Owned(w)
  <2>1. /\ Live(db) /\ db.job \in Jobs /\ a.kind = db.job.kind /\ a.load = db.job.load
        /\ a.kind # "delete" => ~Going(db, a.load)
    BY <1>1, <1>5, OwnedIs
  <2>2. CASE retries
    <3>1. db' = FinishRetry(db, a.ingestDone, a.outcome = "uncounted")
      BY <1>5, <2>2 DEF Finish
    <3>2. Unstarted(db, db')
      BY <1>0, <1>2, <2>1, <3>1, FinishRetryUnstarted
    <3>3. /\ SameLoads(db, db') /\ db'.job.kind = db.job.kind /\ db'.job.load = db.job.load
          /\ db'.job.phase = IF a.ingestDone /\ db.job.kind \in {"load", "apply"} THEN "documents" ELSE db.job.phase
      <4>1. db'.job = [db.job EXCEPT !.status = "queued", !.owner = Nobody,
                        !.phase = IF a.ingestDone /\ db.job.kind \in {"load", "apply"} THEN "documents" ELSE @,
                        !.attempts = IF a.outcome = "uncounted" /\ @ > 0 THEN @ - 1 ELSE @]
        BY <1>0, <3>1 DEF FinishRetry, Queue, Rows
      <4>2. SameLoads(db, db')
        BY <1>0, <3>1, ZenonT(60) DEF FinishRetry, Queue, Rows, SameLoads
      <4> HIDE DEF a
      <4> QED
        BY <2>1, <4>1, <4>2 DEF Jobs
    <3>4. db.job.kind # "delete" /\ ~RunsIngest(db'.job.phase) => tables[db.job.load]
      BY <1>3, <2>1, <3>3 DEF Full, Written, Knows, KnowsTables, Jobs
    <3>5. Cleared'
      BY <1>0, <1>1, <3>2, ClearedStill, IdleIs
    <3> QED
      BY <1>0, <1>1, <2>1, <3>3, <3>4, <3>5, JobRowKeepsFull, IdleIs
  <2>3. CASE ~retries
    <3>1. db' = FinishEnd(db, outcome, a.ingestDone, a.held, b, old, l)
      BY <1>5, <2>3 DEF Finish
    <3>2. outcome \in Ends /\ (outcome = a.outcome \/ outcome = "failed")
      BY <1>2, <2>3 DEF Ends, Outcomes
    <3>3. db.job.kind = "apply" => l \in LoadIds /\ db.status[l] = "none"
      BY FreshIsLoadId DEF Full, IInv, ApplyHasId, Fresh, With
    <3> HIDE DEF outcome
    <3>4. EndAgrees(db, db', outcome)
      BY <1>0, <2>1, <3>1, <3>2, <3>3, FinishEndAgrees
    <3>5. Unstarted(db, db')
      BY <1>0, <2>1, <3>1, <3>2, <3>3, FinishEndUnstarted
    <3>6. db.job.kind = "load" /\ outcome \in {"succeeded", "budget_exhausted"} => tables[db.job.load]
      BY <1>1, <1>3, <2>1, <3>2 DEF Knows, KnowsTables
    <3>7. db.job.kind = "delete" /\ outcome # "failed" => ~tables[db.job.load] /\ graph[db.job.load] = {}
      <4>1. db.job.kind = "delete" /\ outcome # "failed" => a.outcome = "succeeded"
        BY <1>3, <2>1, <3>2 DEF Knows, KnowsDelete, Ends
      <4> QED
        BY <1>1, <1>5, <2>1, <4>1 DEF Full, Cleared
    <3>8. Written(db', tables, graph)
      BY <1>0, <3>4, <3>6, <3>7, WrittenEnds DEF Full
    <3>9. LaterRows(db, db')
      BY <1>0, <3>4, EndLater DEF EndAgrees
    <3>10. Cleared'
      BY <1>0, <1>1, <3>5, ClearedStill, IdleIs
    <3>11. \A v \in Workers : \/ attempt'[v] = attempt[v]
                              \/ attempt'[v].step # "idle" => Knows(attempt'[v], db', tables', graph')
      BY <1>0, <1>1, IdleIs
    <3>12. StepKind
      BY <1>1, <3>2, <3>4 DEF StepKind, JobEnds
    <3> QED
      BY <1>0, <1>1, <3>4, <3>8, <3>9, <3>10, <3>11, <3>12, LaterNot, StepKeepsFull DEF EndAgrees
  <2> QED
    BY <2>2, <2>3
<1> QED
  BY <1>4, <1>5

LEMMA NextKeepsFull == Full /\ [Next]_vars => FullStep
<1> SUFFICES ASSUME Full, [Next]_vars PROVE FullStep
  OBVIOUS
<1>1. CASE People
  BY <1>1, PeopleKeepFull
<1>2. CASE Syncs
  BY <1>2, SyncsKeepFull
<1>3. CASE Documents
  BY <1>3, DocumentsKeepFull
<1>4. ASSUME NEW w \in Workers, Claim(w) \/ Works(w) \/ Fails(w) PROVE FullStep
  BY <1>4, ClaimKeepsFull, WorksKeepFull, FailsKeepFull
<1>5. ASSUME NEW w \in Workers, Finishes(w) PROVE FullStep
  BY <1>5, FinishKeepsFull DEF Finishes
<1>6. CASE UNCHANGED vars
  <2>1. Full'
    BY <1>6 DEF vars, Full, IInv, TypeOK, ApplyHasId, Fenced, AttemptFits, Remembers, Cleared, Owned
  <2>2. StepKind
    BY <1>6 DEF vars, StepKind, Quiet
  <2> QED
    BY <2>1, <2>2 DEF FullStep
<1> QED
  BY <1>1, <1>2, <1>3, <1>4, <1>5, <1>6 DEF Next

\* The invariant holds of every reachable state.
LEMMA FullInvariant == Spec => []Full
<1>1. Full /\ [Next]_vars => Full'
  BY NextKeepsFull DEF FullStep
<1> QED
  BY <1>1, FullInit, PTL DEF Spec

--------------------------------------------------------------------------------
(* What is never wrong.                                                     *)

\* However jobs are created, preempted, cancelled, retried and given up, a
\* load is being written only by the live job, and the live job's load is in a
\* state its kind works on: no load is stranded, no job works on a deleted one.
THEOREM LoadsHaveTheirJob == Spec => []JobAndLoadsAgree
<1>1. Full => JobAndLoadsAgree
  BY DEF Full, Agree, LoadsAgree, WritersLive, JobFits, JobAndLoadsAgree, WritersAreLive, JobFitsLoad, With
<1> QED
  BY <1>1, FullInvariant, PTL

\* The load queries are answered from is ready or partial and its tables are
\* in the graph database, whatever retention, deletes, refreshes, lost leases
\* and partial ends do meanwhile.
THEOREM QueriesAreServed == Spec => []CurrentServes
<1>1. Full => CurrentServes
  BY DEF Full, IInv, TypeOK, Rows, Agree, LoadsAgree, CurrentFits, Written, CurrentServes
<1> QED
  BY <1>1, FullInvariant, PTL

\* With no job live nothing waits for its delete and no extract is owed: each
\* of the ways a job ends or is cancelled queues what it owes.
THEOREM NothingIsForgotten == Spec => []NothingForgotten
<1>1. Full => NothingForgotten
  BY DEF Full, Agree, Queued, NothingForgotten, With
<1> QED
  BY <1>1, FullInvariant, PTL

\* Nothing of a deleted load stays behind, in the graph database or in the
\* memberships, though attempts whose job was cancelled may still write.
THEOREM DeletesAreComplete == Spec => []DeletedLeavesNothing
<1>1. Full => DeletedLeavesNothing
  BY DEF Full, Agree, LoadsAgree, AbsentClear, Written, Absent, DeletedLeavesNothing
<1> QED
  BY <1>1, FullInvariant, PTL

\* A deleted ontology's database is let go of only with every load out of it,
\* however often a delete fails and is resumed.
THEOREM ReleasesAreEmpty == Spec => []ReleasedOnlyWhenEmpty
<1>1. Full => ReleasedOnlyWhenEmpty
  BY DEF Full, Agree, Held, Absent, ReleasedOnlyWhenEmpty
<1> QED
  BY <1>1, FullInvariant, PTL

\* A document recorded as extracted is in its load's graph, wherever a worker
\* crashes, loses its lease or repeats what it did.
THEOREM RecordsAreWritten == Spec => []ExtractedIsWritten
<1>1. ASSUME Full PROVE ExtractedIsWritten
  <2> SUFFICES ASSUME NEW l \in LoadIds, NEW d \in Docs,
                      db.status[l] \notin {"deleting", "delete_failed"}, db.docStatus[d] = "uploaded",
                      db.extraction[l][d] = "extracted"
               PROVE  d \in graph[l]
    BY DEF ExtractedIsWritten
  <2>1. db.status[l] # "deleted"
    BY <1>1 DEF Full, Agree, LoadsAgree, AbsentClear, Absent
  <2>2. ~Going(db, l) /\ ~Gone(db, d)
    BY <2>1 DEF Going, Gone, Leaving
  <2> QED
    BY <1>1, <2>2 DEF Full, Written
<1> QED
  BY <1>1, FullInvariant, PTL

\* What makes a refresh's load current is its job's end alone.
LEMMA ReplacedAtItsEnd ==
  ASSUME Full, [Next]_vars, RefreshReplaces
  PROVE  \E outcome \in Ends : EndMoves(db, db', outcome) /\ Replaces(db, db'.current, outcome)
<1>1. db \in Rows /\ ~Quiet(db, db')
  BY DEF Full, IInv, TypeOK, RefreshReplaces, Quiet, Servable
<1>2. ASSUME NEW w \in Workers, RemovalRecorded(w) PROVE FALSE
  <2>1. db'.current = db.current
    BY <1>1, <1>2 DEF RemovalRecorded, RecordRemoval, Rows
  <2> QED
    BY <2>1 DEF RefreshReplaces
<1>3. JobEnds
  BY <1>1, <1>2, NextKeepsFull DEF FullStep, StepKind
<1> QED
  BY <1>3 DEF JobEnds, EndAgrees, EndMoves, RefreshReplaces

\* A refresh's end never overrules a load someone chose while it ran: it only
\* takes the place of the load it refreshes.
THEOREM RefreshesNeverOverrule == Spec => RefreshNeverOverrules
<1>1. Full /\ [Next]_vars => (RefreshReplaces => db.refreshes[db'.current] = db.current)
  BY ReplacedAtItsEnd DEF Replaces, RefreshReplaces
<1> QED
  BY <1>1, FullInvariant, PTL DEF Spec, RefreshNeverOverrules

\* A refresh the budget stopped takes over only with every document it and the
\* load it replaces hold in the graph, so no answer loses its source by it.
THEOREM PartialRefreshesKeepDocuments == Spec => PartialRefreshKeepsDocuments
<1> DEFINE Kept == RefreshReplaces /\ db'.status[db'.current] = "partial" =>
             \A d \in Docs : /\ db.docStatus[d] = "uploaded" /\ d \in db.members[db'.current]
                             /\ db.extraction[db.current][d] = "extracted"
                             => d \in graph[db'.current]
<1>1. ASSUME Full, [Next]_vars PROVE Kept
  <2> SUFFICES ASSUME RefreshReplaces, db'.status[db'.current] = "partial", NEW d \in Docs,
                      db.docStatus[d] = "uploaded", d \in db.members[db'.current], db.extraction[db.current][d] = "extracted"
               PROVE  d \in graph[db'.current]
    OBVIOUS
  <2> DEFINE l == db'.current
  <2>1. PICK outcome \in Ends : EndMoves(db, db', outcome) /\ Replaces(db, l, outcome)
    BY <1>1, ReplacedAtItsEnd
  <2>2. l \in LoadIds /\ db.status[l] = "writing" /\ db.origin[l] = "refresh"
    <3>1. db' \in Rows
      BY <1>1, NextKeepsFull DEF FullStep, Full, IInv, TypeOK
    <3> QED
      BY <3>1 DEF RefreshReplaces, Rows
  <2>3. outcome = "budget_exhausted"
    BY <2>1, <2>2 DEF EndMoves, Serves, Servable, LoadEnd
  <2>4. Missing(db, l) = {} /\ db.refreshes[l] = db.current
    BY <2>1, <2>2, <2>3 DEF Replaces
  <2>5. db.extraction[l][d] = "extracted"
    BY <2>4 DEF Missing, Recorded, Uploaded
  <2>6. ~Going(db, l) /\ ~Gone(db, d)
    BY <2>2 DEF Going, Gone, Leaving
  <2> QED
    BY <1>1, <2>2, <2>5, <2>6 DEF Full, Written
<1> QED
  BY <1>1, FullInvariant, PTL DEF Spec, PartialRefreshKeepsDocuments

--------------------------------------------------------------------------------
(* With one worker, a document leaves a load's records once it is out.      *)

\* A removal about to be recorded is of a document out of the graph.
Out == \A w \in Workers :
  attempt[w].step # "idle" /\ attempt[w].event.result = "removed" => attempt[w].event.doc \notin graph[attempt[w].load]

LEMMA OutStays ==
  ASSUME \A v, w \in Workers : v = w, Full, Out, [Next]_vars PROVE Out'
<1>0. attempt \in [Workers -> Attempts] /\ graph \in [LoadIds -> SUBSET Docs]
  BY DEF Full, IInv, TypeOK
<1>1. \A w \in Workers : attempt[w].step # "idle" => attempt[w].load \in LoadIds
  BY DEF Full, IInv, AttemptFits
<1>2. ASSUME UNCHANGED graph,
             \A w \in Workers : \/ attempt'[w] = attempt[w]
                                \/ attempt'[w].step = "idle"
                                \/ attempt'[w].event = NoEvent
                                \/ /\ attempt'[w].event = attempt[w].event /\ attempt'[w].load = attempt[w].load
                                   /\ attempt[w].step # "idle"
      PROVE  Out'
  BY <1>2, IdleIs DEF Out
<1>3. CASE UNCHANGED <<attempt, graph>>
  BY <1>3 DEF Out
<1>4. CASE People \/ Syncs \/ Documents
  BY <1>3, <1>4 DEF People, CreateLoad, SetCurrent, DeleteLoad, DeleteOntology, ResumeOntologyDrain, SetAutoRefresh,
                    Syncs, OweRefresh, QueueRefresh, Documents, CompleteUpload, MoveDocument, DeleteDocument, Request
<1>5. ASSUME NEW w \in Workers, Claim(w) PROVE Out'
  <2>1. attempt'[w].event = NoEvent
    BY <1>0, <1>5 DEF Claim, Idle
  <2>2. \A v \in Workers : v = w
    OBVIOUS
  <2> QED
    BY <1>2, <1>5, <2>1, <2>2 DEF Claim
<1>6. ASSUME NEW w \in Workers, NEW phase, NEW next, Update(w, phase, next), attempt[w].step # "idle",
             next.event = attempt[w].event, next.load = attempt[w].load
      PROVE  Out'
  <2>1. attempt'[w] \in {next, [attempt[w] EXCEPT !.step = "ended", !.outcome = "retry"]}
    BY <1>0, <1>6 DEF Update, End
  <2>2. attempt'[w].event = attempt[w].event /\ attempt'[w].load = attempt[w].load
    BY <1>0, <1>6, <2>1, ZenonT(60) DEF Attempts
  <2> QED
    BY <1>2, <1>6, <2>2 DEF Update
<1>7. ASSUME NEW w \in Workers, StartIngest(w) \/ StartDelete(w) \/ ListPending(w) \/ ExtractDone(w) PROVE Out'
  <2>1. attempt[w] \in Attempts
    BY <1>0
  <2> QED
    BY <1>6, <1>7, <2>1 DEF StartIngest, StartDelete, ListPending, ExtractDone, Attempts
<1>8. ASSUME NEW w \in Workers, Ingest(w) \/ ListRemoved(w) PROVE Out'
  <2>1. /\ attempt'[w].event = attempt[w].event /\ attempt'[w].load = attempt[w].load /\ attempt[w].step # "idle"
        /\ UNCHANGED graph
    BY <1>0, <1>8 DEF Ingest, ListRemoved, Attempts
  <2> QED
    BY <1>2, <2>1
<1>9. ASSUME NEW w \in Workers, NEW d \in Docs, AgentRemoves(w, d) PROVE Out'
  <2>1. /\ attempt'[w].event.doc = d /\ attempt'[w].load = attempt[w].load
        /\ d \notin graph'[attempt[w].load]
    BY <1>0, <1>1, <1>9 DEF AgentRemoves, Attempts
  <2> QED
    BY <2>1 DEF Out
<1>10. ASSUME NEW w \in Workers, NEW d \in Docs, NEW result \in {"extracted", "retryable", "failed"}, AgentExtracts(w, d, result)
       PROVE  Out'
  <2>1. attempt'[w].event.result # "removed"
    BY <1>0, <1>10 DEF AgentExtracts, Attempts
  <2> QED
    BY <2>1 DEF Out
<1>11. ASSUME NEW w \in Workers, Record(w) \/ RemovalUnrecorded(w) \/ LosesLease(w) PROVE Out'
  <2>1. attempt'[w].event = NoEvent /\ UNCHANGED graph
    BY <1>0, <1>11 DEF Record, RemovalUnrecorded, LosesLease, Attempts
  <2> QED
    BY <1>2, <2>1
<1>12. ASSUME NEW w \in Workers, NEW outcome, Stops(w, outcome) PROVE Out'
  <2>1. attempt'[w].event = NoEvent /\ UNCHANGED graph
    BY <1>0, <1>12 DEF Stops, Attempts
  <2> QED
    BY <1>2, <2>1
<1>13. ASSUME NEW w \in Workers, AgentDeletes(w) PROVE Out'
  <2>1. attempt'[w].load = attempt[w].load /\ graph'[attempt[w].load] = {}
    BY <1>0, <1>1, <1>13 DEF AgentDeletes, End, Attempts
  <2> QED
    BY <2>1 DEF Out
<1>14. ASSUME NEW w \in Workers, NEW d, TextGone(w, d) PROVE Out'
  <2>1. /\ attempt'[w].event = attempt[w].event /\ attempt'[w].load = attempt[w].load /\ attempt[w].step # "idle"
        /\ UNCHANGED graph
    BY <1>0, <1>14 DEF TextGone, Attempts
  <2> QED
    BY <1>2, <2>1
<1>15. ASSUME NEW w \in Workers, NEW heldSets, BudgetStops(w, heldSets) PROVE Out'
  <2>1. /\ attempt'[w].event = attempt[w].event /\ attempt'[w].load = attempt[w].load /\ attempt[w].step # "idle"
        /\ UNCHANGED graph
    BY <1>0, <1>15 DEF BudgetStops, Attempts
  <2> QED
    BY <1>2, <2>1
<1>16. ASSUME NEW w \in Workers, FinishUnrecorded(w) \/ Crash(w) \/ Finishes(w) PROVE Out'
  <2>1. attempt'[w].step = "idle" /\ UNCHANGED graph
    BY <1>0, <1>16, IdleIs DEF FinishUnrecorded, Crash, Finishes, Finish
  <2> QED
    BY <1>2, <2>1
<1> QED
  BY <1>3, <1>4, <1>5, <1>7, <1>8, <1>9, <1>10, <1>11, <1>12, <1>13, <1>14, <1>15, <1>16 DEF Next, Works, Fails, vars

\* With one worker, a document leaves a load's records with the load, or
\* deleted and out of its graph.  A second worker breaks it: an attempt whose
\* job was cancelled may put the document back before the removal is recorded.
THEOREM DocumentsLeaveOnceOut ==
  ASSUME \A v, w \in Workers : v = w PROVE Spec => LeavesOnlyOnceOut
<1> DEFINE Leaves == \A l \in LoadIds : \A d \in db.members[l] \ db'.members[l] :
             db'.status[l] = "deleted" \/ (db.docStatus[d] = "deleted" /\ d \notin graph[l])
<1>1. Init => Full /\ Out
  <2>1. ASSUME Init PROVE \A w \in Workers : attempt[w].step = "idle"
    BY <2>1, IdleIs DEF Init
  <2> QED
    BY <2>1, FullInit DEF Out
<1>2. Full /\ Out /\ [Next]_vars => Full' /\ Out'
  <2>1. Full /\ [Next]_vars => Full'
    BY NextKeepsFull DEF FullStep
  <2> QED
    BY <2>1, OutStays
<1>3. ASSUME Full, Out, [Next]_vars PROVE Leaves
  <2>1. CASE Quiet(db, db')
    BY <2>1 DEF Quiet
  <2>2. CASE JobEnds
    BY <2>2 DEF JobEnds, EndAgrees, EndMoves
  <2>3. ASSUME NEW w \in Workers, RemovalRecorded(w) PROVE Leaves
    <3> DEFINE a == attempt[w]
    <3>1. Knows(a, db, tables, graph) /\ a.event.doc \notin graph[a.load]
      BY <1>3, <2>3 DEF Full, Remembers, RemovalRecorded, Out
    <3>2. db.docStatus[a.event.doc] = "deleted"
      BY <2>3, <3>1 DEF Knows, KnowsDocuments, RemovalRecorded, Gone
    <3>3. db.members \in [LoadIds -> SUBSET Docs] /\ db'.members = [db.members EXCEPT ![a.load] = @ \ {a.event.doc}]
      BY <1>3, <2>3 DEF RemovalRecorded, RecordRemoval, Full, IInv, TypeOK, Rows
    <3> QED
      BY <3>1, <3>2, <3>3
  <2> QED
    BY <1>3, <2>1, <2>2, <2>3, NextKeepsFull DEF FullStep, StepKind
<1> QED
  BY <1>1, <1>2, <1>3, PTL DEF Spec, LeavesOnlyOnceOut


--------------------------------------------------------------------------------
(* What a transaction keeps due.                                            *)

\* Load l, which serves or is worked on, holds the deleted document d.
Holds(s, l, d) == l \in {s.current, WorkedOn(s)} \ {NoLoad} /\ d \in Removed(s, l)
\* An extract that nobody runs yet takes out what l holds.
Takes(s, l) == s.job.load = l /\ s.job.kind = "extract" /\ s.job.status = "queued"
SameWork(s, t) == t.job.kind = s.job.kind /\ t.job.load = s.job.load
TakesOut(job, l) == job.load = l /\ job.kind \in {"load", "extract"}
Loads(job, l) == job.load = l /\ job.kind = "load"

\* What t holds and does not owe is taken out by a queued extract, or was held
\* and not owed before, by no load's job that s had not.
Carries(s, t) == \A l \in LoadIds, d \in Docs : Holds(t, l, d) /\ ~t.owed =>
  \/ Takes(t, l)
  \/ Holds(s, l, d) /\ ~s.owed /\ (SameWork(s, t) \/ ~Loads(t.job, l))
\* And the job that was to take it out still is.
Keeps(s, t) == \A l \in LoadIds, d \in Docs : Holds(t, l, d) /\ ~t.owed =>
  \/ Takes(t, l)
  \/ Holds(s, l, d) /\ ~s.owed /\ (SameWork(s, t) \/ (~Loads(t.job, l) /\ ~TakesOut(s.job, l)))

\* A load's own job owes what was deleted under it: a document joins a load
\* only while it is uploaded.
LoadJobOwes(s) == s.job.kind = "load" /\ Removed(s, s.job.load) # {} => s.owed

LEMMA KeepsCarries == ASSUME NEW s, NEW t, Keeps(s, t) PROVE Carries(s, t)
BY DEF Keeps, Carries

LEMMA CarriesOwes ==
  ASSUME NEW s \in Rows, NEW t \in Rows, LoadJobOwes(s), Carries(s, t) PROVE LoadJobOwes(t)
<1> SUFFICES ASSUME t.job.kind = "load", NEW d \in Removed(t, t.job.load), ~t.owed PROVE FALSE
  BY DEF LoadJobOwes, Removed, Rows
<1>1. Live(t) /\ t.job.load \in LoadIds
  BY NoJobIs, LiveJobType
<1>2. d \in Docs
  BY <1>1 DEF Removed, Rows
<1>3. Holds(t, t.job.load, d)
  BY <1>1, IdIsNoNone DEF Holds, WorkedOn
<1>4. Holds(s, t.job.load, d) /\ ~s.owed /\ SameWork(s, t)
  BY <1>1, <1>2, <1>3 DEF Carries, Takes, Loads
<1> QED
  BY <1>4 DEF LoadJobOwes, SameWork, Holds

\* With no job live, only the current load holds what is due.
LEMMA HoldsIdle ==
  ASSUME NEW s \in Rows, s.job.kind \in {"none", "delete"}
  PROVE  WorkedOn(s) = NoLoad /\ \A l, d : Holds(s, l, d) => l = s.current /\ d \in Removed(s, l)
BY NoJobIs DEF WorkedOn, Holds

\* Changes that leave the current load and the live job's work alone, and no
\* load another deleted document.
LEMMA SameHolds ==
  ASSUME NEW s \in Rows, NEW t \in Rows, t.current = s.current, SameWork(s, t), s.owed => t.owed,
         \A l \in LoadIds : Removed(t, l) \subseteq Removed(s, l)
  PROVE  Keeps(s, t)
<1>1. WorkedOn(t) = WorkedOn(s)
  BY NoJobIs DEF WorkedOn, SameWork
<1> QED
  BY <1>1 DEF Keeps, Holds

\* Changes that leave no load another deleted document, and then queue.
LEMMA KeepsFrom ==
  ASSUME NEW s, NEW m, NEW t, Keeps(m, t), m.job = s.job, m.owed = s.owed,
         \A l, d : Holds(m, l, d) => Holds(s, l, d)
  PROVE  Keeps(s, t)
BY DEF Keeps, SameWork

LEMMA QueueExtractTakes ==
  ASSUME NEW s \in Rows, ~Live(s), NEW b
  PROVE  \A l, d : Holds(QueueExtract(s, b), l, d) => Takes(QueueExtract(s, b), l)
<1> DEFINE t == QueueExtract(s, b)
<1> SUFFICES ASSUME NEW l, NEW d, Holds(t, l, d) PROVE Takes(t, l)
  OBVIOUS
<1>1. s.job.kind = "none"
  BY NoJobIs
<1>2. CASE t = s
  <2>1. s.current # NoLoad /\ Removed(s, s.current) # {}
    BY <1>1, <1>2, HoldsIdle DEF Holds
  <2>2. t = Queue(s, NewJob("extract", s.current, "documents"))
    BY <2>1 DEF QueueExtract
  <2>3. t.job # s.job
    BY <1>1, <2>2, NewJobIs DEF Queue, Rows
  <2> QED
    BY <1>2, <2>3
<1>3. CASE t = Queue(s, NewJob("extract", s.current, "documents"))
  <2>1. t.job = NewJob("extract", s.current, "documents") /\ t.current = s.current
    BY <1>3 DEF Queue, Rows
  <2> HIDE DEF t
  <2>2. t.job.kind = "extract" /\ t.job.load = s.current /\ t.job.status = "queued"
    BY <2>1, NewJobIs DEF NewJob
  <2>3. l = s.current
    BY <2>1, <2>2 DEF Holds, WorkedOn
  <2> QED
    BY <2>2, <2>3 DEF Takes
<1> QED
  BY <1>2, <1>3 DEF QueueExtract

LEMMA QueueNextDeleteHolds ==
  ASSUME NEW s \in Rows, ~Live(s)
  PROVE  LET t == QueueNextDelete(s)
         IN  t.owed = s.owed /\ t.job.kind \in {"none", "delete"} /\ \A l, d : Holds(t, l, d) => Holds(s, l, d)
<1> DEFINE t == QueueNextDelete(s)
<1>1. s.job.kind = "none"
  BY NoJobIs
<1>2. /\ t.current = s.current /\ t.owed = s.owed /\ t.members = s.members /\ t.docStatus = s.docStatus
      /\ t.job.kind \in {"none", "delete"}
  <2>1. NewJob("delete", Oldest(With(s, "deleting")), "deleting").kind = "delete"
    BY NewJobIs
  <2> QED
    BY <1>1, <2>1 DEF QueueNextDelete, Queue, Rows
<1>3. t \in Rows
  BY QueueNextDeleteType
<1> HIDE DEF t
<1>4. \A l, d : Holds(t, l, d) => l = s.current /\ d \in Removed(s, l)
  BY <1>2, <1>3, HoldsIdle DEF Removed
<1> QED
  BY <1>2, <1>4 DEF Holds, t

\* What is queued at a job's end takes out what is owed.
LEMMA QueueAfterCarries ==
  ASSUME NEW s \in Rows, LoadsAgree(s), ~Live(s), Held(s), NEW b \in BOOLEAN
  PROVE  Keeps(s, QueueAfter(s, b))
<1> DEFINE kept == Retain(s)
           joined == IF s.current # NoLoad THEN Snapshot(kept, s.current) ELSE kept
           queued == QueueExtract(joined, b)
           extract == [queued EXCEPT !.owed = FALSE]
           extracting == IF s.owed THEN extract ELSE kept
           t == QueueAfter(s, b)
<1>0. s.job.kind = "none"
  BY NoJobIs
<1>1. CASE s.deleted
  <2>1. t = QueueNextDelete(s)
    BY <1>1 DEF QueueAfter
  <2> QED
    BY <1>0, <2>1, QueueNextDeleteHolds DEF Keeps, Loads, TakesOut
<1>2. CASE ~s.deleted
  <2>1. /\ kept \in Rows /\ kept.job = s.job /\ kept.owed = s.owed /\ kept.current = s.current
        /\ kept.members = s.members /\ kept.docStatus = s.docStatus
    BY MarkType DEF Retain, Mark, LoadStatuses, Rows
  <2> HIDE DEF kept
  <2>2. ~Live(kept)
    BY <2>1 DEF Live
  <2>3. CASE ~s.owed
    <3>1. t = QueueNextDelete(kept)
      BY <1>2, <2>2, <2>3 DEF QueueAfter, kept
    <3>2. \A l, d : Holds(kept, l, d) => Holds(s, l, d)
      BY <2>1 DEF Holds, WorkedOn, Live, Removed
    <3> QED
      BY <1>0, <2>1, <2>2, <2>3, <3>1, <3>2, QueueNextDeleteHolds DEF Keeps, Loads, TakesOut
  <2>4. CASE s.owed
    <3>1. joined \in Rows /\ ~Live(joined)
      <4>1. CASE s.current = NoLoad
        BY <2>1, <2>2, <4>1
      <4>2. CASE s.current # NoLoad
        <5>1. s.current \in LoadIds
          BY <4>2 DEF Rows
        <5> QED
          BY <2>1, <2>2, <4>2, <5>1, SnapshotType DEF Snapshot, Rows, Live
      <4> QED
        BY <4>1, <4>2
    <3> HIDE DEF joined
    <3>2. queued \in Rows /\ \A l, d : Holds(queued, l, d) => Takes(queued, l)
      BY <3>1, QueueExtractType, QueueExtractTakes
    <3> HIDE DEF queued
    <3>3. extract \in Rows /\ \A l, d : Holds(extract, l, d) => Takes(extract, l)
      <4>1. extract \in Rows
        BY <3>2, FlagType
      <4>2. /\ extract.job = queued.job /\ extract.current = queued.current /\ extract.members = queued.members
            /\ extract.docStatus = queued.docStatus
        BY <3>2 DEF Rows
      <4> HIDE DEF extract
      <4> QED
        BY <3>2, <4>1, <4>2 DEF Holds, WorkedOn, Live, Removed, Takes
    <3>4. CASE Live(extract)
      <4>1. t = extract
        BY <1>2, <2>4, <3>4 DEF QueueAfter, extract, queued, joined, kept
      <4> QED
        BY <3>3, <4>1, ZenonT(60) DEF Keeps
    <3>5. CASE ~Live(extract)
      <4>1. t = QueueNextDelete(extract)
        BY <1>2, <2>4, <3>5 DEF QueueAfter, extract, queued, joined, kept
      <4>2. \A l, d : ~Holds(extract, l, d)
        BY <3>3, <3>5, NoJobIs DEF Takes
      <4> HIDE DEF extract
      <4>3. \A l, d : ~Holds(QueueNextDelete(extract), l, d)
        BY <3>3, <3>5, <4>2, QueueNextDeleteHolds
      <4> QED
        BY <4>1, <4>3 DEF Keeps
    <3> QED
      BY <3>4, <3>5
  <2> QED
    BY <2>3, <2>4
<1> QED
  BY <1>1, <1>2

--------------------------------------------------------------------------------
(* Each transaction keeps it due.                                           *)

\* A new load holds no deleted document, so what is due is the current one's.
LEMMA InsertLoadHolds ==
  ASSUME NEW s \in Rows, LoadsAgree(s), NEW l \in LoadIds, s.status[l] = "none", NEW origin \in {"user", "refresh"},
         NEW refreshes \in LoadIds \cup {NoLoad}, NEW scope \in SUBSET Sets
  PROVE  LET t == InsertLoad(s, l, origin, refreshes, scope)
         IN  /\ t.owed = s.owed
             /\ \A k, d : Holds(t, k, d) => k = s.current /\ d \in Removed(s, k) /\ ~Loads(t.job, k)
<1> DEFINE t == InsertLoad(s, l, origin, refreshes, scope)
           begun == [s EXCEPT !.status[l] = "writing", !.origin[l] = origin, !.refreshes[l] = refreshes,
                              !.scope[l] = scope, !.job = NewJob("load", l, "provisioning")]
           joining == {d \in Docs : begun.docStatus[d] = "uploaded" /\ begun.docSet[d] \in begun.scope[l]}
<1>0. /\ begun.job = NewJob("load", l, "provisioning") /\ begun.owed = s.owed /\ begun.current = s.current
      /\ begun.docStatus = s.docStatus /\ begun.members = s.members /\ begun \in Rows
  BY NewJobType DEF Rows, LoadStatuses, Phases
<1> HIDE DEF begun
<1>1. /\ t.job = NewJob("load", l, "provisioning") /\ t.owed = s.owed /\ t.current = s.current
      /\ t.docStatus = s.docStatus /\ t.members = [s.members EXCEPT ![l] = @ \cup joining]
  BY <1>0 DEF InsertLoad, Snapshot, Rows, begun
<1> HIDE DEF t
<1>2. t.job.kind = "load" /\ t.job.load = l
  BY <1>1, NewJobIs
<1>3. s.members[l] = {}
  BY DEF LoadsAgree, AbsentClear, Absent
<1>4. t.members[l] = joining
  BY <1>1, <1>3 DEF Rows
<1>5. Removed(t, l) = {}
  BY <1>0, <1>1, <1>4 DEF Removed
<1>6. ASSUME NEW k, NEW d, Holds(t, k, d) PROVE k = s.current /\ d \in Removed(s, k) /\ ~Loads(t.job, k)
  <2>1. k # l /\ k = s.current
    BY <1>1, <1>2, <1>5, <1>6 DEF Holds, WorkedOn
  <2>2. k \in LoadIds
    BY <1>6, <2>1 DEF Holds, Rows
  <2>3. Removed(t, k) = Removed(s, k)
    BY <1>1, <2>1, <2>2 DEF Removed, Rows
  <2> QED
    BY <1>2, <1>6, <2>1, <2>3 DEF Holds, Loads
<1> QED
  BY <1>1, <1>6 DEF t

LEMMA FullRefreshCarries ==
  ASSUME NEW s \in Rows, LoadsAgree(s), ~Live(s), NEW l \in LoadIds, s.status[l] = "none", s.current # NoLoad
  PROVE  Keeps(s, FullRefresh(s, l))
<1>1. s.current \in LoadIds /\ s.scope[s.current] \in SUBSET Sets
  BY DEF Rows
<1> DEFINE t == FullRefresh(s, l)
<1>2. t.owed = s.owed /\ \A k, d : Holds(t, k, d) => k = s.current /\ d \in Removed(s, k) /\ ~Loads(t.job, k)
  BY <1>1, InsertLoadHolds DEF FullRefresh
<1> HIDE DEF t
<1>3. \A k : ~TakesOut(s.job, k)
  BY NoJobIs DEF TakesOut
<1>4. \A k, d : Holds(t, k, d) => Holds(s, k, d)
  BY <1>2 DEF Holds
<1> QED
  BY <1>2, <1>3, <1>4 DEF Keeps, t

\* A preempted job took out nothing that is due: a load's own job owes it.
LEMMA UserLoadKeeps ==
  ASSUME NEW s \in Rows, Agree(s), LoadJobOwes(s), ~s.deleted, GivesWay(s), NEW l \in LoadIds, s.status[l] = "none",
         NEW scope \in Scopes
  PROVE  Keeps(s, UserLoad(s, l, scope))
<1> DEFINE m == Preempt(s)
           t == InsertLoad(m, l, "user", NoLoad, scope)
<1>1. m \in Rows /\ LoadsAgree(m) /\ scope \in SUBSET Sets
  BY RowsAssumption, PreemptType, PreemptAgrees
<1>2. m.status[l] = "none" /\ m.current = s.current /\ m.owed = s.owed /\ m.members = s.members /\ m.docStatus = s.docStatus
  BY DEF Preempt, CancelJob, Mark, Rows
<1> HIDE DEF m
<1>3. t.owed = m.owed /\ \A k, d : Holds(t, k, d) => k = m.current /\ d \in Removed(m, k) /\ ~Loads(t.job, k)
  BY <1>1, <1>2, InsertLoadHolds
<1>4. UserLoad(s, l, scope) = t
  BY DEF UserLoad, m
<1> HIDE DEF t
<1>5. ASSUME NEW k \in LoadIds, NEW d \in Docs, Holds(t, k, d), ~t.owed PROVE Holds(s, k, d) /\ ~TakesOut(s.job, k)
  <2>1. Holds(s, k, d) /\ ~s.owed /\ d \in Removed(s, k)
    BY <1>2, <1>3, <1>5 DEF Holds, Removed
  <2>2. ~Live(s) \/ s.job.kind \in {"delete", "apply", "load"}
    BY DEF GivesWay, IsRefreshJob
  <2> QED
    BY <2>1, <2>2, NoJobIs DEF LoadJobOwes, TakesOut
<1> QED
  BY <1>2, <1>3, <1>4, <1>5 DEF Keeps

\* Making another load current under a live job is what may leave its removals undue.
Repoints(s, t) == t.current # s.current /\ t.status = s.status
Dues(s, t) == LoadJobOwes(t) /\ (Keeps(s, t) \/ Repoints(s, t))

LEMMA KeepsDues == ASSUME NEW s \in Rows, NEW t \in Rows, LoadJobOwes(s), Keeps(s, t) PROVE Dues(s, t)
BY KeepsCarries, CarriesOwes DEF Dues

LEMMA SetCurrentLoadDues ==
  ASSUME NEW s \in Rows, LoadJobOwes(s), NEW l \in LoadIds, NEW b \in BOOLEAN
  PROVE  Dues(s, SetCurrentLoad(s, l, b))
<1> DEFINE pointed == [s EXCEPT !.current = l]
           moved == Snapshot(pointed, l)
           owed == moved.owed \/ Waiting(moved, l) # {}
           later == [moved EXCEPT !.owed = owed]
           t == SetCurrentLoad(s, l, b)
<1>1. /\ pointed \in Rows /\ pointed.current = l /\ pointed.status = s.status /\ pointed.job = s.job
      /\ pointed.owed = s.owed /\ pointed.members = s.members /\ pointed.docStatus = s.docStatus
  BY DEF Rows
<1> HIDE DEF pointed
<1>2. moved \in Rows /\ moved.job = s.job /\ moved.status = s.status /\ moved.current = l /\ moved.owed = s.owed
  BY <1>1, SnapshotType, ZenonT(60) DEF Snapshot, Rows
<1>3. \A k \in LoadIds : Removed(moved, k) = Removed(s, k)
  BY <1>1 DEF Snapshot, Removed, Rows
<1>4. owed \in BOOLEAN /\ (s.owed => owed)
  BY <1>2
<1> HIDE DEF moved, owed
<1>5. CASE Live(s)
  <2>1. t = later
    BY <1>5, Zenon DEF SetCurrentLoad, moved, pointed, owed
  <2>2. /\ later \in Rows /\ later.job = s.job /\ later.status = s.status /\ later.current = l /\ later.owed = owed
        /\ \A k \in LoadIds : Removed(later, k) = Removed(s, k)
    BY <1>2, <1>3, <1>4 DEF Rows, Removed
  <2> HIDE DEF later
  <2>3. SameWork(s, later) /\ LoadJobOwes(later)
    BY <1>4, <1>5, <2>2, LiveJobType DEF SameWork, LoadJobOwes
  <2>4. CASE l = s.current
    BY <1>4, <2>1, <2>2, <2>3, <2>4, SameHolds DEF Dues
  <2>5. CASE l # s.current
    BY <2>1, <2>2, <2>3, <2>5 DEF Dues, Repoints
  <2> QED
    BY <2>4, <2>5
<1>6. CASE ~Live(s)
  <2>1. t = QueueExtract(moved, b)
    BY <1>6, Zenon DEF SetCurrentLoad, moved, pointed
  <2>2. ~Live(moved)
    BY <1>2, <1>6 DEF Live
  <2> HIDE DEF t
  <2>3. t \in Rows /\ Keeps(s, t)
    BY <1>2, <2>1, <2>2, QueueExtractTakes, QueueExtractType DEF Keeps
  <2> QED
    BY <2>3, KeepsDues DEF t
<1> QED
  BY <1>5, <1>6

\* With no job live, the next delete may be queued.
LEMMA NextDeleteKeeps ==
  ASSUME NEW s \in Rows, NEW m \in Rows, ~Live(s), m.job = s.job, m.owed = s.owed,
         \A l, d : Holds(m, l, d) => Holds(s, l, d)
  PROVE  Keeps(s, QueueNextDelete(m))
<1>1. ~Live(m)
  BY DEF Live
<1> DEFINE t == QueueNextDelete(m)
<1>2. t.owed = s.owed /\ t.job.kind \in {"none", "delete"} /\ \A l, d : Holds(t, l, d) => Holds(s, l, d)
  BY <1>1, QueueNextDeleteHolds
<1> HIDE DEF t
<1> QED
  BY <1>2, NoJobIs DEF Keeps, Loads, TakesOut, t

LEMMA MarkHolds ==
  ASSUME NEW s \in Rows, NEW L, NEW st \in LoadStatuses
  PROVE  LET t == Mark(s, L, st)
         IN  /\ t \in Rows /\ t.job = s.job /\ t.owed = s.owed /\ t.current = s.current /\ WorkedOn(t) = WorkedOn(s)
             /\ \A l : Removed(t, l) = Removed(s, l)
             /\ \A l, d : Holds(t, l, d) <=> Holds(s, l, d)
<1> DEFINE t == Mark(s, L, st)
<1>1. /\ t \in Rows /\ t.job = s.job /\ t.owed = s.owed /\ t.current = s.current /\ t.members = s.members
      /\ t.docStatus = s.docStatus
  BY MarkType DEF Mark, Rows
<1> HIDE DEF t
<1>2. WorkedOn(t) = WorkedOn(s) /\ \A l : Removed(t, l) = Removed(s, l)
  BY <1>1 DEF WorkedOn, Live, Removed
<1> QED
  BY <1>1, <1>2 DEF Holds, t

LEMMA DeletesKeep ==
  ASSUME NEW s \in Rows
  PROVE  /\ \A l \in LoadIds : Keeps(s, DeleteOneLoad(s, l))
         /\ ~Live(s) => Keeps(s, ResumeDrain(s))
         /\ Keeps(s, DeleteWholeOntology(s))
<1>0. "deleting" \in LoadStatuses
  BY DEF LoadStatuses
<1>1. ASSUME NEW l \in LoadIds PROVE Keeps(s, DeleteOneLoad(s, l))
  <2> DEFINE m == Mark(s, {l}, "deleting")
  <2>1. /\ m \in Rows /\ m.job = s.job /\ m.owed = s.owed /\ m.current = s.current
        /\ \A k : Removed(m, k) = Removed(s, k)
        /\ \A k, d : Holds(m, k, d) <=> Holds(s, k, d)
    BY <1>0, MarkHolds
  <2> HIDE DEF m
  <2>2. CASE Live(s)
    <3>1. Keeps(s, m)
      BY <2>1, SameHolds DEF SameWork
    <3> QED
      BY <2>2, <3>1 DEF DeleteOneLoad, m
  <2>3. CASE ~Live(s)
    BY <2>1, <2>3, NextDeleteKeeps DEF DeleteOneLoad, m
  <2> QED
    BY <2>2, <2>3
<1>2. ASSUME ~Live(s) PROVE Keeps(s, ResumeDrain(s))
  BY <1>0, <1>2, MarkHolds, NextDeleteKeeps DEF ResumeDrain
<1>3. Keeps(s, DeleteWholeOntology(s))
  <2> DEFINE left == {l \in LoadIds : s.status[l] \notin {"none", "deleting", "deleted"}}
             cancelled == [CancelJob(Mark(s, left, "deleting")) EXCEPT !.deleted = TRUE, !.current = NoLoad, !.owed = FALSE]
  <2>1. CancelJob(Mark(s, left, "deleting")) \in Rows /\ CancelJob(Mark(s, left, "deleting")).job = NoJob
    BY <1>0, MarkType, CancelType, JobKept
  <2> HIDE DEF left
  <2>2. cancelled \in Rows /\ cancelled.job = NoJob /\ cancelled.current = NoLoad
    BY <2>1 DEF Rows
  <2> HIDE DEF cancelled
  <2>3. ~Live(cancelled) /\ \A l, d : ~Holds(cancelled, l, d)
    BY <2>2 DEF Live, Holds, WorkedOn
  <2>4. \A l, d : ~Holds(QueueNextDelete(cancelled), l, d)
    BY <2>2, <2>3, QueueNextDeleteHolds
  <2>5. DeleteWholeOntology(s) = QueueNextDelete(cancelled)
    BY DEF DeleteWholeOntology, left, cancelled
  <2> QED
    BY <2>4, <2>5 DEF Keeps
<1> QED
  BY <1>1, <1>2, <1>3

\* An apply queued in place works on the current load.
LEMMA QueueApplyKeeps ==
  ASSUME NEW s \in Rows, ~Live(s), s.current # NoLoad
  PROVE  Keeps(s, Queue(s, NewJob("apply", s.current, "provisioning")))
<1> DEFINE t == Queue(s, NewJob("apply", s.current, "provisioning"))
<1>1. /\ t.job.kind = "apply" /\ t.job.load = s.current /\ t.owed = s.owed /\ t.current = s.current
      /\ t.members = s.members /\ t.docStatus = s.docStatus
  BY NewJobIs DEF Queue, Rows
<1> HIDE DEF t
<1>2. \A l, d : Holds(t, l, d) => Holds(s, l, d)
  BY <1>1 DEF Holds, WorkedOn, Removed
<1> QED
  BY <1>1, <1>2, NoJobIs DEF Keeps, Loads, TakesOut, t

LEMMA FanOutKeeps ==
  ASSUME NEW s \in Rows, NEW d \in Docs, s.docStatus[d] = "uploaded", NEW canWrite, NEW b \in BOOLEAN
  PROVE  Keeps(s, FanOut(s, d, canWrite, b))
<1> DEFINE first == IF WorkedOn(s) # NoLoad THEN WorkedOn(s) ELSE s.current
           reads(l) == l # NoLoad /\ s.docSet[d] \in s.scope[l]
           joined == IF reads(first) THEN [s EXCEPT !.members[first] = @ \cup {d}] ELSE s
           t == FanOut(s, d, canWrite, b)
<1>1. first \in LoadIds \cup {NoLoad}
  BY LiveJobType DEF WorkedOn, Rows
<1>2. /\ joined \in Rows /\ joined.job = s.job /\ joined.owed = s.owed /\ joined.current = s.current
      /\ joined.docStatus = s.docStatus
      /\ \A l \in LoadIds : joined.members[l] \subseteq s.members[l] \cup {d}
  BY <1>1, ZenonT(60) DEF Rows
<1> HIDE DEF joined
<1>3. \A l \in LoadIds : Removed(joined, l) \subseteq Removed(s, l)
  BY <1>2 DEF Removed
<1>4. Keeps(s, s) /\ Keeps(s, joined)
  BY <1>2, <1>3, SameHolds DEF SameWork
<1>5. Keeps(s, [joined EXCEPT !.owed = TRUE])
  BY <1>2 DEF Keeps, Rows
<1>6. ~Live(s) => Keeps(s, QueueExtract(joined, b))
  BY <1>2, QueueExtractTakes DEF Keeps, Live
<1>7. \/ t = s \/ t = joined \/ t = [joined EXCEPT !.owed = TRUE]
      \/ ~Live(s) /\ t = QueueExtract(joined, b)
  BY Zenon DEF FanOut, joined
<1> QED
  BY <1>4, <1>5, <1>6, <1>7

LEMMA RemoveDocumentKeeps ==
  ASSUME NEW s \in Rows, LoadsAgree(s), NEW d \in Docs PROVE Keeps(s, RemoveDocument(s, d))
<1> DEFINE gone == [s EXCEPT !.docStatus[d] = "deleted"]
           holding == {l \in {WorkedOn(gone), gone.current} \ {NoLoad} : Removed(gone, l) # {}}
           t == RemoveDocument(s, d)
<1>1. gone \in Rows /\ gone.job = s.job /\ gone.current = s.current /\ gone.deleted = s.deleted
  BY DEF Rows
<1> HIDE DEF gone
<1>2. ASSUME gone.deleted \/ holding = {} PROVE \A l, e : ~Holds(gone, l, e)
  <2>1. CASE gone.deleted
    BY <1>1, <2>1, NoJobIs DEF LoadsAgree, Drained, Holds, WorkedOn
  <2>2. CASE holding = {}
    BY <2>2 DEF Holds
  <2> QED
    BY <1>2, <2>1, <2>2
<1>3. [gone EXCEPT !.owed = TRUE].owed
  BY <1>1 DEF Rows
<1>4. ~Live(gone) => \A l, e : Holds(QueueExtract(gone, FALSE), l, e) => Takes(QueueExtract(gone, FALSE), l)
  BY <1>1, QueueExtractTakes
<1>5. \/ (gone.deleted \/ holding = {}) /\ t = gone
      \/ t = [gone EXCEPT !.owed = TRUE]
      \/ ~Live(gone) /\ t = QueueExtract(gone, FALSE)
  BY Zenon DEF RemoveDocument, OweRemovals, gone
<1> HIDE DEF holding
<1> QED
  BY <1>2, <1>3, <1>4, <1>5 DEF Keeps

\* A job's end changes which load is current, or empties the one it deleted.
LEMMA EndWorkHolds ==
  ASSUME NEW s \in Rows, Live(s), NEW outcome \in Ends, NEW heldSets
  PROVE  LET t == EndWork(s, outcome, heldSets)
         IN  /\ t.job = s.job /\ t.owed = s.owed /\ t.docStatus = s.docStatus
             /\ t.current = s.current \/ (s.job.kind = "load" /\ t.current = s.job.load)
             /\ \A l \in LoadIds : Removed(t, l) \subseteq Removed(s, l)
<1> DEFINE l == s.job.load
           t == EndWork(s, outcome, heldSets)
           Same(r) == r.job = s.job /\ r.owed = s.owed /\ r.docStatus = s.docStatus /\ r.members = s.members
<1>0. l \in LoadIds
  BY LiveJobType
<1>1. \A L, st : Same(Mark(s, L, st)) /\ Mark(s, L, st).current = s.current
  BY DEF Mark, Rows
<1>2. CASE s.job.kind = "load"
  <2> DEFINE ended == Mark(s, {l}, LoadEnd[outcome])
  <2>1. LoadEnd[outcome] \in LoadStatuses
    BY DEF Ends, LoadEnd, LoadStatuses, Deletable
  <2>2. ended \in Rows /\ Same(ended) /\ ended.current = s.current
    BY <1>1, <2>1, MarkType
  <2> HIDE DEF ended
  <2>3. Same(MakeCurrent(ended, l)) /\ MakeCurrent(ended, l).current = l
    BY <2>2 DEF MakeCurrent, Mark, Rows
  <2>4. t \in {s, ended, Mark(s, {l}, "deleting"), MakeCurrent(ended, l)}
    BY <1>2 DEF EndWork, EndLoad, ended
  <2> QED
    BY <1>1, <1>2, <2>2, <2>3, <2>4 DEF Removed
<1>3. CASE s.job.kind = "delete"
  <2> DEFINE m == Mark(s, {l} \cap With(s, "deleting"), "deleted")
             cleared == [m EXCEPT !.members[l] = {}, !.extraction[l] = [d \in Docs |-> "none"]]
  <2>1. m \in Rows /\ Same(m) /\ m.current = s.current
    BY <1>1, MarkType DEF LoadStatuses
  <2> HIDE DEF m
  <2>2. /\ cleared.job = s.job /\ cleared.owed = s.owed /\ cleared.docStatus = s.docStatus /\ cleared.current = s.current
        /\ \A k \in LoadIds : cleared.members[k] \subseteq s.members[k]
    BY <2>1 DEF Rows
  <2>3. t \in {cleared, Mark(s, {l} \cap With(s, "deleting"), "delete_failed")}
    BY <1>3 DEF EndWork, EndDelete, m
  <2> HIDE DEF cleared
  <2> QED
    BY <1>1, <2>2, <2>3 DEF Removed
<1>4. CASE s.job.kind \notin {"load", "delete"}
  BY <1>4 DEF EndWork
<1> QED
  BY <1>2, <1>3, <1>4

\* What a job's end leaves due is taken out next, or was due before: it was not
\* in the hands of the attempt that ended.
LEMMA FinishEndCarries ==
  ASSUME NEW s \in Rows, Agree(s), Live(s), NEW outcome \in Ends, NEW ingestDone, NEW heldSets, NEW b \in BOOLEAN, NEW old,
         NEW refreshId, s.job.kind = "apply" => refreshId \in LoadIds /\ s.status[refreshId] = "none"
  PROVE  Carries(s, FinishEnd(s, outcome, ingestDone, heldSets, b, old, refreshId))
<1> DEFINE l == s.job.load
           worked == EndWork(s, outcome, heldSets)
           ended == CancelJob(worked)
           again == Queue(worked, NewJob(s.job.kind, l, "documents"))
           merges == outcome = "succeeded" /\ s.job.kind # "delete" /\ worked.current = l
           applied == s.job.kind = "apply" /\ ~s.deleted /\ s.current = l
           t == FinishEnd(s, outcome, ingestDone, heldSets, b, old, refreshId)
<1>1. /\ worked.job = s.job /\ worked.owed = s.owed
      /\ worked.current = s.current \/ (s.job.kind = "load" /\ worked.current = l)
      /\ \A k \in LoadIds : Removed(worked, k) \subseteq Removed(s, k)
  BY EndWorkHolds
<1>2. worked \in Rows /\ ended \in Rows /\ LoadsAgree(ended) /\ worked.held
  BY EndWorkType, CancelType, EndWorkMoves
<1>3. s.job.kind \in {"load", "extract", "apply", "delete"} /\ l \in LoadIds /\ l # NoLoad
  BY LiveJobType, IdIsNoNone DEF Jobs
<1>4. worked.job.kind # "apply" \/ worked = s
  BY <1>1 DEF EndWork
<1> HIDE DEF worked
<1>5. /\ ended.job = NoJob /\ ended.owed = s.owed /\ ended.current = worked.current /\ ~Live(ended) /\ ended.held
      /\ ended.status = worked.status
      /\ \A k : Removed(ended, k) = Removed(worked, k)
  BY <1>1, <1>2 DEF CancelJob, Rows, Live, Removed
<1> HIDE DEF ended
<1>6. ASSUME NEW k \in LoadIds, NEW d, Holds(ended, k, d) PROVE Holds(s, k, d)
  BY <1>1, <1>3, <1>5, <1>6 DEF Holds, WorkedOn
<1>7. ASSUME NEW r, Keeps(ended, r) PROVE Carries(s, r)
  <2>1. ~SameWork(ended, r) \/ \A k : ~Loads(r.job, k)
    BY <1>5 DEF SameWork, Loads, NoJob
  <2> QED
    BY <1>5, <1>6, <1>7, <2>1 DEF Keeps, Carries
<1>8. ASSUME merges PROVE Carries(s, again)
  <2>1. /\ again.job.kind = s.job.kind /\ again.job.load = l /\ again.owed = s.owed /\ again.current = l
        /\ \A k : Removed(again, k) = Removed(worked, k)
    BY <1>1, <1>2, <1>3, <1>8, NewJobIs DEF Queue, Rows, Removed
  <2> HIDE DEF again
  <2>2. WorkedOn(s) = l
    BY <1>8 DEF WorkedOn
  <2>3. \A k \in LoadIds, d \in Docs : Holds(again, k, d) => Holds(s, k, d)
    BY <1>1, <1>3, <2>1, <2>2 DEF Holds, WorkedOn
  <2> QED
    BY <2>1, <2>3 DEF Carries, SameWork
<1>9. ASSUME applied PROVE Carries(s, FullRefresh(ended, refreshId))
  <2>1. worked = s
    BY <1>1, <1>4, <1>9
  <2>2. ended.status[refreshId] = "none" /\ refreshId \in LoadIds /\ ended.current # NoLoad
    BY <1>3, <1>5, <1>9, <2>1
  <2> QED
    BY <1>2, <1>5, <1>7, <2>2, FullRefreshCarries
<1>10. Carries(s, QueueAfter(ended, b))
  BY <1>2, <1>5, <1>7, QueueAfterCarries DEF Held
<1>11. \/ merges /\ t = again
       \/ applied /\ t = FullRefresh(ended, refreshId)
       \/ t = QueueAfter(ended, b)
  BY Zenon DEF FinishEnd, worked, ended
<1> QED
  BY <1>8, <1>9, <1>10, <1>11

--------------------------------------------------------------------------------
(* The inductive invariant, and what a step keeps due.                      *)

\* An attempt that has begun to extract, or that ends well, has nothing left to
\* take out; only a sent document has an event, and only an end an outcome.
Sends(a) ==
  /\ a.step # "sending" => a.event = NoEvent
  /\ a.step # "ended" => a.outcome = "none"
  /\ a.event.result \in {"extracted", "retryable", "failed"} => a.removed = {}
  /\ a.outcome \in {"succeeded", "budget_exhausted"} => a.removed = {}

Due == Full /\ LoadJobOwes(db) /\ \A w \in Workers : Sends(attempt[w])

StaysScheduled == \A l \in LoadIds, d \in Docs : Forgets(l, d)' =>
  Forgets(l, d) \/ JobFails \/ Repointed \/ \E w \in Workers : RemovalUnrecorded(w)
DueStep == LoadJobOwes(db') /\ (\A w \in Workers : Sends(attempt'[w])) /\ StaysScheduled

\* An attempt that holds the job has listed what it takes out, without d.
Lists(w, d) == Owned(w) /\ HasListed(w) /\ d \notin attempt[w].removed

LEMMA ForgetsStill ==
  ASSUME Full, Full', Keeps(db, db'), NEW l \in LoadIds, NEW d \in Docs, Forgets(l, d)',
         TakesOut(db'.job, l) => \A w \in Workers : Lists(w, d)' => Lists(w, d)
  PROVE  Forgets(l, d)
<1>1. Holds(db', l, d) /\ ~db'.owed /\ ~InHand(l, d)'
  BY DEF Forgets, Holds
<1>2. ~Takes(db', l)
  BY <1>1 DEF Takes, InHand, Owned
<1>3. Holds(db, l, d) /\ ~db.owed /\ (SameWork(db, db') \/ ~TakesOut(db.job, l))
  BY <1>1, <1>2 DEF Keeps
<1>4. ~InHand(l, d)
  <2>1. CASE ~TakesOut(db.job, l)
    BY <2>1 DEF TakesOut, InHand
  <2>2. CASE TakesOut(db.job, l)
    <3>1. TakesOut(db'.job, l)
      BY <1>3, <2>2 DEF SameWork, TakesOut
    <3>2. PICK w \in Workers : Lists(w, d)'
      BY <1>1, <3>1 DEF InHand, TakesOut, Lists
    <3> QED
      BY <3>1, <3>2 DEF InHand, Lists
  <2> QED
    BY <2>1, <2>2
<1> QED
  BY <1>3, <1>4 DEF Forgets, Holds

\* A request changes the rows alone.
LEMMA RequestDue ==
  ASSUME Due, Full', Request, Unstarted(db, db'), Dues(db, db') PROVE DueStep
<1>1. attempt' = attempt
  BY DEF Request
<1>2. \A w \in Workers, d \in Docs : Lists(w, d)' => Lists(w, d)
  BY <1>1 DEF Lists, Owned, HasListed, Unstarted
<1>3. Repoints(db, db') => Repointed
  BY DEF Repoints, Repointed
<1>4. StaysScheduled
  BY <1>2, <1>3, ForgetsStill DEF Due, Dues, StaysScheduled
<1> QED
  BY <1>1, <1>4 DEF Due, DueStep, Dues

\* A step of w's attempt, which becomes a.
LEMMA AttemptDue ==
  ASSUME Due, Full', NEW w \in Workers, NEW a, attempt' = [attempt EXCEPT ![w] = a], Keeps(db, db'), Sends(a),
         \A v \in Workers : v # w /\ Owned(v)' => Owned(v),
         \A l \in LoadIds, d \in Docs : TakesOut(db'.job, l) /\ Holds(db', l, d) /\ Lists(w, d)' => Lists(w, d)
  PROVE  DueStep
<1>1. db \in Rows /\ db' \in Rows /\ attempt \in [Workers -> Attempts]
  BY DEF Due, Full, IInv, TypeOK
<1>2. LoadJobOwes(db')
  BY <1>1, KeepsCarries, CarriesOwes DEF Due
<1>3. \A v \in Workers : Sends(attempt'[v])
  BY <1>1 DEF Due
<1>4. ASSUME NEW l \in LoadIds, NEW d \in Docs, Forgets(l, d)' PROVE Forgets(l, d)
  <2>1. Holds(db', l, d)
    BY <1>4 DEF Forgets, Holds
  <2>2. ASSUME NEW v \in Workers, v # w, Lists(v, d)' PROVE Lists(v, d)
    BY <1>1, <2>2 DEF Lists, HasListed
  <2> QED
    BY <1>4, <2>1, <2>2, ForgetsStill DEF Due
<1> QED
  BY <1>2, <1>3, <1>4 DEF DueStep, StaysScheduled

LEMMA KeepsNot == ASSUME NEW s \in Rows PROVE Keeps(s, s)
BY SameHolds DEF SameWork

\* A step of w's attempt that leaves the rows and what it takes out alone.
LEMMA StepDue ==
  ASSUME Due, Full', NEW w \in Workers, NEW a, attempt' = [attempt EXCEPT ![w] = a], UNCHANGED db, Sends(a),
         \/ a.step # "sending" /\ a.outcome \notin {"succeeded", "budget_exhausted"}
         \/ a.removed = attempt[w].removed /\ HasListed(w)
  PROVE  DueStep
<1>1. db \in Rows /\ attempt \in [Workers -> Attempts]
  BY DEF Due, Full, IInv, TypeOK
<1>2. \A v \in Workers : Owned(v)' => Owned(v)
  BY DEF Owned
<1>3. \A d : Lists(w, d)' => Lists(w, d)
  BY <1>1, <1>2 DEF Lists, HasListed
<1> QED
  BY <1>1, <1>2, <1>3, KeepsNot, AttemptDue

LEMMA RequestsDue == ASSUME Due, Full', People \/ Syncs \/ Documents PROVE DueStep
<1>0. db \in Rows /\ db' \in Rows /\ Agree(db) /\ LoadsAgree(db) /\ LoadJobOwes(db)
  BY DEF Due, Full, IInv, TypeOK, Agree
<1>1. ASSUME NEW s \in Rows, Keeps(db, s), Unstarted(db, s), Request, db'.job = s.job, db'.owed = s.owed,
             db'.current = s.current, db'.members = s.members, db'.docStatus = s.docStatus, db'.status = s.status
      PROVE  DueStep
  <2>1. \A l : Removed(db', l) = Removed(s, l)
    BY <1>1 DEF Removed
  <2>2. \A l, d : (Holds(db', l, d) <=> Holds(s, l, d)) /\ (Takes(db', l) <=> Takes(s, l))
    BY <1>1, <2>1 DEF Holds, WorkedOn, Live, Takes
  <2>3. Keeps(db, db')
    BY <1>1, <2>2 DEF Keeps, SameWork
  <2>4. Unstarted(db, db')
    BY <1>1 DEF Unstarted, With
  <2> QED
    BY <1>0, <1>1, <2>3, <2>4, KeepsDues, RequestDue
<1>2. ASSUME NEW l \in LoadIds, NEW scope \in Scopes, CreateLoad(l, scope) PROVE DueStep
  <2>1. db.status[l] = "none" /\ ~db.deleted /\ GivesWay(db) /\ db' = UserLoad(db, l, scope) /\ Request
    BY <1>2 DEF CreateLoad, Fresh, With
  <2> QED
    BY <1>0, <1>1, <2>1, UserLoadKeeps, UserLoadUnstarted
<1>3. ASSUME NEW l \in LoadIds, NEW b \in BOOLEAN, SetCurrent(l, b) PROVE DueStep
  BY <1>0, <1>3, SetCurrentLoadDues, SetCurrentUnstarted, RequestDue DEF SetCurrent
<1>4. ASSUME NEW l \in LoadIds, DeleteLoad(l) PROVE DueStep
  BY <1>0, <1>1, <1>4, DeletesKeep, DeleteOneUnstarted DEF DeleteLoad, Deletable
<1>5. CASE DeleteOntology
  BY <1>0, <1>1, <1>5, DeletesKeep, DeleteWholeUnstarted DEF DeleteOntology
<1>6. CASE ResumeOntologyDrain
  BY <1>0, <1>1, <1>6, DeletesKeep, ResumeDrainUnstarted DEF ResumeOntologyDrain
<1>7. ASSUME NEW on \in BOOLEAN, SetAutoRefresh(on) PROVE DueStep
  BY <1>0, <1>1, <1>7, KeepsNot, UnchangedUnstarted DEF SetAutoRefresh, Rows
<1>8. CASE OweRefresh
  BY <1>0, <1>1, <1>8, KeepsNot, UnchangedUnstarted DEF OweRefresh, Rows
<1>9. ASSUME NEW inPlace \in BOOLEAN, NEW l \in LoadIds, QueueRefresh(inPlace, l) PROVE DueStep
  <2>0. ASSUME NEW s \in Rows, Keeps(db, s), Unstarted(db, s), db' = [s EXCEPT !.refreshDue = FALSE] PROVE DueStep
    BY <1>1, <1>9, <2>0 DEF QueueRefresh, Rows
  <2>1. CASE db' = [db EXCEPT !.refreshDue = FALSE]
    BY <1>0, <2>0, <2>1, KeepsNot, UnchangedUnstarted
  <2>2. ASSUME ~Live(db), db.current # NoLoad, l \in Fresh(db), db' = [FullRefresh(db, l) EXCEPT !.refreshDue = FALSE]
        PROVE  DueStep
    <3> DEFINE r == FullRefresh(db, l)
    <3>1. db.status[l] = "none"
      BY <2>2 DEF Fresh, With
    <3>2. r \in Rows /\ Keeps(db, r)
      BY <1>0, <2>2, <3>1, FullRefreshCarries, FullRefreshType
    <3>3. Unstarted(db, r)
      <4>1. r.job = NewJob("load", l, "provisioning")
        BY <1>0, FullRefreshUnstarted
      <4> QED
        BY <4>1 DEF Unstarted, NewJob
    <3> QED
      BY <2>0, <2>2, <3>2, <3>3
  <2>3. ASSUME ~Live(db), db.current # NoLoad,
               db' = [Queue(db, NewJob("apply", db.current, "provisioning")) EXCEPT !.refreshDue = FALSE]
        PROVE  DueStep
    <3> DEFINE s == Queue(db, NewJob("apply", db.current, "provisioning"))
    <3>1. s \in Rows /\ Keeps(db, s)
      <4>1. db.current \in LoadIds
        BY <1>0, <2>3 DEF Rows
      <4> QED
        BY <1>0, <2>3, <4>1, NewJobType, QueueType, QueueApplyKeeps DEF Phases
    <3>2. s.job = NewJob("apply", db.current, "provisioning")
      BY <1>0 DEF Queue, Rows
    <3>3. /\ db'.job = s.job /\ db'.owed = s.owed /\ db'.current = s.current /\ db'.members = s.members
          /\ db'.docStatus = s.docStatus
      BY <2>3, <3>1 DEF Rows
    <3> HIDE DEF s
    <3>4. \A k, d : (Holds(db', k, d) <=> Holds(s, k, d)) /\ (Takes(db', k) <=> Takes(s, k))
      BY <3>3 DEF Holds, WorkedOn, Live, Removed, Takes
    <3>5. Keeps(db, db') /\ attempt' = attempt
      BY <1>9, <3>1, <3>3, <3>4 DEF Keeps, SameWork, QueueRefresh, Request
    <3>6. \A w \in Workers : ~Owned(w)'
      BY <3>2, <3>3 DEF Owned, NewJob
    <3>7. StaysScheduled
      BY <3>5, <3>6, ForgetsStill DEF Due, StaysScheduled, Lists
    <3> QED
      BY <1>0, <3>5, <3>7, KeepsDues DEF Due, DueStep, Dues
  <2>4. \/ db' = [db EXCEPT !.refreshDue = FALSE]
        \/ /\ ~Live(db) /\ db.current # NoLoad /\ l \in Fresh(db)
           /\ \/ db' = [FullRefresh(db, l) EXCEPT !.refreshDue = FALSE]
              \/ db' = [Queue(db, NewJob("apply", db.current, "provisioning")) EXCEPT !.refreshDue = FALSE]
    BY <1>9, Zenon DEF QueueRefresh
  <2> QED
    BY <2>1, <2>2, <2>3, <2>4
<1>10. ASSUME NEW s \in Rows, s.job = db.job, s.owed = db.owed, s.current = db.current, s.status = db.status,
              \A l \in LoadIds : Removed(s, l) \subseteq Removed(db, l),
              NEW d \in Docs, NEW canWrite \in BOOLEAN, NEW b \in BOOLEAN, Request,
              db' = s \/ (s.docStatus[d] = "uploaded" /\ db' = FanOut(s, d, canWrite, b))
       PROVE  DueStep
  <2>1. \A l, e : Holds(s, l, e) => Holds(db, l, e)
    <3>1. db.current \in LoadIds \cup {NoLoad} /\ WorkedOn(db) \in LoadIds \cup {NoLoad}
      BY <1>0, LiveJobType DEF Rows, WorkedOn
    <3> QED
      BY <1>10, <3>1 DEF Holds, WorkedOn, Live
  <2>2. Keeps(s, db') /\ Unstarted(s, db')
    BY <1>10, KeepsNot, FanOutKeeps, FanOutUnstarted, UnchangedUnstarted
  <2>3. Keeps(db, db') /\ Unstarted(db, db')
    BY <1>10, <2>1, <2>2, KeepsFrom DEF Unstarted, With
  <2> QED
    BY <1>0, <1>1, <1>10, <2>3
<1>11. ASSUME NEW d \in Docs, NEW canWrite \in BOOLEAN, NEW b \in BOOLEAN, CompleteUpload(d, canWrite, b) PROVE DueStep
  <2> DEFINE s == [db EXCEPT !.docStatus[d] = "uploaded"]
  <2>1. /\ s \in Rows /\ s.job = db.job /\ s.owed = db.owed /\ s.current = db.current /\ s.status = db.status
        /\ s.docStatus[d] = "uploaded"
        /\ \A l \in LoadIds : Removed(s, l) \subseteq Removed(db, l)
    BY <1>0, <1>11, ZenonT(60) DEF CompleteUpload, Rows, Removed
  <2>2. db' = FanOut(s, d, canWrite, b) /\ Request
    BY <1>11 DEF CompleteUpload
  <2> HIDE DEF s
  <2> QED
    BY <1>10, <2>1, <2>2
<1>12. ASSUME NEW d \in Docs, NEW set \in Sets, NEW canWrite \in BOOLEAN, NEW b \in BOOLEAN, MoveDocument(d, set, canWrite, b)
       PROVE  DueStep
  <2> DEFINE s == [db EXCEPT !.docSet[d] = set]
  <2>1. /\ s \in Rows /\ s.job = db.job /\ s.owed = db.owed /\ s.current = db.current /\ s.status = db.status
        /\ s.docStatus = db.docStatus
        /\ \A l \in LoadIds : Removed(s, l) \subseteq Removed(db, l)
    BY <1>0 DEF Rows, Removed
  <2>2. (db' = s \/ (s.docStatus[d] = "uploaded" /\ db' = FanOut(s, d, canWrite, b))) /\ Request
    BY <1>12, <2>1 DEF MoveDocument
  <2> HIDE DEF s
  <2> QED
    BY <1>10, <2>1, <2>2
<1>13. ASSUME NEW d \in Docs, DeleteDocument(d) PROVE DueStep
  BY <1>0, <1>1, <1>13, RemoveDocumentKeeps, RemoveDocumentUnstarted DEF DeleteDocument
<1> QED
  BY <1>2, <1>3, <1>4, <1>5, <1>6, <1>7, <1>8, <1>9, <1>11, <1>12, <1>13 DEF People, Syncs, Documents

--------------------------------------------------------------------------------
(* The steps of an attempt.                                                 *)

LEMMA IdleSends == Sends(Idle) /\ Idle.outcome = "none" /\ Idle.step = "idle" /\ Idle.removed = {}
BY DEF Sends, Idle, NoEvent

\* The live job's row may change, but neither its kind nor its load.
LEMMA JobRowStays ==
  ASSUME db \in Rows, db' \in Rows, SameLoads(db, db'), SameWork(db, db') PROVE Keeps(db, db')
<1>1. \A l : Removed(db', l) = Removed(db, l)
  BY DEF Removed, SameLoads
<1> QED
  BY <1>1, SameHolds DEF SameLoads

LEMMA UpdateDue ==
  ASSUME Due, Full', NEW w \in Workers, NEW phase, NEW a, attempt[w].step # "idle", Update(w, phase, a),
         Sends(a), attempt[w].event = NoEvent,
         \/ a.step # "sending" /\ a.outcome \notin {"succeeded", "budget_exhausted"}
         \/ a.removed = attempt[w].removed /\ HasListed(w)
  PROVE  DueStep
<1>0. db \in Rows /\ db' \in Rows /\ attempt \in [Workers -> Attempts] /\ attempt[w] \in Attempts
  BY DEF Due, Full, IInv, TypeOK
<1>1. CASE ~Owned(w)
  <2> DEFINE ended == [attempt[w] EXCEPT !.step = "ended", !.outcome = "retry"]
  <2>1. attempt' = [attempt EXCEPT ![w] = ended] /\ UNCHANGED db
    BY <1>1, Zenon DEF Update, End
  <2>2. ended.step = "ended" /\ ended.outcome = "retry" /\ ended.event = NoEvent
    BY <1>0 DEF Attempts
  <2> HIDE DEF ended
  <2>3. Sends(ended)
    BY <2>2 DEF Sends, NoEvent
  <2> QED
    BY <2>1, <2>2, <2>3, StepDue
<1>2. CASE Owned(w)
  <2>1. attempt' = [attempt EXCEPT ![w] = a] /\ (db' = db \/ db' = [db EXCEPT !.job.phase = phase])
    BY <1>2 DEF Update
  <2>2. db.job \in Jobs
    BY <1>2, OwnedIs DEF Due
  <2>3. /\ SameLoads(db, db') /\ SameWork(db, db')
        /\ db'.job.status = db.job.status /\ db'.job.owner = db.job.owner
    BY <1>0, <2>1, <2>2 DEF Rows, Jobs, SameLoads, SameWork
  <2>4. \A v \in Workers : Owned(v)' => Owned(v)
    BY <2>3 DEF Owned
  <2>5. \A d : Lists(w, d)' => Lists(w, d)
    BY <1>0, <2>1, <2>4 DEF Lists, HasListed
  <2> QED
    BY <1>0, <2>1, <2>3, <2>4, <2>5, JobRowStays, AttemptDue
<1> QED
  BY <1>1, <1>2

LEMMA ClaimDue == ASSUME Due, Full', NEW w \in Workers, Claim(w) PROVE DueStep
<1>0. db \in Rows /\ db' \in Rows /\ attempt \in [Workers -> Attempts]
  BY DEF Due, Full, IInv, TypeOK
<1> DEFINE giveUp == db.job.attempts >= MaxAttempts
           a == [Idle EXCEPT !.step = IF giveUp THEN "ended" ELSE "begun", !.outcome = IF giveUp THEN "failed" ELSE "none",
                             !.kind = db.job.kind, !.load = db.job.load,
                             !.ingestDone = ~giveUp /\ ~RunsIngest(db.job.phase)]
<1>1. attempt' = [attempt EXCEPT ![w] = a]
  BY DEF Claim
<1>2. db.job \in Jobs
  BY <1>0, LiveJobType DEF Claim, Live, NoJob
<1>3. SameLoads(db, db') /\ SameWork(db, db') /\ db'.job.owner = w
  BY <1>0, <1>2 DEF Claim, Rows, Jobs, SameLoads, SameWork
<1>4. a.step \in {"begun", "ended"} /\ a.outcome \in {"none", "failed"} /\ a.event = NoEvent /\ (a.step # "ended" => a.outcome = "none")
  BY DEF Idle
<1> HIDE DEF a
<1>5. Sends(a) /\ \A d : ~Lists(w, d)'
  BY <1>0, <1>1, <1>4 DEF Sends, Lists, HasListed, NoEvent
<1>6. \A v \in Workers : v # w => ~Owned(v)'
  BY <1>3 DEF Owned
<1> QED
  BY <1>0, <1>1, <1>3, <1>5, <1>6, JobRowStays, AttemptDue

\* A document that was taken out of the graph leaves the load with what the
\* attempt still takes out; nothing is recorded extracted before all are out.
LEMMA RecordDue == ASSUME Due, Full', NEW w \in Workers, Record(w) PROVE DueStep
<1> DEFINE l == attempt[w].load
           d == attempt[w].event.doc
           result == attempt[w].event.result
           fits == Owned(w) /\ (result = "removed" \/ d \in db.members[l])
<1>0. /\ db \in Rows /\ db' \in Rows /\ attempt \in [Workers -> Attempts] /\ attempt[w] \in Attempts
      /\ Sends(attempt[w]) /\ attempt[w].step = "sending" /\ attempt[w].event # NoEvent /\ l \in LoadIds
  BY DEF Due, Full, IInv, TypeOK, AttemptFits, Record
<1>1. CASE ~fits
  <2> DEFINE a == [attempt[w] EXCEPT !.event = NoEvent, !.step = "ended", !.outcome = "retry"]
  <2>1. attempt' = [attempt EXCEPT ![w] = a] /\ UNCHANGED db
    BY <1>0, <1>1 DEF Record
  <2>2. a.event = NoEvent /\ a.step = "ended" /\ a.outcome = "retry"
    BY <1>0 DEF Attempts
  <2> HIDE DEF a
  <2>3. Sends(a)
    BY <2>2 DEF Sends, NoEvent
  <2> QED
    BY <2>1, <2>2, <2>3, StepDue
<1>2. CASE fits
  <2> DEFINE a == [attempt[w] EXCEPT !.event = NoEvent, !.pending = IF result = "removed" THEN @ ELSE @ \ {d},
                                     !.removed = @ \ {d}]
  <2>1. /\ attempt' = [attempt EXCEPT ![w] = a]
        /\ db' = IF result = "removed" THEN RecordRemoval(db, l, d) ELSE RecordExtraction(db, l, d, result)
    BY <1>0, <1>2 DEF Record
  <2>2. /\ a.event = NoEvent /\ a.step = "sending" /\ a.outcome = attempt[w].outcome
        /\ a.removed = attempt[w].removed \ {d}
    BY <1>0 DEF Attempts
  <2> HIDE DEF a
  <2>3. Sends(a)
    BY <1>0, <2>2 DEF Sends, NoEvent
  <2>4. /\ db'.job = db.job /\ db'.current = db.current /\ db'.owed = db.owed /\ db'.docStatus = db.docStatus
        /\ \A k \in LoadIds : db'.members[k] \subseteq db.members[k]
        /\ result = "removed" => d \notin db'.members[l]
    <3>1. CASE result = "removed"
      <4>1. db' = [db EXCEPT !.extraction[l][d] = "none", !.members[l] = @ \ {d}]
        BY <2>1, <3>1 DEF RecordRemoval
      <4> HIDE DEF l, d, result
      <4>2. /\ db'.job = db.job /\ db'.current = db.current /\ db'.owed = db.owed /\ db'.docStatus = db.docStatus
            /\ db'.members = [db.members EXCEPT ![l] = @ \ {d}]
        BY <1>0, <4>1 DEF Rows
      <4>3. db.members \in [LoadIds -> SUBSET Docs]
        BY <1>0 DEF Rows
      <4> QED BY <1>0, <4>2, <4>3
    <3>2. CASE result # "removed"
      <4>1. db' = [db EXCEPT !.extraction[l][d] = result]
        BY <2>1, <3>2 DEF RecordExtraction
      <4> HIDE DEF l, d, result
      <4> QED BY <1>0, <3>2, <4>1 DEF Rows
    <3> QED BY <3>1, <3>2
  <2>5. Keeps(db, db')
    <3>1. \A k \in LoadIds : Removed(db', k) \subseteq Removed(db, k)
      BY <2>4 DEF Removed
    <3> QED
      BY <1>0, <2>4, <3>1, SameHolds DEF SameWork
  <2>6. \A v \in Workers : Owned(v)' => Owned(v)
    BY <2>4 DEF Owned
  <2>7. ASSUME NEW k \in LoadIds, NEW e \in Docs, TakesOut(db'.job, k), Holds(db', k, e), Lists(w, e)'
        PROVE  Lists(w, e)
    <3>1. Owned(w) /\ HasListed(w) /\ e \notin attempt[w].removed \ {d}
      BY <1>0, <2>1, <2>2, <2>6, <2>7 DEF Lists, HasListed
    <3>2. k = l
      BY <1>0, <2>4, <2>7, <3>1 DEF TakesOut, Due, Full, IInv, Fenced
    <3>3. e # d \/ result # "removed"
      BY <2>4, <2>7, <3>2 DEF Holds, Removed
    <3>4. result # "removed" => attempt[w].removed = {}
      BY <1>0 DEF Sends, Attempts, Events, NoEvent
    <3> QED
      BY <3>1, <3>3, <3>4 DEF Lists
  <2> QED
    BY <2>1, <2>3, <2>5, <2>6, <2>7, AttemptDue
<1> QED
  BY <1>1, <1>2

LEMMA WorksDue == ASSUME Due, Full', NEW w \in Workers, Works(w) PROVE DueStep
<1>0. /\ db \in Rows /\ attempt \in [Workers -> Attempts] /\ attempt[w] \in Attempts /\ Sends(attempt[w])
      /\ NoEvent.result = "none"
  BY DEF Due, Full, IInv, TypeOK, NoEvent
<1>1. attempt[w].step # "idle" => attempt[w].load \in LoadIds /\ Knows(attempt[w], db, tables, graph)
  BY DEF Due, Full, IInv, AttemptFits, Remembers
<1>2. CASE StartIngest(w)
  <2> DEFINE a == [attempt[w] EXCEPT !.step = "ingesting"]
  <2>1. a.step = "ingesting" /\ a.event = attempt[w].event /\ a.outcome = attempt[w].outcome
    BY <1>0 DEF Attempts
  <2> HIDE DEF a
  <2>2. Update(w, "ingest", a) /\ attempt[w].step = "begun"
    BY <1>2 DEF StartIngest, a
  <2> QED
    BY <1>0, <2>1, <2>2, UpdateDue DEF Sends
<1>3. CASE StartDelete(w)
  <2> DEFINE a == [attempt[w] EXCEPT !.step = "deleting"]
  <2>1. a.step = "deleting" /\ a.event = attempt[w].event /\ a.outcome = attempt[w].outcome
    BY <1>0 DEF Attempts
  <2> HIDE DEF a
  <2>2. Update(w, "deleting", a) /\ attempt[w].step = "begun"
    BY <1>3 DEF StartDelete, a
  <2> QED
    BY <1>0, <2>1, <2>2, UpdateDue DEF Sends
<1>4. CASE ListPending(w)
  <2> DEFINE a == [attempt[w] EXCEPT !.step = "listed", !.pending = Waiting(db, attempt[w].load)]
  <2>1. a.step = "listed" /\ a.event = attempt[w].event /\ a.outcome = attempt[w].outcome
    BY <1>0 DEF Attempts
  <2> HIDE DEF a
  <2>2. Update(w, "documents", a) /\ attempt[w].step \in {"begun", "ingested"}
    BY <1>4 DEF ListPending, a
  <2> QED
    BY <1>0, <2>1, <2>2, UpdateDue DEF Sends
<1>5. CASE ExtractDone(w)
  <2> DEFINE a == [attempt[w] EXCEPT !.step = "ended", !.outcome = "succeeded"]
  <2>1. /\ a.step = "ended" /\ a.event = attempt[w].event /\ a.removed = attempt[w].removed
    BY <1>0 DEF Attempts
  <2> HIDE DEF a
  <2>2. /\ Update(w, "finishing", a) /\ attempt[w].step = "sending" /\ attempt[w].removed = {}
        /\ attempt[w].event = NoEvent
    BY <1>5 DEF ExtractDone, a
  <2> QED
    BY <1>0, <2>1, <2>2, UpdateDue DEF Sends, HasListed
<1>6. CASE Ingest(w)
  <2> DEFINE a == [attempt[w] EXCEPT !.step = "ingested", !.ingestDone = TRUE]
  <2>1. a.step = "ingested" /\ a.event = attempt[w].event /\ a.outcome = attempt[w].outcome
    BY <1>0 DEF Attempts
  <2>2. attempt' = [attempt EXCEPT ![w] = a] /\ UNCHANGED db /\ attempt[w].step = "ingesting"
    BY <1>0, <1>6 DEF Ingest
  <2> HIDE DEF a
  <2> QED
    BY <1>0, <2>1, <2>2, StepDue DEF Sends
<1>7. CASE ListRemoved(w)
  <2> DEFINE a == [attempt[w] EXCEPT !.step = "sending", !.removed = Removed(db, attempt[w].load)]
  <2>1. /\ a.step = "sending" /\ a.event = attempt[w].event /\ a.outcome = attempt[w].outcome
        /\ a.removed = Removed(db, attempt[w].load)
    BY <1>0 DEF Attempts
  <2>2. attempt' = [attempt EXCEPT ![w] = a] /\ attempt[w].step = "listed" /\ UNCHANGED db
    BY <1>0, <1>7 DEF ListRemoved
  <2> HIDE DEF a
  <2>3. Sends(a)
    BY <1>0, <2>1, <2>2 DEF Sends
  <2>4. ASSUME NEW k \in LoadIds, NEW e \in Docs, TakesOut(db'.job, k), Holds(db', k, e), Lists(w, e)' PROVE FALSE
    <3>1. Owned(w) /\ e \notin Removed(db, attempt[w].load)
      BY <1>0, <2>1, <2>2, <2>4 DEF Lists, Owned
    <3>2. k = attempt[w].load
      BY <2>2, <2>4, <3>1 DEF TakesOut, Due, Full, IInv, Fenced
    <3> QED
      BY <2>2, <2>4, <3>1, <3>2 DEF Holds
  <2> QED
    BY <1>0, <2>2, <2>3, <2>4, KeepsNot, AttemptDue DEF Owned
<1>8. ASSUME NEW d \in Docs, AgentRemoves(w, d) PROVE DueStep
  <2> DEFINE a == [attempt[w] EXCEPT !.event = [doc |-> d, result |-> "removed"]]
  <2>1. /\ a.step = attempt[w].step /\ a.outcome = attempt[w].outcome /\ a.removed = attempt[w].removed
        /\ a.event.result = "removed"
    BY <1>0 DEF Attempts
  <2>2. attempt' = [attempt EXCEPT ![w] = a] /\ UNCHANGED db /\ attempt[w].step = "sending"
    BY <1>0, <1>8 DEF AgentRemoves
  <2> HIDE DEF a
  <2> QED
    BY <1>0, <2>1, <2>2, StepDue DEF Sends, HasListed
<1>9. ASSUME NEW d \in Docs, NEW result \in {"extracted", "retryable", "failed"}, AgentExtracts(w, d, result) PROVE DueStep
  <2> DEFINE a == [attempt[w] EXCEPT !.event = [doc |-> d, result |-> result]]
  <2>1. /\ a.step = attempt[w].step /\ a.outcome = attempt[w].outcome /\ a.removed = attempt[w].removed
    BY <1>0 DEF Attempts
  <2>2. /\ attempt' = [attempt EXCEPT ![w] = a] /\ UNCHANGED db /\ attempt[w].step = "sending"
        /\ attempt[w].removed = {}
    BY <1>0, <1>9 DEF AgentExtracts
  <2> HIDE DEF a
  <2> QED
    BY <1>0, <2>1, <2>2, StepDue DEF Sends, HasListed
<1>10. CASE AgentDeletes(w)
  <2> DEFINE a == [attempt[w] EXCEPT !.step = "ended", !.outcome = "succeeded"]
  <2>1. /\ a.step = "ended" /\ a.event = attempt[w].event /\ a.removed = attempt[w].removed
    BY <1>0 DEF Attempts
  <2>2. attempt' = [attempt EXCEPT ![w] = a] /\ UNCHANGED db /\ attempt[w].step = "deleting"
    BY <1>0, <1>10 DEF AgentDeletes, End
  <2> HIDE DEF a
  <2>3. attempt[w].kind = "delete" /\ attempt[w].removed = {}
    BY <1>1, <2>2 DEF Knows, KnowsTables, KnowsDelete
  <2>4. Sends(a)
    BY <1>0, <2>1, <2>2, <2>3 DEF Sends
  <2>5. ASSUME NEW k \in LoadIds, NEW e \in Docs, TakesOut(db'.job, k), Lists(w, e)' PROVE FALSE
    <3>1. Owned(w)
      BY <2>2, <2>5 DEF Lists, Owned
    <3> QED
      BY <2>2, <2>3, <2>5, <3>1 DEF TakesOut, Due, Full, IInv, Fenced
  <2> QED
    BY <1>0, <2>2, <2>4, <2>5, KeepsNot, AttemptDue DEF Owned
<1> QED
  BY <1>2, <1>3, <1>4, <1>5, <1>6, <1>7, <1>8, <1>9, <1>10, RecordDue DEF Works

LEMMA CrashDue == ASSUME Due, Full', NEW w \in Workers, Crash(w) PROVE DueStep
<1>0. db \in Rows /\ db' \in Rows /\ attempt \in [Workers -> Attempts]
  BY DEF Due, Full, IInv, TypeOK
<1>1. attempt' = [attempt EXCEPT ![w] = Idle]
  BY DEF Crash
<1>2. CASE db.job.owner # w
  <2>1. UNCHANGED db
    BY <1>2 DEF Crash
  <2> QED
    BY <1>1, <2>1, IdleSends, StepDue
<1>3. CASE db.job.owner = w
  <2>1. db.job \in Jobs
    BY <1>0, <1>3, RowsAssumption, LiveJobType DEF Live, NoJob
  <2>2. SameLoads(db, db') /\ SameWork(db, db') /\ db'.job.owner = Nobody
    BY <1>0, <1>3, <2>1 DEF Crash, Rows, Jobs, SameLoads, SameWork
  <2>3. \A v \in Workers : ~Owned(v)'
    BY <2>2, RowsAssumption DEF Owned
  <2> QED
    BY <1>0, <1>1, <2>2, <2>3, IdleSends, JobRowStays, AttemptDue DEF Lists
<1> QED
  BY <1>2, <1>3

LEMMA FailsDue ==
  ASSUME Due, Full', NEW w \in Workers, Fails(w), ~RemovalUnrecorded(w) PROVE DueStep
<1>0. /\ db \in Rows /\ db' \in Rows /\ attempt \in [Workers -> Attempts] /\ attempt[w] \in Attempts
      /\ Sends(attempt[w]) /\ NoEvent.result = "none"
  BY DEF Due, Full, IInv, TypeOK, NoEvent
<1>1. ASSUME NEW d \in Docs, TextGone(w, d) PROVE DueStep
  <2> DEFINE a == [attempt[w] EXCEPT !.pending = @ \ {d}]
  <2>1. /\ a.step = attempt[w].step /\ a.outcome = attempt[w].outcome /\ a.removed = attempt[w].removed
        /\ a.event = attempt[w].event
    BY <1>0 DEF Attempts
  <2>2. attempt' = [attempt EXCEPT ![w] = a] /\ (db' = db \/ db' = RemoveDocument(db, d))
    BY <1>0, <1>1 DEF TextGone
  <2> HIDE DEF a
  <2>3. Keeps(db, db') /\ Unstarted(db, db')
    BY <1>0, <2>2, RemoveDocumentKeeps, RemoveDocumentUnstarted, KeepsNot, UnchangedUnstarted DEF Due, Full, Agree
  <2>4. \A v \in Workers : Owned(v)' => Owned(v)
    BY <2>3 DEF Owned, Unstarted
  <2>5. Sends(a) /\ \A e : Lists(w, e)' => Lists(w, e)
    BY <1>0, <2>1, <2>2, <2>4 DEF Sends, Lists, HasListed
  <2> QED
    BY <2>2, <2>3, <2>4, <2>5, AttemptDue
<1>2. ASSUME NEW heldSets \in SUBSET Sets, BudgetStops(w, heldSets) PROVE DueStep
  <2> DEFINE a == [attempt[w] EXCEPT !.step = "ended", !.outcome = "budget_exhausted", !.held = heldSets]
  <2>1. /\ a.step = "ended" /\ a.removed = attempt[w].removed /\ a.event = attempt[w].event
    BY <1>0 DEF Attempts
  <2>2. /\ attempt' = [attempt EXCEPT ![w] = a] /\ attempt[w].step = "sending" /\ UNCHANGED db
        /\ attempt[w].removed = {} /\ attempt[w].event = NoEvent
    BY <1>0, <1>2 DEF BudgetStops
  <2> HIDE DEF a
  <2> QED
    BY <1>0, <2>1, <2>2, StepDue DEF Sends, HasListed
<1>3. ASSUME NEW outcome \in {"failed", "retry", "uncounted"}, UNCHANGED db,
             attempt' = [attempt EXCEPT ![w].step = "ended", ![w].event = NoEvent, ![w].outcome = outcome]
      PROVE  DueStep
  <2> DEFINE a == [attempt[w] EXCEPT !.step = "ended", !.event = NoEvent, !.outcome = outcome]
  <2>1. a.step = "ended" /\ a.outcome = outcome /\ a.event = NoEvent
    BY <1>0 DEF Attempts
  <2>2. attempt' = [attempt EXCEPT ![w] = a]
    BY <1>0, <1>3
  <2> HIDE DEF a
  <2> QED
    BY <1>0, <1>3, <2>1, <2>2, StepDue DEF Sends
<1>4. CASE LosesLease(w) \/ \E outcome \in {"failed", "retry", "uncounted"} : Stops(w, outcome)
  BY <1>3, <1>4 DEF LosesLease, Stops
<1>5. CASE FinishUnrecorded(w)
  BY <1>5, IdleSends, StepDue DEF FinishUnrecorded
<1> QED
  BY <1>1, <1>2, <1>4, <1>5, CrashDue DEF Fails

LEMMA FinishDue ==
  ASSUME Due, Full', NEW w \in Workers, NEW b \in BOOLEAN, NEW old \in BOOLEAN, NEW l \in LoadIds \cup {NoLoad},
         IF Fresh(db) = {} THEN l = NoLoad ELSE l \in Fresh(db), Finish(w, b, old, l)
  PROVE  DueStep
<1> DEFINE a == attempt[w]
           retries == \/ a.outcome = "uncounted"
                      \/ a.outcome = "retry" /\ db.job.attempts < MaxAttempts
           outcome == IF a.outcome = "retry" THEN "failed" ELSE a.outcome
<1>0. db \in Rows /\ db' \in Rows /\ Agree(db) /\ attempt \in [Workers -> Attempts] /\ Full
  BY DEF Due, Full, IInv, TypeOK
<1>1. attempt' = [attempt EXCEPT ![w] = Idle] /\ a.step = "ended"
  BY DEF Finish
<1>2. a.outcome \in Outcomes \ {"none"}
  BY <1>0, <1>1 DEF Attempts, Full, IInv, AttemptFits
<1>3. CASE ~Owned(w)
  <2>1. UNCHANGED db
    BY <1>3 DEF Finish
  <2> QED
    BY <1>1, <2>1, IdleSends, StepDue
<1>4. CASE Owned(w) /\ retries
  <2>1. db' = FinishRetry(db, a.ingestDone, a.outcome = "uncounted")
    BY <1>4 DEF Finish
  <2>2. db.job \in Jobs
    BY <1>0, <1>1, <1>4, OwnedIs
  <2>3. SameLoads(db, db')
    BY <1>0, <2>1 DEF FinishRetry, Queue, Rows, SameLoads
  <2>4. SameWork(db, db') /\ db'.job.status = "queued"
    <3>1. db'.job = [db.job EXCEPT !.status = "queued", !.owner = Nobody,
                      !.phase = IF a.ingestDone /\ db.job.kind \in {"load", "apply"} THEN "documents" ELSE @,
                      !.attempts = IF a.outcome = "uncounted" /\ @ > 0 THEN @ - 1 ELSE @]
      BY <1>0, <2>1 DEF FinishRetry, Queue, Rows
    <3> HIDE DEF a
    <3> QED
      BY <2>2, <3>1 DEF Jobs, SameWork
  <2>5. \A v \in Workers : ~Owned(v)'
    BY <2>4 DEF Owned
  <2> QED
    BY <1>0, <1>1, <2>3, <2>4, <2>5, IdleSends, JobRowStays, AttemptDue DEF Lists
<1>5. CASE Owned(w) /\ ~retries
  <2>1. db' = FinishEnd(db, outcome, a.ingestDone, a.held, b, old, l)
    BY <1>5 DEF Finish
  <2>2. outcome \in Ends /\ (outcome = "failed" => a.outcome \in {"failed", "retry"})
    BY <1>2, <1>5 DEF Ends, Outcomes
  <2>3. outcome # "failed" => a.outcome \in {"succeeded", "budget_exhausted"}
    BY <2>2 DEF Ends
  <2>4. db.job.kind = "apply" => l \in LoadIds /\ db.status[l] = "none"
    BY <1>0, FreshIsLoadId DEF Full, IInv, ApplyHasId, Fresh, With
  <2>5. Live(db)
    BY <1>0, <1>1, <1>5, OwnedIs
  <2> HIDE DEF outcome
  <2>6. Carries(db, db')
    BY <1>0, <2>1, <2>2, <2>4, <2>5, FinishEndCarries
  <2>7. LoadJobOwes(db')
    BY <1>0, <2>6, CarriesOwes DEF Due
  <2>8. \A v \in Workers : Sends(attempt'[v])
    BY <1>0, <1>1, IdleSends DEF Due
  <2>9. outcome = "failed" => JobFails
    BY <1>0, <1>1, <1>5, <2>2, IdleSends DEF JobFails
  <2>10. ASSUME NEW k \in LoadIds, NEW d \in Docs, Forgets(k, d)', outcome # "failed" PROVE Forgets(k, d)
    <3>1. Holds(db', k, d) /\ ~db'.owed /\ ~Takes(db', k)
      BY <2>10 DEF Forgets, Holds, Takes, InHand, Owned
    <3>2. Holds(db, k, d) /\ ~db.owed
      BY <2>6, <3>1 DEF Carries
    <3>3. a.removed = {}
      BY <2>3, <2>10 DEF Due, Sends
    <3>4. ~InHand(k, d)
      BY <1>5, <2>3, <2>10, <3>3 DEF InHand, HasListed
    <3> QED
      BY <3>2, <3>4 DEF Forgets, Holds
  <2> QED
    BY <2>7, <2>8, <2>9, <2>10 DEF DueStep, StaysScheduled
<1> QED
  BY <1>3, <1>4, <1>5

LEMMA RemovalUnrecordedDue == ASSUME Due, NEW w \in Workers, RemovalUnrecorded(w) PROVE DueStep
<1> DEFINE a == [attempt[w] EXCEPT !.removed = @ \ {attempt[w].event.doc}, !.event = NoEvent]
<1>0. attempt \in [Workers -> Attempts] /\ attempt[w] \in Attempts /\ Sends(attempt[w])
  BY DEF Due, Full, IInv, TypeOK
<1>1. attempt' = [attempt EXCEPT ![w] = a] /\ UNCHANGED db /\ attempt[w].step = "sending"
  BY <1>0 DEF RemovalUnrecorded
<1>2. a.step = "sending" /\ a.outcome = attempt[w].outcome /\ a.event = NoEvent
  BY <1>0, <1>1 DEF Attempts
<1> HIDE DEF a
<1>3. Sends(a)
  BY <1>0, <1>1, <1>2 DEF Sends, NoEvent
<1>4. \A v \in Workers : Sends(attempt'[v])
  BY <1>0, <1>1, <1>3 DEF Due
<1> QED
  BY <1>1, <1>4 DEF Due, DueStep, StaysScheduled

LEMMA DueInit == Init => Due
<1> SUFFICES ASSUME Init PROVE Due
  OBVIOUS
<1>1. Full
  BY FullInit
<1>2. \A w \in Workers : Sends(attempt[w])
  BY IdleSends DEF Init
<1>3. LoadJobOwes(db)
  BY DEF Init, LoadJobOwes, NoJob
<1> QED
  BY <1>1, <1>2, <1>3 DEF Due

LEMMA NextDue == Due /\ [Next]_vars => Due' /\ StaysScheduled
<1> SUFFICES ASSUME Due, [Next]_vars PROVE DueStep /\ Full'
  BY DEF DueStep, Due
<1>0. Full'
  BY NextKeepsFull DEF Due, FullStep
<1>1. CASE People \/ Syncs \/ Documents
  BY <1>0, <1>1, RequestsDue
<1>2. ASSUME NEW w \in Workers, Claim(w) \/ Works(w) \/ Fails(w) PROVE DueStep
  BY <1>0, <1>2, ClaimDue, WorksDue, FailsDue, RemovalUnrecordedDue
<1>3. ASSUME NEW w \in Workers, Finishes(w) PROVE DueStep
  BY <1>0, <1>3, FinishDue DEF Finishes
<1>4. CASE UNCHANGED vars
  <2>1. \A l \in LoadIds, d \in Docs : Forgets(l, d)' => Forgets(l, d)
    BY <1>4 DEF vars, Forgets, InHand, Owned, HasListed
  <2> QED
    BY <1>0, <1>4, <2>1 DEF vars, Due, DueStep, StaysScheduled
<1> QED
  BY <1>0, <1>1, <1>2, <1>3, <1>4 DEF Next

\* A deleted document stays due out of the loads that serve or are worked on:
\* no claim, cancelled job, preemption, delete, finish or crash forgets it,
\* only a job that failed, a removal that could not be recorded, or a load made
\* current under a live job.
THEOREM RemovalsStayDue == Spec => RemovalsStayScheduled
<1>1. Spec => []Due
  BY DueInit, NextDue, PTL DEF Spec
<1>2. Spec => [][StaysScheduled]_vars
  BY <1>1, NextDue, PTL DEF Spec
<1> QED
  BY <1>2, PTL DEF StaysScheduled, RemovalsStayScheduled
================================================================================

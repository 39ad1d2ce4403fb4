-------------------------------- MODULE GraphLease --------------------------------
(****************************************************************************)
(* The lease of one graph job, and the fence that keeps a worker's writes   *)
(* within it.  A worker claims the job for Lease and starts an attempt; the *)
(* attempt's renewals each extend the lease from before they were sent; an  *)
(* attempt with no renewal for Lease less HelixTimeout is cancelled, which  *)
(* ends its proxy to the graph database, so that a write the proxy admitted *)
(* has landed by the time another worker may claim the job.                 *)
(*                                                                          *)
(* Each time the code keeps is here the time left to it, or gone since it.  *)
(* The code bounds neither how long a claim's transaction takes             *)
(* (ClaimDelay), nor how far MySQL's clock is ahead of a worker's (Skew),   *)
(* nor how long an admitted write takes to land (WriteTime): Margin is what *)
(* the lease needs of the three.                                            *)
(****************************************************************************)
EXTENDS Integers

CONSTANTS Workers, Nobody,
          Lease, HelixTimeout, RetryBackoff,    \* foundry.graph's configuration
          ClaimDelay, Skew, WriteTime           \* the environment's bounds

ASSUME LeaseAssumption ==
  /\ Lease \in Nat /\ HelixTimeout \in Nat \ {0} /\ RetryBackoff \in Nat
  /\ Lease >= 2 * HelixTimeout /\ RetryBackoff >= 2 * HelixTimeout
  /\ ClaimDelay \in Nat /\ Skew \in Nat /\ WriteTime \in Nat
  /\ Nobody \notin Workers

Margin == ClaimDelay + Skew + WriteTime <= HelixTimeout

VARIABLES status, owner,    \* the job's row
          wait, left,       \* until a queued job is due; of a running one's lease
          step,             \* each worker: idle, claiming, running, or ended with an outcome to record
          age,              \* since its claim, or the renewal it has sent, read the clock
          renewing,         \* whether it has sent a renewal
          fence,            \* until its fence fires
          flight            \* until every write its proxy admitted has landed
vars == <<status, owner, wait, left, step, age, renewing, fence, flight>>
row == <<status, owner, wait, left>>
attempt == <<step, age, renewing, fence>>

\* The operands swapped, and a fence that fires as the lease lapses: like every
\* definition named ...Fault, slips the runs' properties are shown to notice.
HeldFault == HelixTimeout - Lease
HeldLeaseFault == Lease
Held == Lease - HelixTimeout

\* The row's and the workers' types: a lapsed lease's time left stays at -1.
TypeOK ==
  /\ status \in {"queued", "running", "over"} /\ owner \in Workers \cup {Nobody}
  /\ wait \in Nat /\ left \in Nat \cup {-1}
  /\ step \in [Workers -> {"idle", "claiming", "running", "ended"}]
  /\ age \in [Workers -> Nat] /\ renewing \in [Workers -> BOOLEAN]
  /\ fence \in [Workers -> Nat] /\ flight \in [Workers -> Nat]

Init ==
  /\ status = "queued" /\ owner = Nobody /\ wait = 0 /\ left = 0
  /\ step = [w \in Workers |-> "idle"] /\ age = [w \in Workers |-> 0] /\ renewing = [w \in Workers |-> FALSE]
  /\ fence = [w \in Workers |-> 0] /\ flight = [w \in Workers |-> 0]

Owned(w) == status = "running" /\ owner = w

\* A claim's transaction locks the row: another claim skips it, and any other
\* write of it waits.
Locked == \E w \in Workers : step[w] = "claiming"

\* Due by MySQL's clock, which is at most Skew ahead.
Claimable ==
  /\ ~Locked
  /\ \/ status = "queued" /\ wait <= Skew
     \/ status = "running" /\ left < Skew

\* An attempt is over: what it kept is gone, its writes in flight are not.
Leaves(w, to) ==
  /\ step' = [step EXCEPT ![w] = to]
  /\ renewing' = [renewing EXCEPT ![w] = FALSE]
  /\ age' = [age EXCEPT ![w] = 0] /\ fence' = [fence EXCEPT ![w] = 0]
  /\ UNCHANGED flight

\* The claim selects the job and reads the clock its lease starts from ...
ClaimSelect(w) ==
  /\ step[w] = "idle" /\ Claimable
  /\ step' = [step EXCEPT ![w] = "claiming"]
  /\ UNCHANGED <<row, age, renewing, fence, flight>>

\* The claim's fence fires as its lease would lapse.
ClaimCommitFault(w) ==
  /\ step[w] = "claiming"
  /\ status' = "running" /\ owner' = w /\ left' = Lease - age[w]
  /\ step' = [step EXCEPT ![w] = "running"]
  /\ age' = [age EXCEPT ![w] = 0] /\ fence' = [fence EXCEPT ![w] = Lease]
  /\ UNCHANGED <<wait, renewing, flight>>

\* ... and once it has committed, the attempt's fence starts from a later one.
ClaimCommit(w) ==
  /\ step[w] = "claiming"
  /\ status' = "running" /\ owner' = w /\ left' = Lease - age[w]
  /\ step' = [step EXCEPT ![w] = "running"]
  /\ age' = [age EXCEPT ![w] = 0] /\ fence' = [fence EXCEPT ![w] = Held]
  /\ UNCHANGED <<wait, renewing, flight>>

SendRenewal(w) ==
  /\ step[w] = "running" /\ ~renewing[w]
  /\ renewing' = [renewing EXCEPT ![w] = TRUE]
  /\ UNCHANGED <<row, step, age, fence, flight>>

\* The fence moves from the answer, not from before the renewal was sent.
RenewedFault(w) ==
  /\ renewing[w] /\ Owned(w) /\ ~Locked
  /\ left' = Lease - age[w]
  /\ fence' = [fence EXCEPT ![w] = Held]
  /\ renewing' = [renewing EXCEPT ![w] = FALSE] /\ age' = [age EXCEPT ![w] = 0]
  /\ UNCHANGED <<status, owner, wait, step, flight>>

\* The renewal extends the lease; its answer, if it gets back, moves the fence.
Renewed(w) ==
  /\ renewing[w] /\ Owned(w) /\ ~Locked
  /\ left' = Lease - age[w]
  /\ fence' \in {fence, [fence EXCEPT ![w] = Held - age[w]]}
  /\ renewing' = [renewing EXCEPT ![w] = FALSE] /\ age' = [age EXCEPT ![w] = 0]
  /\ UNCHANGED <<status, owner, wait, step, flight>>

\* The database can't be reached: the lease runs on.
RenewalFails(w) ==
  /\ renewing[w]
  /\ renewing' = [renewing EXCEPT ![w] = FALSE] /\ age' = [age EXCEPT ![w] = 0]
  /\ UNCHANGED <<row, step, fence, flight>>

\* The proxy admits a write of a running attempt.
Admit(w) ==
  /\ step[w] = "running"
  /\ flight' = [flight EXCEPT ![w] = WriteTime]
  /\ UNCHANGED <<row, attempt>>

\* The fence fires, a renewal finds the lease lost, or the attempt ends: its
\* proxy admits nothing more.
Stop(w) ==
  /\ step[w] = "running"
  /\ Leaves(w, "ended")
  /\ UNCHANGED row

\* A retry waits for nothing.
RetryFault(w) ==
  /\ step[w] = "ended" /\ Owned(w) /\ ~Locked
  /\ status' = "queued" /\ owner' = Nobody /\ wait' = 0
  /\ Leaves(w, "idle")
  /\ UNCHANGED left

\* The outcome retries the job after a backoff, of RetryBackoff at least.
Retry(w) ==
  /\ step[w] = "ended" /\ Owned(w) /\ ~Locked
  /\ status' = "queued" /\ owner' = Nobody /\ wait' = RetryBackoff
  /\ Leaves(w, "idle")
  /\ UNCHANGED left

\* A load's success with documents still unrecorded queues the job again at
\* once: every write it sent was answered, one that timed out tried again.
Merge(w) ==
  /\ step[w] = "ended" /\ Owned(w) /\ ~Locked /\ flight[w] = 0
  /\ status' = "queued" /\ owner' = Nobody /\ wait' = 0
  /\ Leaves(w, "idle")
  /\ UNCHANGED left

\* The outcome ends the job.
Finish(w) ==
  /\ step[w] = "ended" /\ Owned(w) /\ ~Locked
  /\ status' = "over" /\ owner' = Nobody
  /\ Leaves(w, "idle")
  /\ UNCHANGED <<wait, left>>

\* An attempt that lost the job, or whose outcome can't be recorded, and a
\* process that dies, leave the lease to run out; a claim is rolled back.
Vanish(w) ==
  /\ step[w] # "idle"
  /\ Leaves(w, "idle")
  /\ UNCHANGED row

\* A user's load or the ontology's deletion cancels the job.
Cancel ==
  /\ status # "over" /\ ~Locked
  /\ status' = "over" /\ owner' = Nobody
  /\ UNCHANGED <<wait, left, attempt, flight>>

Less(t) == IF t > 0 THEN t - 1 ELSE 0

\* A fence that is due fires before time goes on, and a claim takes no longer
\* than ClaimDelay.
Tick ==
  /\ \A w \in Workers : /\ step[w] = "running" => fence[w] > 0
                        /\ step[w] = "claiming" => age[w] < ClaimDelay
  /\ wait' = Less(wait) /\ left' = IF left >= 0 THEN left - 1 ELSE left
  /\ age' = [w \in Workers |-> IF step[w] = "claiming" \/ renewing[w] THEN age[w] + 1 ELSE age[w]]
  /\ fence' = [w \in Workers |-> Less(fence[w])] /\ flight' = [w \in Workers |-> Less(flight[w])]
  /\ UNCHANGED <<status, owner, step, renewing>>

Next ==
  \/ \E w \in Workers :
       \/ ClaimSelect(w) \/ ClaimCommit(w)
       \/ SendRenewal(w) \/ Renewed(w) \/ RenewalFails(w)
       \/ Admit(w) \/ Stop(w) \/ Retry(w) \/ Merge(w) \/ Finish(w) \/ Vanish(w)
  \/ Cancel
  \/ Tick

Spec == Init /\ [][Next]_vars

--------------------------------------------------------------------------------

\* Until the job is over, only the worker that holds it runs an attempt of it:
\* the fence stops an attempt before its lease can lapse (renewLease).
OneAttempt == \A w \in Workers : step[w] = "running" => Owned(w) \/ status = "over"

\* task.go's "A write admitted before then lands before the lease could lapse;
\* none is admitted after", and GraphRetryFloor's "a write that timed out has
\* committed or not by the time the retry reads the store": a claim finds no
\* earlier write in flight.
SettledAtClaim ==
  [][\A v \in Workers : step[v] = "idle" /\ step'[v] = "claiming" => \A w \in Workers : flight[w] = 0]_vars

\* What Margin keeps true of an attempt and its fence: while the job is its
\* worker's, the lease outlasts the fence by what is left of HelixTimeout, and
\* an answer on its way moves the fence forward.
FenceInLease == \A w \in Workers :
  /\ step[w] = "running" => /\ fence[w] <= Held
                            /\ Owned(w) => left >= fence[w] + HelixTimeout - ClaimDelay
                            /\ \A v \in Workers \ {w} : step[v] # "running" /\ flight[v] = 0
  /\ renewing[w] => step[w] = "running" /\ fence[w] + age[w] <= Held
  /\ age[w] > 0 => renewing[w] \/ step[w] = "claiming"

\* A claim is alone: no attempt runs beside it and no write is in flight.
ClaimAlone == \A v \in Workers :
  step[v] = "claiming" => /\ age[v] <= ClaimDelay
                          /\ \A w \in Workers : step[w] # "running" /\ flight[w] = 0 /\ (w # v => step[w] # "claiming")

\* The writes in flight are one worker's, and land before the job can be claimed.
LandInTime == \A w \in Workers :
  flight[w] > 0 => /\ flight[w] <= WriteTime
                   /\ \A v \in Workers \ {w} : flight[v] = 0
                   /\ status = "running" => owner = w /\ flight[w] <= left - Skew
                   /\ status = "queued" => flight[w] <= wait - Skew

\* The inductive invariant, of what a fenced attempt relies on (renewLease).
Fencing == TypeOK /\ OneAttempt /\ FenceInLease /\ ClaimAlone /\ LandInTime

\* The job's writers, those with an attempt running or with writes of one that
\* may still land, are one at a time: OneWriter's steps are all they take.
Writers == {w \in Workers : step[w] = "running" \/ flight[w] > 0}
Abstract == INSTANCE OneWriter WITH writers <- Writers
OneWriterAtATime == Abstract!Spec
================================================================================

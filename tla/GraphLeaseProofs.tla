---------------------------- MODULE GraphLeaseProofs ----------------------------
(****************************************************************************)
(* Under Margin, for any number of workers and any configuration the        *)
(* code's validation admits, the fence keeps a job's writers one at a time: *)
(* Fencing is inductive, and OneAttempt, SettledAtClaim and the refinement  *)
(* of OneWriter follow from it.                                             *)
(****************************************************************************)
EXTENDS GraphLease, TLAPS

LEMMA FencingInit == Init => Fencing
BY LeaseAssumption DEF Init, Fencing, TypeOK, OneAttempt, FenceInLease, ClaimAlone, LandInTime, Owned, Held

\* A row that may be claimed has no attempt running and no write in flight.
LEMMA ClaimableIsSettled ==
  ASSUME Margin, Fencing, Claimable
  PROVE  \A v \in Workers : step[v] \notin {"running", "claiming"} /\ flight[v] = 0
<1> SUFFICES ASSUME NEW v \in Workers
             PROVE  step[v] \notin {"running", "claiming"} /\ flight[v] = 0
  OBVIOUS
<1> USE LeaseAssumption DEF Fencing, TypeOK
<1>1. step[v] # "claiming" /\ status # "over"
  BY DEF Claimable, Locked
<1>2. step[v] # "running"
  BY <1>1 DEF Claimable, OneAttempt, FenceInLease, Owned, Margin
<1>3. flight[v] = 0
  BY <1>1 DEF Claimable, LandInTime
<1> QED
  BY <1>1, <1>2, <1>3

LEMMA FencingNext == ASSUME Margin PROVE Fencing /\ [Next]_vars => Fencing'
<1> SUFFICES ASSUME Fencing, [Next]_vars PROVE Fencing'
  OBVIOUS
<1> USE LeaseAssumption DEF Fencing, TypeOK, Held
<1>1. ASSUME NEW w \in Workers, ClaimSelect(w) PROVE Fencing'
  <2> USE <1>1 DEF ClaimSelect, row
  <2>1. \A v \in Workers : step[v] \notin {"running", "claiming"} /\ flight[v] = 0
    BY ClaimableIsSettled
  <2>2. age[w] = 0 /\ ~renewing[w]
    BY DEF FenceInLease
  <2>3. TypeOK' /\ OneAttempt'
    BY <2>1 DEF OneAttempt
  <2>4. FenceInLease'
    BY <2>1, <2>2 DEF FenceInLease, Owned
  <2>5. ClaimAlone'
    BY <2>1, <2>2 DEF ClaimAlone
  <2>6. LandInTime'
    BY <2>1 DEF LandInTime
  <2> QED
    BY <2>3, <2>4, <2>5, <2>6
<1>2. ASSUME NEW w \in Workers, ClaimCommit(w) PROVE Fencing'
  <2> USE <1>2 DEF ClaimCommit
  <2>1. /\ age[w] <= ClaimDelay
        /\ \A v \in Workers : flight[v] = 0 /\ step[v] # "running" /\ (v # w => step[v] # "claiming")
    BY DEF ClaimAlone
  <2>2. \A v \in Workers : ~renewing[v]
    BY <2>1 DEF FenceInLease
  <2>3. TypeOK' /\ OneAttempt'
    BY <2>1 DEF OneAttempt, Owned, Margin
  <2>4. FenceInLease'
    BY <2>1, <2>2 DEF FenceInLease, Owned
  <2>5. ClaimAlone'
    BY <2>1 DEF ClaimAlone
  <2>6. LandInTime'
    BY <2>1 DEF LandInTime
  <2> QED
    BY <2>3, <2>4, <2>5, <2>6
<1>3. ASSUME NEW w \in Workers, SendRenewal(w) PROVE Fencing'
  <2> USE <1>3 DEF SendRenewal, row
  <2>1. TypeOK' /\ OneAttempt' /\ ClaimAlone' /\ LandInTime'
    BY DEF OneAttempt, Owned, ClaimAlone, LandInTime
  <2>2. FenceInLease'
    BY DEF FenceInLease, Owned
  <2> QED
    BY <2>1, <2>2
<1>4. ASSUME NEW w \in Workers, Renewed(w) PROVE Fencing'
  <2> USE <1>4 DEF Renewed, Owned
  <2>1. step[w] = "running" /\ fence[w] + age[w] <= Held /\ fence'[w] <= Held - age[w]
    BY DEF FenceInLease
  <2>2. \A v \in Workers : flight[v] > 0 => v = w /\ flight[v] <= left' - Skew
    BY <2>1 DEF FenceInLease, LandInTime, Margin
  <2>3. TypeOK' /\ OneAttempt'
    BY <2>1 DEF OneAttempt
  <2>4. FenceInLease'
    BY <2>1 DEF FenceInLease, Margin
  <2>5. ClaimAlone'
    BY <2>1 DEF ClaimAlone
  <2>6. LandInTime'
    BY <2>2 DEF LandInTime
  <2> QED
    BY <2>3, <2>4, <2>5, <2>6
<1>5. ASSUME NEW w \in Workers, RenewalFails(w) PROVE Fencing'
  <2> USE <1>5 DEF RenewalFails, row
  <2>1. TypeOK' /\ OneAttempt' /\ LandInTime'
    BY DEF OneAttempt, Owned, LandInTime
  <2>2. FenceInLease' /\ ClaimAlone'
    BY DEF FenceInLease, ClaimAlone, Owned
  <2> QED
    BY <2>1, <2>2
<1>6. ASSUME NEW w \in Workers, Admit(w) PROVE Fencing'
  <2> USE <1>6 DEF Admit, row, attempt
  <2>1. \A v \in Workers \ {w} : step[v] # "running" /\ flight[v] = 0
    BY DEF FenceInLease
  <2>2. status = "running" => owner = w /\ WriteTime <= left - Skew
    BY DEF OneAttempt, Owned, FenceInLease, Margin
  <2>3. status # "queued"
    BY DEF OneAttempt, Owned
  <2>4. TypeOK' /\ OneAttempt' /\ FenceInLease'
    BY <2>1 DEF OneAttempt, Owned, FenceInLease
  <2>5. ClaimAlone'
    BY DEF ClaimAlone
  <2>6. LandInTime'
    BY <2>1, <2>2, <2>3 DEF LandInTime
  <2> QED
    BY <2>4, <2>5, <2>6
<1>7. ASSUME NEW w \in Workers, Stop(w) PROVE Fencing'
  <2> USE <1>7 DEF Stop, Leaves, row
  <2>1. TypeOK' /\ OneAttempt' /\ LandInTime'
    BY DEF OneAttempt, Owned, LandInTime
  <2>2. FenceInLease' /\ ClaimAlone'
    BY DEF FenceInLease, ClaimAlone, Owned
  <2> QED
    BY <2>1, <2>2
<1>8. ASSUME NEW w \in Workers, Retry(w) PROVE Fencing'
  <2> USE <1>8 DEF Retry, Leaves, Owned
  <2>1. \A v \in Workers : step[v] \notin {"running", "claiming"}
    BY DEF OneAttempt, Locked
  <2>2. TypeOK' /\ OneAttempt' /\ FenceInLease' /\ ClaimAlone'
    BY <2>1 DEF OneAttempt, FenceInLease, ClaimAlone
  <2>3. LandInTime'
    BY DEF LandInTime, Margin
  <2> QED
    BY <2>2, <2>3
<1>9. ASSUME NEW w \in Workers, Finish(w) PROVE Fencing'
  <2> USE <1>9 DEF Finish, Leaves, Owned
  <2>1. \A v \in Workers : step[v] \notin {"running", "claiming"}
    BY DEF OneAttempt, Locked
  <2>2. TypeOK' /\ OneAttempt' /\ FenceInLease' /\ ClaimAlone'
    BY <2>1 DEF OneAttempt, FenceInLease, ClaimAlone
  <2>3. LandInTime'
    BY DEF LandInTime
  <2> QED
    BY <2>2, <2>3
<1>10. ASSUME NEW w \in Workers, Vanish(w) PROVE Fencing'
  <2> USE <1>10 DEF Vanish, Leaves, row
  <2>1. TypeOK' /\ OneAttempt' /\ LandInTime'
    BY DEF OneAttempt, Owned, LandInTime
  <2>2. FenceInLease' /\ ClaimAlone'
    BY DEF FenceInLease, ClaimAlone, Owned
  <2> QED
    BY <2>1, <2>2
<1>11. CASE Cancel
  <2> USE <1>11 DEF Cancel, attempt
  <2>1. TypeOK' /\ OneAttempt' /\ LandInTime'
    BY DEF OneAttempt, LandInTime
  <2>2. FenceInLease' /\ ClaimAlone'
    BY DEF FenceInLease, ClaimAlone, Owned
  <2> QED
    BY <2>1, <2>2
<1>12. CASE Tick
  <2> USE <1>12 DEF Tick, Less
  <2>1. TypeOK' /\ OneAttempt'
    BY DEF OneAttempt, Owned
  <2>2. FenceInLease'
    BY DEF FenceInLease, Owned, Margin
  <2>3. ClaimAlone'
    BY DEF ClaimAlone
  <2>4. LandInTime'
    BY DEF LandInTime
  <2> QED
    BY <2>1, <2>2, <2>3, <2>4
<1>13. CASE UNCHANGED vars
  BY <1>13 DEF vars, OneAttempt, FenceInLease, ClaimAlone, LandInTime, Owned
<1>14. ASSUME NEW w \in Workers, Merge(w) PROVE Fencing'
  <2> USE <1>14 DEF Merge, Leaves, Owned
  <2>1. \A v \in Workers : step[v] \notin {"running", "claiming"}
    BY DEF OneAttempt, Locked
  <2>2. TypeOK' /\ OneAttempt' /\ FenceInLease' /\ ClaimAlone'
    BY <2>1 DEF OneAttempt, FenceInLease, ClaimAlone
  <2>3. LandInTime'
    BY DEF LandInTime
  <2> QED
    BY <2>2, <2>3
<1> QED
  BY <1>1, <1>2, <1>3, <1>4, <1>5, <1>6, <1>7, <1>8, <1>9, <1>10, <1>11, <1>12, <1>13, <1>14 DEF Next

--------------------------------------------------------------------------------

\* The fence's invariant holds of every run (renewLease, ClaimFoundryGraphJob).
THEOREM LeaseIsFenced == ASSUME Margin PROVE Spec => []Fencing
<1>1. Fencing /\ [Next]_vars => Fencing'
  BY FencingNext
<1> QED
  BY FencingInit, <1>1, PTL DEF Spec

\* A worker runs an attempt only while it holds the job, or the job is over.
THEOREM AttemptsAreAlone == ASSUME Margin PROVE Spec => []OneAttempt
<1>1. Fencing => OneAttempt
  BY DEF Fencing
<1> QED
  BY LeaseIsFenced, <1>1, PTL

\* No claim of the job starts over a write that has not landed.
THEOREM ClaimsAreSettled == ASSUME Margin PROVE Spec => SettledAtClaim
<1> DEFINE Settled == \A v \in Workers : step[v] = "idle" /\ step'[v] = "claiming" => \A w \in Workers : flight[w] = 0
<1>1. ASSUME Fencing, [Next]_vars PROVE [Settled]_vars
  <2>1. ASSUME NEW u \in Workers, ClaimSelect(u) PROVE Settled
    BY <1>1, <2>1, ClaimableIsSettled DEF ClaimSelect
  <2>2. ASSUME NEW u \in Workers, ~ClaimSelect(u),
               \/ ClaimCommit(u) \/ SendRenewal(u) \/ Renewed(u) \/ RenewalFails(u)
               \/ Admit(u) \/ Stop(u) \/ Retry(u) \/ Merge(u) \/ Finish(u) \/ Vanish(u)
        PROVE  Settled
    BY <1>1, <2>2 DEF Fencing, TypeOK, ClaimCommit, SendRenewal, Renewed, RenewalFails, Admit, attempt,
                      Stop, Retry, Merge, Finish, Vanish, Leaves
  <2>3. CASE Cancel \/ Tick
    BY <2>3 DEF Cancel, Tick, attempt
  <2> QED
    BY <1>1, <2>1, <2>2, <2>3 DEF Next
<1> QED
  BY LeaseIsFenced, <1>1, PTL DEF Spec, SettledAtClaim

--------------------------------------------------------------------------------
(* The fenced lease implements OneWriter.                                   *)

\* Of a job's writers there is one at most.
LEMMA WritersAreOne ==
  ASSUME Fencing, NEW u \in Workers, NEW v \in Workers, u \in Writers, v \in Writers
  PROVE  u = v
BY DEF Fencing, TypeOK, FenceInLease, LandInTime, Writers

\* A step lets a worker become a writer only in a claim's commit, and no
\* other is a writer then.
LEMMA WritersStep ==
  ASSUME Margin, Fencing, [Next]_vars
  PROVE  \/ Writers' \subseteq Writers
         \/ Writers = {} /\ \E w \in Workers : Writers' = {w}
<1> USE DEF Fencing, TypeOK, Writers
<1>1. ASSUME NEW w \in Workers, ClaimCommit(w) PROVE Writers = {} /\ Writers' = {w}
  <2>1. \A v \in Workers : flight[v] = 0 /\ step[v] # "running"
    BY <1>1 DEF ClaimCommit, ClaimAlone
  <2> QED
    BY <1>1, <2>1 DEF ClaimCommit
<1>2. ASSUME NEW w \in Workers, \/ ClaimSelect(w) \/ SendRenewal(w) \/ Renewed(w) \/ RenewalFails(w)
                                \/ Stop(w) \/ Retry(w) \/ Merge(w) \/ Finish(w) \/ Vanish(w)
      PROVE  Writers' \subseteq Writers
  BY <1>2 DEF ClaimSelect, SendRenewal, Renewed, RenewalFails, Stop, Retry, Merge, Finish, Vanish, Leaves
<1>3. ASSUME NEW w \in Workers, Admit(w) PROVE Writers' \subseteq Writers
  BY <1>3 DEF Admit, attempt
<1>4. CASE Cancel \/ Tick
  BY <1>4 DEF Cancel, Tick, attempt, Less
<1>5. CASE UNCHANGED vars
  BY <1>5 DEF vars
<1> QED
  BY <1>1, <1>2, <1>3, <1>4, <1>5 DEF Next

\* Every step of a fenced lease is a step of OneWriter or changes no writer:
\* the job's writers are one at a time, whatever is lost or crashes.
THEOREM LeaseImplementsOneWriter == ASSUME Margin PROVE Spec => OneWriterAtATime
<1>1. Init => Abstract!Init
  BY DEF Init, Abstract!Init, Writers
<1>2. ASSUME Fencing, [Next]_vars PROVE [Abstract!Next]_Writers
  <2>1. CASE Writers' \subseteq Writers
    <3>1. CASE Writers' = Writers
      BY <3>1
    <3>2. CASE Writers' # Writers
      <4>1. PICK w \in Writers : w \notin Writers'
        BY <2>1, <3>2
      <4>2. w \in Workers /\ Writers \subseteq Workers
        BY <4>1 DEF Writers
      <4>3. Writers = {w}
        BY <1>2, <4>1, <4>2, WritersAreOne
      <4> QED
        BY <2>1, <4>1, <4>2, <4>3 DEF Abstract!Next, Abstract!Leave
    <3> QED
      BY <3>1, <3>2
  <2>2. CASE Writers = {} /\ \E w \in Workers : Writers' = {w}
    BY <2>2 DEF Abstract!Next, Abstract!Enter
  <2> QED
    BY <1>2, <2>1, <2>2, WritersStep
<1> QED
  BY LeaseIsFenced, <1>1, <1>2, PTL DEF Spec, OneWriterAtATime, Abstract!Spec
================================================================================

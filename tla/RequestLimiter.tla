--------------------------- MODULE RequestLimiter ---------------------------
(* How the explorer sends its requests: automatic ones wait for a slot and a *)
(* token, those the user asked for go at once and still take a token, a read *)
(* the database rate-limits is tried again, a keyed request supersedes the   *)
(* one before it, an operation runs at most once at a time, and Clear and a  *)
(* refresh abort what is under way.                                          *)
EXTENDS Integers, Sequences, FiniteSets, Functions

CONSTANTS
  Requests,     \* bound: calls of `run`
  MaxInFlight,  \* automatic requests in flight at once
  Burst,        \* most tokens kept; the balance goes down to -Burst
  Delays,       \* seconds a rate-limited read waits before each of its retries
  MaxRefreshes  \* bound: refreshes
LimiterConstants ==
  /\ IsFiniteSet(Requests) /\ Requests \subseteq Nat \ {0}
  /\ MaxInFlight \in Nat \ {0} /\ Burst \in Nat \ {0} /\ Delays \in Seq(Nat) /\ MaxRefreshes \in Nat

VARIABLES
  tokens, inFlight, queue, timer,  \* the limiter; timer: 1 + the ticks to the wake-up, or None
  req,                             \* the requests
  keyed,                           \* keyedRef: the request that holds each key
  busy,                            \* busyRef: the request the tracked operation runs for
  generation, newest               \* refreshes so far; ghost: the request asked last, by key

limiterVars == <<tokens, inFlight, queue, timer, req, keyed, busy, generation, newest>>
limiter == <<tokens, inFlight, queue, timer>>

None == 0
\* The explorer's own requests, a node's degree (one at a time), a search (one
\* at a time), an expansion (tracked), the query dock's.
Kinds == {"background", "degree", "search", "tracked", "dock"}
Keys == {"degree", "search"}
Paced(kind) == kind \in {"background", "degree"}

New == [state |-> "new", kind |-> "background", generation |-> 0, aborted |-> FALSE, retry |-> 0, wait |-> 0]
NoKeys == [key \in Keys |-> None]
Ended(outcome) == [New EXCEPT !.state = outcome]

LimiterInit ==
  /\ tokens = Burst /\ inFlight = 0 /\ queue = <<>> /\ timer = None
  /\ req = [r \in Requests |-> New]
  /\ keyed = NoKeys /\ busy = None /\ generation = 0 /\ newest = NoKeys

-----------------------------------------------------------------------------
(* The limiter. *)

Lesser(a, b) == IF a < b THEN a ELSE b
\* Mutant: waiters are granted tokens, whatever the slots.
GrantedFault(q, free, have) == SubSeq(q, 1, Lesser(Len(q), IF have < 0 THEN 0 ELSE have))
Granted(q, free, have) ==
  LET n == Lesser(Len(q), Lesser(free, IF have < 0 THEN 0 ELSE have)) IN SubSeq(q, 1, n)

\* pump: grants waiters in order while a slot and a token are left, and else
\* arms the wake-up for the next token.  `rs` are the requests as they stand.
Pump(q, used, have, armed, rs) ==
  LET go == Granted(q, MaxInFlight - used, have)
      n == Len(go)
      left == SubSeq(q, n + 1, Len(q))
  IN /\ queue' = left
     /\ inFlight' = used + n
     /\ tokens' = have - n
     /\ timer' = IF left # <<>> /\ used + n < MaxInFlight /\ have - n < 1 /\ armed = None
                 THEN 2 - (have - n) ELSE armed
     /\ req' = [r \in Requests |-> IF r \in Range(go) THEN [rs[r] EXCEPT !.state = "going"] ELSE rs[r]]

\* acquire, for request r as `rec` describes it, behind the waiters in q.
Acquire(r, rec, q, rs) ==
  IF Paced(rec.kind)
  THEN Pump(Append(q, r), inFlight, tokens, timer, [rs EXCEPT ![r] = [rec EXCEPT !.state = "queued"]])
  ELSE /\ tokens' = IF tokens - 1 < -Burst THEN -Burst ELSE tokens - 1
       /\ req' = [rs EXCEPT ![r] = [rec EXCEPT !.state = "going"]]
       /\ queue' = q
       /\ UNCHANGED <<inFlight, timer>>

\* A second passes, and with it a token comes in.
Tick ==
  /\ tokens < Burst \/ timer > 1 \/ \E r \in Requests : req[r].wait > 0
  /\ tokens' = Lesser(Burst, tokens + 1)
  /\ timer' = IF timer > 1 THEN timer - 1 ELSE timer
  /\ req' = [r \in Requests |-> [req[r] EXCEPT !.wait = IF @ > 0 THEN @ - 1 ELSE 0]]
  /\ UNCHANGED <<inFlight, queue, keyed, busy, generation, newest>>

\* Mutant: the wake-up found no token, and is not armed again.
WakeFault ==
  /\ timer = 1
  /\ IF tokens < 1 THEN timer' = None /\ UNCHANGED <<tokens, inFlight, queue, req>>
     ELSE Pump(queue, inFlight, tokens, None, req)
  /\ UNCHANGED <<keyed, busy, generation, newest>>
\* The wake-up: armed again when a user's request took the token meanwhile.
Wake ==
  /\ timer = 1
  /\ Pump(queue, inFlight, tokens, None, req)
  /\ UNCHANGED <<keyed, busy, generation, newest>>

-----------------------------------------------------------------------------
(* run. *)

\* Aborted: a waiter leaves the queue, whatever else it was doing it unwinds.
Open(r) == req[r].state \in {"queued", "going", "backoff"}
Aborted(rs, who) ==
  [r \in Requests |-> IF r \in who /\ Open(r)
                      THEN [rs[r] EXCEPT !.aborted = TRUE, !.wait = 0,
                                         !.state = IF @ = "going" THEN "going" ELSE "unwinding"]
                      ELSE rs[r]]

\* The waiters left, in order, once those of `who` gave up.
Rest(who) ==
  LET rest[n \in 0..Len(queue)] ==
        IF n = 0 THEN <<>>
        ELSE IF queue[n] \in who THEN rest[n - 1] ELSE Append(rest[n - 1], queue[n])
  IN rest[Len(queue)]

\* A keyed request aborts the one before it; a tracked one is refused while
\* its operation still runs; the query dock's are no business of the explorer.
Run(r, kind) ==
  LET rec == [req[r] EXCEPT !.kind = kind, !.generation = generation]
      before == IF kind \in Keys THEN {keyed[kind]} \ {None} ELSE {}
  IN /\ req[r].state = "new" /\ \A p \in Requests : p < r => req[p].state # "new"
     /\ kind = "tracked" => busy = None
     /\ keyed' = IF kind \in Keys THEN [keyed EXCEPT ![kind] = r] ELSE keyed
     /\ busy' = IF kind = "tracked" THEN r ELSE busy
     /\ newest' = IF kind \in Keys THEN [newest EXCEPT ![kind] = r] ELSE newest
     /\ Acquire(r, rec, Rest(before), Aborted(req, before))
     /\ UNCHANGED generation

\* Mutant: it forgets whoever holds its key now.
ForgetsFault(r) ==
  /\ keyed' = [key \in Keys |-> IF key = req[r].kind THEN None ELSE keyed[key]]
  /\ busy' = IF busy = r THEN None ELSE busy
\* The end of a run: it forgets itself, unless a newer one took its place.
Forgets(r) ==
  /\ keyed' = [key \in Keys |-> IF keyed[key] = r THEN None ELSE keyed[key]]
  /\ busy' = IF busy = r THEN None ELSE busy
Outcome(r) ==
  IF req[r].aborted \/ (req[r].kind # "dock" /\ req[r].generation # generation) THEN "dropped" ELSE "landed"

\* The response, or its failure.  A rate-limited read waits, longer each time.
Answered(r) ==
  /\ req[r].state = "going"
  /\ \E limited \in BOOLEAN :
       LET again == limited /\ req[r].retry < Len(Delays) /\ ~req[r].aborted
           rec == IF again THEN [req[r] EXCEPT !.state = "backoff", !.wait = Delays[req[r].retry + 1], !.retry = @ + 1]
                  ELSE Ended(Outcome(r))
           rs == [req EXCEPT ![r] = rec]
       IN /\ IF again THEN UNCHANGED <<keyed, busy>> ELSE Forgets(r)
          /\ IF Paced(req[r].kind) THEN Pump(queue, inFlight - 1, tokens, timer, rs)
             ELSE req' = rs /\ UNCHANGED limiter
  /\ UNCHANGED <<generation, newest>>

\* The wait is over: the request goes through the limiter again.
TriedAgain(r) ==
  /\ req[r].state = "backoff" /\ req[r].wait = 0
  /\ Acquire(r, req[r], queue, req)
  /\ UNCHANGED <<keyed, busy, generation, newest>>

Unwound(r) ==
  /\ req[r].state = "unwinding"
  /\ req' = [req EXCEPT ![r] = Ended("dropped")]
  /\ Forgets(r)
  /\ UNCHANGED <<limiter, generation, newest>>

Dropped(who) ==
  /\ req' = Aborted(req, who)
  /\ queue' = Rest(who)
  /\ UNCHANGED <<tokens, inFlight, timer, newest>>
Explorers == {r \in Requests : Open(r) /\ req[r].kind # "dock"}

ClearAborts ==
  /\ Explorers # {}
  /\ Dropped(Explorers)
  /\ UNCHANGED <<keyed, busy, generation>>

\* abortAll: a refresh forgets every key too, so that what is asked next does
\* not wait for what unwinds.
RefreshAborts ==
  /\ generation < MaxRefreshes
  /\ Dropped(Explorers)
  /\ keyed' = NoKeys /\ busy' = None /\ generation' = generation + 1

\* The query dock's Cancel.
Cancel(r) ==
  /\ Open(r) /\ req[r].kind = "dock" /\ ~req[r].aborted
  /\ Dropped({r})
  /\ UNCHANGED <<keyed, busy, generation>>

LimiterNext ==
  \/ Tick \/ Wake \/ ClearAborts \/ RefreshAborts
  \/ \E r \in Requests :
       \/ \E kind \in Kinds : Run(r, kind)
       \/ Answered(r) \/ TriedAgain(r) \/ Unwound(r) \/ Cancel(r)

LimiterSpec == LimiterInit /\ [][LimiterNext]_limiterVars

-----------------------------------------------------------------------------
(* Properties. *)

LimiterTypeOK ==
  /\ tokens \in (-Burst)..Burst /\ inFlight \in 0..MaxInFlight /\ timer \in 0..(Burst + 2)
  /\ Range(queue) \subseteq Requests
  /\ keyed \in [Keys -> Requests \cup {None}] /\ busy \in Requests \cup {None}
  /\ generation \in 0..MaxRefreshes
  /\ \A r \in Requests : req[r].kind \in Kinds /\ req[r].retry \in 0..Len(Delays)

\* A waiter has something to wake it: a request in flight in every slot, whose
\* end pumps the queue, or the timer.  And the slots taken are the automatic
\* requests in flight: none is leaked by an abort, a retry or a failure.
NoLostWakeup ==
  /\ inFlight = Cardinality({r \in Requests : req[r].state = "going" /\ Paced(req[r].kind)})
  /\ Range(queue) = {r \in Requests : req[r].state = "queued"}
  /\ queue # <<>> => inFlight = MaxInFlight \/ timer # None

\* Only the search asked last lands, whatever order the answers come in, and
\* nothing asked before a refresh does.
Landing(r) == req[r].state # "landed" /\ req'[r].state = "landed" /\ req[r].kind # "dock"
LandsNewest ==
  \A r \in Requests : Landing(r) =>
    /\ req[r].generation = generation
    /\ req[r].kind \in Keys => r = newest[req[r].kind]
=============================================================================

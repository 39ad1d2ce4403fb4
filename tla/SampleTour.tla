----------------------------- MODULE SampleTour -----------------------------
(* The sample's tour: a visit of its page walks through every step that sets *)
(* Acme Corp up, each finding what it would make before it makes it.  A call *)
(* may fail, or its answer be lost after the service acted; the page may be  *)
(* left and opened again, and Try again walks once more.  A tab's walks run  *)
(* one after another.                                                        *)
EXTENDS Naturals, Sequences, FiniteSets

CONSTANTS
  Visits,        \* bound: visits of the page, numbered from 1
  MaxDrafts,     \* bound: drafts that fail before one is made
  MaxFaults,     \* bound: calls that fail or are given up
  SyncMayFail    \* whether the database's sync may end failed
TourConstants == 1 \in Visits /\ MaxDrafts \in Nat /\ MaxFaults \in Nat /\ SyncMayFail \in BOOLEAN

VARIABLES
  visit, here,   \* the last visit; whether the page is on screen
  walk,          \* per visit, its walk: the step it is at and what it found or made
  service,       \* what Foundry holds of the sample
  faults         \* calls that failed, waits that were given up
tourVars == <<visit, here, walk, service, faults>>

NoWalk == [pc |-> "none", conn |-> FALSE, ont |-> FALSE, gen |-> 0, ver |-> FALSE]
Waits == [NoWalk EXCEPT !.pc = "waiting"]
AtRest == {"none", "waiting", "failed", "done"}

TourInit ==
  /\ visit = 1 /\ here = TRUE
  /\ walk = [v \in Visits |-> IF v = 1 THEN Waits ELSE NoWalk]
  /\ service = [conns |-> 0, sync |-> "none", docs |-> "none", onts |-> 0, gens |-> <<>>, current |-> 0, loads |-> {}]
  /\ faults = 0

left(v) == v # visit \/ ~here

\* Mutant: a walk starts beside those of the visits before.
BeginFault(v) ==
  /\ walk[v].pc = "waiting"
  /\ walk' = [walk EXCEPT ![v].pc = "find"]
  /\ UNCHANGED <<visit, here, service, faults>>
\* run: a walk starts once those before it ended.
Begin(v) ==
  /\ walk[v].pc = "waiting"
  /\ \A u \in Visits \ {v} : walk[u].pc \in AtRest /\ (u < v => walk[u].pc # "waiting")
  /\ walk' = [walk EXCEPT ![v].pc = "find"]
  /\ UNCHANGED <<visit, here, service, faults>>

Walks(v, w) == walk' = [walk EXCEPT ![v] = w] /\ UNCHANGED <<visit, here>>
Becomes(v, w) == Walks(v, w) /\ UNCHANGED faults
At(v, step) == walk[v].pc = step
Stops(v) == Becomes(v, [walk[v] EXCEPT !.pc = "failed"])
Fails(v) ==
  /\ faults < MaxFaults /\ faults' = faults + 1
  /\ Walks(v, [walk[v] EXCEPT !.pc = "failed"])

\* A call that makes something: answered; or failed, its effect had or not.
Sends(v, after, next) ==
  \/ service' = after /\ Becomes(v, next)
  \/ service' \in {service, after} /\ Fails(v)

\* until: polled until it has ended; given up when it takes too long or the
\* page was left.
Until(v, ended, next) ==
  /\ \/ left(v) /\ Stops(v)
     \/ ~left(v) /\ ended /\ Becomes(v, next)
     \/ ~left(v) /\ ~ended /\ Fails(v)
  /\ UNCHANGED service

-----------------------------------------------------------------------------
(* walk *)

\* What an earlier visit made: the ontology, the sample's draft under way or
\* made, its current version, the connector.
\* Mutant: a draft that failed is taken for one under way.
DraftsFault == DOMAIN service.gens
Drafts == {g \in DOMAIN service.gens : service.gens[g] # "failed"}
Find(v) ==
  LET ont == service.onts > 0
      gen == IF ont /\ Drafts # {} THEN CHOOSE g \in Drafts : \A h \in Drafts : h <= g ELSE 0
      ver == service.current # 0 IN
  /\ At(v, "find")
  /\ Becomes(v, [pc |-> IF ver THEN "loads" ELSE IF gen # 0 THEN "draft" ELSE "connector",
                 conn |-> service.conns > 0, ont |-> ont, gen |-> gen, ver |-> ver])
  /\ UNCHANGED service

\* 1. The database, connected, and synced if it never was.
Connector(v) ==
  LET next == [walk[v] EXCEPT !.pc = "sync"] IN
  /\ At(v, "connector")
  /\ IF walk[v].conn THEN Becomes(v, next) /\ UNCHANGED service
     ELSE Sends(v, [service EXCEPT !.conns = @ + 1], next)

Sync(v) ==
  LET next == [walk[v] EXCEPT !.pc = "synced"] IN
  /\ At(v, "sync")
  /\ IF service.sync # "none" THEN Becomes(v, next) /\ UNCHANGED service
     ELSE Sends(v, [service EXCEPT !.sync = "syncing"], next)

\* A sync that failed stops the walk.
Synced(v) ==
  /\ At(v, "synced")
  /\ IF service.sync = "failed" THEN Stops(v) /\ UNCHANGED service
     ELSE Until(v, service.sync = "synced", [walk[v] EXCEPT !.pc = "documents"])

\* 1. Its documents: the workspace keeps one copy of any bytes.
Documents(v) ==
  /\ At(v, "documents")
  /\ Sends(v, [service EXCEPT !.docs = IF @ = "none" THEN "uploaded" ELSE @], [walk[v] EXCEPT !.pc = "read"])

Read(v) ==
  /\ At(v, "read")
  /\ Until(v, service.docs = "read", [walk[v] EXCEPT !.pc = "again"])

\* 3. The ontology, unless it has been made meanwhile, on a new database.
Again(v) ==
  LET ont == walk[v].ont \/ service.onts > 0 IN
  /\ At(v, "again")
  /\ Becomes(v, [walk[v] EXCEPT !.ont = ont, !.pc = IF ont THEN "generate" ELSE "ontology"])
  /\ UNCHANGED service

Ontology(v) ==
  /\ At(v, "ontology")
  /\ Sends(v, [service EXCEPT !.onts = @ + 1], [walk[v] EXCEPT !.ont = TRUE, !.pc = "generate"])

\* Its ready-made draft: the service refuses a second live one.
Live == {g \in DOMAIN service.gens : service.gens[g] = "live"}
Generate(v) ==
  /\ At(v, "generate")
  /\ IF Live # {} THEN Stops(v) /\ UNCHANGED service
     ELSE Sends(v, [service EXCEPT !.gens = Append(@, "live")],
                [walk[v] EXCEPT !.gen = Len(service.gens) + 1, !.pc = "draft"])

Draft(v) ==
  /\ At(v, "draft")
  /\ IF service.gens[walk[v].gen] = "failed" THEN Stops(v) /\ UNCHANGED service
     ELSE Until(v, service.gens[walk[v].gen] = "made", [walk[v] EXCEPT !.pc = "current"])

\* Made current, if none is.
Current(v) ==
  /\ At(v, "current")
  /\ IF service.current # 0 THEN Stops(v) /\ UNCHANGED service
     ELSE Sends(v, [service EXCEPT !.current = walk[v].gen], [walk[v] EXCEPT !.pc = "loads"])

\* 4. Its load, if it has none; the visit's token makes it once.
Loads(v) ==
  /\ At(v, "loads")
  /\ Becomes(v, [walk[v] EXCEPT !.pc = IF service.loads = {} THEN "load" ELSE "done"])
  /\ UNCHANGED service

Load(v) ==
  /\ At(v, "load")
  /\ Sends(v, [service EXCEPT !.loads = @ \cup {v}], [walk[v] EXCEPT !.pc = "done"])

\* What the walk reads first cannot be read.
Unread(v) ==
  /\ walk[v].pc \in {"find", "again", "loads"}
  /\ Fails(v) /\ UNCHANGED service

Steps(v) ==
  \/ Find(v) \/ Connector(v) \/ Sync(v) \/ Synced(v) \/ Documents(v) \/ Read(v) \/ Again(v)
  \/ Ontology(v) \/ Generate(v) \/ Draft(v) \/ Current(v) \/ Loads(v) \/ Load(v) \/ Unread(v)

-----------------------------------------------------------------------------
(* The page and Foundry. *)

TryAgain ==
  /\ here /\ walk[visit].pc = "failed"
  /\ walk' = [walk EXCEPT ![visit] = Waits]
  /\ UNCHANGED <<visit, here, service, faults>>

Leave == here /\ here' = FALSE /\ UNCHANGED <<visit, walk, service, faults>>
Open ==
  /\ ~here /\ visit + 1 \in Visits
  /\ visit' = visit + 1 /\ here' = TRUE
  /\ walk' = [walk EXCEPT ![visit + 1] = Waits]
  /\ UNCHANGED <<service, faults>>

Foundry ==
  /\ \/ /\ service.sync = "syncing"
        /\ \E s \in {"synced"} \cup (IF SyncMayFail THEN {"failed"} ELSE {}) : service' = [service EXCEPT !.sync = s]
     \/ service.docs = "uploaded" /\ service' = [service EXCEPT !.docs = "read"]
     \/ \E g \in Live : \E s \in {"made"} \cup (IF g <= MaxDrafts THEN {"failed"} ELSE {}) :
          service' = [service EXCEPT !.gens[g] = s]
  /\ UNCHANGED <<visit, here, walk, faults>>

Walk == \E v \in Visits : Begin(v) \/ Steps(v)
TourNext == Walk \/ TryAgain \/ Leave \/ Open \/ Foundry
TourSpec == TourInit /\ [][TourNext]_tourVars

Pcs == {"find", "connector", "sync", "synced", "documents", "read", "again", "ontology",
        "generate", "draft", "current", "loads", "load"}

-----------------------------------------------------------------------------
TourTypeOK ==
  /\ visit \in Visits /\ here \in BOOLEAN
  /\ walk \in [Visits -> [pc : Pcs \cup AtRest, conn : BOOLEAN, ont : BOOLEAN, gen : 0..MaxDrafts + 1, ver : BOOLEAN]]
  /\ service.sync \in {"none", "syncing", "synced", "failed"} /\ service.docs \in {"none", "uploaded", "read"}
  /\ Len(service.gens) <= MaxDrafts + 1 /\ service.loads \subseteq Visits /\ faults \in 0..MaxFaults

\* Whatever fails, is lost, is left and tried again, the tab makes one of
\* each: the connector, the ontology, the draft that is used, the load.
MakesOne ==
  /\ service.conns <= 1 /\ service.onts <= 1
  /\ Cardinality(Drafts) <= 1 /\ Cardinality(service.loads) <= 1

\* A page left open, tried again whenever it stops, has the sample loaded in
\* the end (sample-tour.tsx:76-79).
IsOpen == here
IsLoaded == service.loads # {}
=============================================================================

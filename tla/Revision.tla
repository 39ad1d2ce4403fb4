------------------------------ MODULE Revision ------------------------------
(* The Edit tab of a version: edits are staged, previewed as one batch, and  *)
(* the batch a clean preview checked is created as a version, by hand or by  *)
(* Save as version's own second call.  The edits and the run belong to the   *)
(* version's page and outlive the tab; what the tab itself remembers (an     *)
(* unanswered call, an unstaged item) does not.                              *)
EXTENDS Naturals, Sequences, FiniteSets

CONSTANTS
  Items,       \* items of the version one may edit
  MaxGens,     \* bound: revisions queued
  MaxLeaves    \* bound: times the tab is left
RevisionConstants == MaxGens \in Nat /\ MaxLeaves \in Nat

VARIABLES
  edits, run,               \* the page's: pending edits, the revision it started
  open, pending, dirty,     \* the tab: on screen, a call of its own unanswered, an item unstaged
  noticed,                  \* what its effect last ran for: the generation and its status
  cached,                   \* per generation, the status the page last read
  posts,                    \* revise calls under way
  gens,                     \* the service's revisions, in the order queued
  wanted,                   \* ghost: what the user staged and did not take back
  leaves                    \* times the tab was left, which tells its mounts apart
revisionVars == <<edits, run, open, pending, dirty, noticed, cached, posts, gens, wanted, leaves>>

NoRun == [id |-> 0, snapshot |-> {}, save |-> FALSE]
NoGeneration == <<0, "none">>
Batches == SUBSET Items
States == {"none", "live", "refused", "revised"}
Gens == 1..MaxGens

RevisionInit ==
  /\ edits = {} /\ run = NoRun
  /\ open = TRUE /\ pending = FALSE /\ dirty = FALSE /\ noticed = NoGeneration
  /\ cached = [n \in Gens |-> "none"] /\ posts = {} /\ gens = <<>>
  /\ wanted = {} /\ leaves = 0

-----------------------------------------------------------------------------
StateOf(r, c) == IF r.id = 0 THEN "none" ELSE c[r.id]
IsLive(r, c) == StateOf(r, c) = "live"
Busy == pending \/ IsLive(run, cached)

\* Mutant: of whatever batch.
CanCreateFault(r, c, batch) == batch # {} /\ StateOf(r, c) = "revised" /\ gens[r.id].dry
\* canCreateRevision: a clean preview, of this exact batch.
CanCreate(r, c, batch) ==
  /\ batch # {} /\ r.snapshot = batch
  /\ StateOf(r, c) = "revised" /\ gens[r.id].dry

Post(batch, dry, save) == [batch |-> batch, dry |-> dry, save |-> save, tab |-> leaves, at |-> "sent", id |-> 0]
MadeVersion(n) == gens[n].state = "revised" /\ ~gens[n].dry
Versions == {gens[n].batch : n \in {m \in DOMAIN gens : MadeVersion(m)}}

\* The page with this run, these reads and these edits, and the effect that
\* runs when its generation or its status is another: a version made takes the
\* edits with it, and Save as version's clean preview creates it.
Shown(r, c, batch, waits, ps, isOpen, before) ==
  LET now == IF r.id = 0 THEN NoGeneration ELSE <<r.id, c[r.id]>>
      runs == isOpen /\ now # before
      made == runs /\ r.id # 0 /\ c[r.id] = "revised" /\ ~gens[r.id].dry
      goes == runs /\ r.save /\ CanCreate(r, c, batch) /\ ~waits /\ ~dirty
  IN /\ run' = r /\ cached' = c
     /\ edits' = IF made THEN {} ELSE batch
     /\ pending' = (waits \/ goes)
     /\ posts' = IF goes THEN ps \cup {Post(batch, FALSE, TRUE)} ELSE ps
     /\ noticed' = IF isOpen THEN now ELSE before

\* onDirty: an item is being edited.
Edit ==
  /\ open /\ ~Busy /\ ~dirty
  /\ dirty' = TRUE
  /\ run' = NoRun /\ noticed' = NoGeneration
  /\ UNCHANGED <<edits, open, pending, cached, posts, gens, wanted, leaves>>

\* Another item is chosen instead.
Drop ==
  /\ open /\ ~Busy /\ dirty
  /\ dirty' = FALSE
  /\ UNCHANGED <<edits, run, open, pending, noticed, cached, posts, gens, wanted, leaves>>

\* onSave, with stageEdit: at most one operation per item.
Stage(i) ==
  /\ open /\ ~Busy
  /\ edits' = edits \cup {i} /\ wanted' = wanted \cup {i}
  /\ dirty' = FALSE
  /\ run' = NoRun /\ noticed' = NoGeneration
  /\ UNCHANGED <<open, pending, cached, posts, gens, leaves>>

\* Undo, or the item put back as the version has it.
Undo(i) ==
  /\ open /\ ~Busy /\ i \in edits
  /\ edits' = edits \ {i} /\ wanted' = wanted \ {i}
  /\ run' = NoRun /\ noticed' = NoGeneration
  /\ UNCHANGED <<open, pending, dirty, cached, posts, gens, leaves>>

\* start, by Preview edits and by Create version.
Preview ==
  /\ open /\ ~Busy /\ ~dirty /\ edits # {}
  /\ pending' = TRUE /\ run' = NoRun /\ noticed' = NoGeneration
  /\ posts' = posts \cup {Post(edits, TRUE, FALSE)}
  /\ UNCHANGED <<edits, open, dirty, cached, gens, wanted, leaves>>

\* Mutant: the preview stays the page's run while its version is made.
CreateFault ==
  /\ open /\ ~Busy /\ ~dirty /\ CanCreate(run, cached, edits)
  /\ pending' = TRUE
  /\ posts' = posts \cup {Post(edits, FALSE, FALSE)}
  /\ UNCHANGED <<edits, run, noticed, open, dirty, cached, gens, wanted, leaves>>

Create ==
  /\ open /\ ~Busy /\ ~dirty /\ CanCreate(run, cached, edits)
  /\ pending' = TRUE /\ run' = NoRun /\ noticed' = NoGeneration
  /\ posts' = posts \cup {Post(edits, FALSE, FALSE)}
  /\ UNCHANGED <<edits, open, dirty, cached, gens, wanted, leaves>>

\* Save as version of the Enrich people form: what it stages, previewed.
SaveAsVersion(i) ==
  /\ open /\ ~Busy /\ ~dirty
  /\ edits' = edits \cup {i} /\ wanted' = wanted \cup {i}
  /\ pending' = TRUE /\ run' = NoRun /\ noticed' = NoGeneration
  /\ posts' = posts \cup {Post(edits', TRUE, TRUE)}
  /\ UNCHANGED <<open, dirty, cached, gens, leaves>>

\* The service: an ontology has one live generation.
Queue(p) ==
  /\ p.at = "sent"
  /\ \/ /\ \A n \in DOMAIN gens : gens[n].state # "live"
        /\ Len(gens) < MaxGens
        /\ gens' = Append(gens, [batch |-> p.batch, dry |-> p.dry, state |-> "live"])
        /\ posts' = (posts \ {p}) \cup {[p EXCEPT !.at = "answered", !.id = Len(gens) + 1]}
     \/ posts' = (posts \ {p}) \cup {[p EXCEPT !.at = "answered"]} /\ UNCHANGED gens
  /\ UNCHANGED <<edits, run, open, pending, dirty, noticed, cached, wanted, leaves>>

Finish(n) ==
  /\ gens[n].state = "live"
  /\ \E s \in {"refused", "revised"} : gens' = [gens EXCEPT ![n].state = s]
  /\ UNCHANGED <<edits, run, open, pending, dirty, noticed, cached, posts, wanted, leaves>>

\* The call's answer: its run is the page's whatever the tab does meanwhile.
Mine(p) == open /\ p.tab = leaves
Answered(p) ==
  /\ p.at = "answered" /\ p.id # 0
  /\ Shown([id |-> p.id, snapshot |-> p.batch, save |-> p.save], [cached EXCEPT ![p.id] = "live"],
           edits, pending /\ ~Mine(p), posts \ {p}, open, noticed)
  /\ UNCHANGED <<open, dirty, gens, wanted, leaves>>

\* It was refused, or its answer was lost: Save as version lets its run go.
Failed(p) ==
  /\ Shown(IF p.save THEN NoRun ELSE run, cached, edits, pending /\ ~Mine(p), posts \ {p}, open, noticed)
  /\ UNCHANGED <<open, dirty, gens, wanted, leaves>>

\* The generation is read: while it is live, and again as the tab opens.
Poll ==
  /\ open /\ run.id # 0 /\ cached[run.id] # gens[run.id].state
  /\ Shown(run, [cached EXCEPT ![run.id] = gens[run.id].state], edits, pending, posts, open, noticed)
  /\ UNCHANGED <<open, dirty, gens, wanted, leaves>>

\* The tab is left for another, and opened again with nothing of its own.
Leave ==
  /\ open /\ leaves < MaxLeaves
  /\ open' = FALSE /\ leaves' = leaves + 1
  /\ UNCHANGED <<edits, run, pending, dirty, noticed, cached, posts, gens, wanted>>

Return ==
  /\ ~open /\ open' = TRUE /\ dirty' = FALSE
  /\ LET fresh == <<0, "unmounted">> IN Shown(run, cached, edits, FALSE, posts, TRUE, fresh)
  /\ UNCHANGED <<gens, wanted, leaves>>

RevisionNext ==
  \/ Edit \/ Drop \/ Preview \/ Create \/ Poll \/ Leave \/ Return
  \/ \E i \in Items : Stage(i) \/ Undo(i) \/ SaveAsVersion(i)
  \/ \E p \in posts : Queue(p) \/ Answered(p) \/ Failed(p)
  \/ \E n \in DOMAIN gens : Finish(n)

RevisionSpec == RevisionInit /\ [][RevisionNext]_revisionVars

-----------------------------------------------------------------------------
RevisionTypeOK ==
  /\ edits \in Batches /\ wanted \in Batches
  /\ run \in [id : 0..MaxGens, snapshot : Batches, save : BOOLEAN]
  /\ open \in BOOLEAN /\ pending \in BOOLEAN /\ dirty \in BOOLEAN
  /\ noticed \in (0..MaxGens) \X States
  /\ cached \in [Gens -> States]
  /\ \A p \in posts : p \in [batch : Batches, dry : BOOLEAN, save : BOOLEAN, tab : 0..MaxLeaves,
                            at : {"sent", "answered"}, id : 0..MaxGens]
  /\ Len(gens) <= MaxGens
  /\ \A n \in DOMAIN gens : gens[n] \in [batch : Batches, dry : BOOLEAN, state : States]
  /\ leaves \in 0..MaxLeaves

\* A preview authorizes exactly its batch: whatever is edited, left, answered
\* late or lost in between, every version asked for is one a clean preview
\* checked whole (edit-model.ts:1246, version-edit.tsx:148).
Asked == {n \in DOMAIN gens : ~gens[n].dry}
Clean(batch) == {n \in DOMAIN gens : gens[n].dry /\ gens[n].state = "revised" /\ gens[n].batch = batch}
CreatedWasPreviewed == \A n \in Asked : Clean(gens[n].batch) # {}

\* While the tab stays open, a clean preview makes one version, not two
\* identical ones, though a create may be refused or its answer lost.
OneVersionEach ==
  leaves = 0 => \A n \in Asked : Cardinality({m \in Asked : gens[m].batch = gens[n].batch})
                                  <= Cardinality(Clean(gens[n].batch))

\* What the tab's comment says of leaving it: a create's edits are cleared
\* once it has made a version (version-edit.tsx:149-153), and no others.  An
\* edit the user staged is pending until a version holds it.
EditsOutliveTheTab == wanted \subseteq edits \cup UNION Versions
=============================================================================

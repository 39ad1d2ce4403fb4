# Helix Foundry, specified

TLA+ specifications of Helix Foundry (`src/plugins/helix-foundry`), the TLC runs
that check them and the proofs the TLA+ proof system checks. They model two
things: how *an ontology's data gets into a graph database and stays what its
rows say it is* (the Go backend: one live graph job of each ontology, the leases
its workers hold, what happens to loads and documents around it), and *what the
web console keeps while its answers come late, fail or come in another order*
(TypeScript: sessions, tokens, limited reads, edits, questions, uploads, the
sample's tour, the explorer, the data tree).

    tlc -workers 2 -config documents.cfg MCFoundryGraph.tla
    tlc -workers 2 -config console.cfg MCConsole.tla
    tlapm FoundryGraphProofs.tla
    tlapm CallProofs.tla

`PROJECT.json` maps each definition to the lines it translates, and lists the
runs, the mutants, the hazards, the findings and the theorems.

Paths below are under `src/plugins/helix-foundry/backend` (`store/`,
`workers/`, ...) or, for the console, `src/plugins/helix-foundry/src` (`web/`,
`server/`, `app/`), unless they start with `src/`.

## 1. The system

The repository is a catalogue of plugins and skills. Most are text an agent
reads or thin wrappers of one tool. Helix Foundry is the one with a core of its
own: a Go backend that connects data sources, drafts an ontology of them, loads
versions of it into HelixDB (a graph database) and answers questions over the
result, and a Next.js console over it. The backend's state is in MySQL; work is
done by workers that claim leased rows. The console's is in the browser (a tab's
memory, cookies every tab shares) and in the few maps of the server that stands
between the two (the BFF).

Terms: an **ontology** has versions; a **load** is one writing of a version's
data into the graph database; the **current** load is the one queries read; a
**refresh** is a load (or an in-place **apply**) that brings the current one
up to date with synced tables; a load's documents are those that **joined** it
(its members); an **extract** job reads documents into the current load and
takes deleted ones out; a **delete** job takes a load out of the database.

| Component | State it keeps | Operations | Modelled in |
|---|---|---|---|
| Graph jobs (`store/foundry_graph_jobs.go`) | per ontology at most one live job: kind, load, status, phase, owner, lease, attempts | claim, renew, update, record, finish (retry, merge, end, hand over, queue the next) | FoundryRows, FoundryGraph; the lease in GraphLease |
| Loads (`store/foundry_loads.go`) | status, origin, what it refreshes, scope; the ontology's current load | create (preempting a refresh, an apply or a delete), make current, delete, retain, queue an extract or a delete | FoundryRows, FoundryGraph |
| Ontologies (`store/foundry_ontologies.go`) | deleted, database held, owed extract, refresh on and due | delete, resume a drain, refresh on and off, owe and queue a refresh | FoundryRows, FoundryGraph |
| Documents (`store/foundry_documents.go`, `foundry_document_removals.go`) | status, set; per load: membership and what extraction recorded | complete an upload, move, delete, fan out, list waiting and removed, record | FoundryRows, FoundryGraph |
| Graph worker (`workers/foundry-graph-worker`) | in memory only: the attempt, its lists, its fence | drain, process, renewLease, fence, ingest, extract, deleteLoad, finish | FoundryGraph, GraphLease |
| Graph proxy (`graphproxy`) | requests in flight | admit or refuse a write, drain | GraphLease (admission and landing) |
| Ontology agent (`ontologyagent`, a service of its own) | the graph database | Ingest, Extract, DeleteLoad | external, from how the worker drives it |
| People enrichment (`enrichment`, `store/foundry_enrichment.go`, its worker) | a step per load, credits, consent, purges | prepare, queue, claim, batch, charge, end, stop, park and wake the job, purge | planned |
| Ontology generations (`store/ontology_generations.go`, its worker) | a leased generation per ontology, versions | enqueue, claim, renew, finish (make current, start a load) | a version's batch, queued and finished, in Revision; the rest planned |
| Document reads (`store/foundry_document_reads.go`, its worker) | a leased read per document and mode | claim, renew, finish (wake extracts) | planned |
| Connector syncs and snapshots (`syncer`, `snapshot`, `store/connector_*.go`) | a leased sync per connector, tables, change batches, replaced snapshots | enqueue, claim, requeue, finish, upsert, prune, sweep | planned; that a sync owes a refresh is in FoundryGraph |
| Questions and boosts (`store/foundry_questions.go`, `boosts.go`, ask worker) | leased questions, reservations, boosts | ask, claim, append, settle, cancel | what Analyst sees of it (ask, attempts, events, ends) in Chat; the rest planned |
| Budgets and allowances (`store/foundry_document_set_spend.go`, `store/model`) | spent and reserved amounts | sums and caps | drawn here; planned as a pure module |
| Event sources, notifications | rendered events; mail owed | take in, send, follow up | not modelled |
| Connectors, AI providers, file sources | none of their own | clients of other systems | not modelled |
| Service API, configuration, directory, local mode | none | check a request, call one store transaction | the transactions are |
| Data layouts (`store/foundry_data_layouts.go`) | per workspace: a layout and its revision | read, write at a revision | DataTree |
| Sessions (`web/api.ts`, `server/session.ts`, `single-flight.ts`, `papi-handler.ts`, `session-headers.ts`) | the session cookie, what each tab knows of its expiry, a lock, refreshes running per instance | call, refresh, refuse, call again, sign out | Session |
| CSRF tokens (`web/api.ts`, `server/csrf.ts`) | a cookie, a token per tab | fetch, check, renew once | CsrfTokens |
| Sign-in (`app/auth/login`, `app/login/callback`, `server/login-transaction.ts`) | a transaction cookie per sign-in | start, come back, expire | Logins |
| Explorer's requests (`web/areas/explore/explorer/lib/request-limiter.ts`, `useExplorerGraph.ts`) | tokens, slots, a queue, who superseded whom | acquire, wake, retry, abort | RequestLimiter |
| Explorer's graph (`useExplorerGraph.ts`, `lib/graph-store.ts`, `lib/seeding.ts`, `lib/queries.ts`) | the canvas, cursors per side of a node, sizes, what was confirmed | first view, expand, label pages, connect, count, reveal, clear, refresh | Explorer; late counts in LateCounts |
| Version edits (`web/areas/ontology/version-edit.tsx`, `edit-model.ts`) | staged edits, a run, unanswered calls | stage, preview, create, save as version, leave the tab | Revision |
| Analyst (`ask.tsx`, `ask-model.ts`, `queries.ts`) | a composer, a list of questions, a stream per question | ask, poll, fold | Chat |
| Uploads (`web/areas/documents/uploads.tsx`, `documents-api.ts`) | a card per file | add, create, put, complete, retry | Uploads |
| Sample tour (`web/areas/ontology/sample-tour.tsx`) | a walk per visit | walk, fail, try again | SampleTour |
| Data tree (`web/areas/data/use-tree.ts`, `layout.ts`) | the layout and lists read, changes not saved yet | change, save, save again, undo | DataTree |
| The rest of the console, generated code, SQL plugin, Terminal for macOS, skills and small plugins | a form's, or none | | not modelled |

### How the parts meet

- **Through MySQL rows.** Every transaction modelled in FoundryRows runs under
  the ontology's row lock (`lockFoundryOntology`), so it is one atomic step.
  People, uploads, syncs and workers meet nowhere else.
- **Through a lease.** A worker claims a due job, or a running one whose lease
  lapsed, for `foundry.graph.lease`, and renews it while it works. Nothing stops
  a worker that lost its job except its own next renewal, its fence, or a write
  refused because the row is no longer its own.
- **Through the proxy.** The agent writes to the graph database through a
  proxy the attempt owns; the proxy admits writes while the attempt runs and
  never cuts one short, so a write may land after its attempt ended.
- **Through the agent's stream.** The agent commits a document and then says
  so; the worker then records it. A crash fits between.

- **In the console**, a part asks Foundry and acts on the answer; between the two
  anything else may have happened: other calls of the tab, other tabs, other
  people. Parts share no state but what Foundry holds and the browser's cookies,
  so each is a module of its own. Sessions and CSRF tokens lie under every call,
  and the others see them as a call that fails; the limiter lies under every
  read of the explorer, which sees a read that waits.

### What is hard here

1. *Stale attempts.* A user's load cancels the refresh a worker is writing; a
   deletion cancels anything; a crashed worker's job goes to another. The old
   attempt runs on for a while, with everything it remembers out of date.
2. *What follows a job.* Every end of a job chooses among merging new
   documents, handing a refresh to a full load, an owed extract, the next
   delete, or nothing. Whatever arrived while it ran has to be in that choice.
3. *Two records of one fact.* Membership and extraction rows say what a
   load's graph holds. Commit and record are separate, deletion and listing
   interleave, and each job kind carries part of the duty.
4. *Which load serves.* Ends of loads, people's choices, retention, partial
   refreshes and deletion all move or constrain the current load.
5. *Time.* A fence measured on one clock has to keep a lease measured on
   another, with renewals whose answers are late or lost.
6. *Things that are spent once.* A refresh token, a CSRF token, a question's client
   token, an upload's, a clean preview: each is good once, and retried calls,
   several tabs and several instances all want it.
7. *Answers that come late.* A read of before Clear, an older search, a cookie of
   before a sign-out, a list read before a write: it must not land.
8. *Chains of reads.* Expanding or seeding a graph queues reads that queue reads,
   over nodes removed meanwhile, by a cursor that must not skip.
9. *Writes by revision.* A save refused is made again on what someone else wrote.

What makes each component correct, and the property that says so:

| Component | Correct when | Property |
|---|---|---|
| Graph jobs | an attempt that passes the fence is an attempt of the live job | Fenced |
| | no load waits for a delete and no extract is owed with no job to do it | NothingForgotten |
| | an owed extract is served even while documents keep arriving | OwedIsServed |
| Loads | queries always have a load that serves, its tables in | CurrentServes |
| | a load being written is the live load job's, and a job works on a load in a state its kind works on; each ends | JobAndLoadsAgree, LoadsEnd |
| | a refresh replaces only what it refreshed, a partial one only without loss | RefreshNeverOverrules, PartialRefreshKeepsDocuments |
| Ontologies | a deleted one drains, and lets go of its database only when empty | Drains, ReleasedOnlyWhenEmpty |
| Documents | what is recorded extracted is in the graph | ExtractedIsWritten |
| | a deleted document stays due out of the loads that serve | RemovalsStayScheduled |
| | a document leaves a load only deleted and out of its graph | LeavesOnlyOnceOut |
| | a deleted load has left nothing, not even a late write | DeletedLeavesNothing |
| Worker, proxy, lease | one attempt at a time, and one writer at a time | OneAttempt, OneWriterAtATime |
| | a claim finds no earlier write in flight | SettledAtClaim |
| Sessions | a refresh token is spent once, but for the reasons the code gives up on | SpentTwiceOnlyExcused |
| | nothing late brings back a session that was signed out | SignedOutStays |
| CSRF tokens | one renewal is enough unless what it is checked against changed | RejectedOnlyWhenUpset |
| Sign-in | tabs side by side do not take one another's transaction | LostOnlyToMany |
| Explorer's requests | whoever waits is woken, and no slot leaks | NoLostWakeup |
| | only the newest search lands; nothing of before a refresh does | NewestLands, LateNeverLands |
| Explorer's graph | a large side is read only if the user said so, or a count without the hidden labels found it small | LargeOnlyWhenAsked |
| | pages skip no edge | PagesSkipNothing |
| | whatever is asked ends | OperationsEnd |
| | no label loses its count | NoLabelLost |
| Version edits | a version is of a batch a clean preview checked, once | CreatedWasPreviewed, OneVersionEach |
| Analyst | asked again is asked once | AskedOnce |
| | a stream is its log's latest attempt, and its end is shown | StreamIsTheLog, EndIsShown |
| Uploads | done means the bytes are in | DoneIsUploaded |
| Sample tour | one of each, and it ends | MakesOne, TourEnds |
| Data tree | a write makes its own change and undoes nobody's | NothingUndone |

The hazards behind these, each at its line, are PROJECT.json's `hazards`. Two have
no property that covers them, with the reason there.

## 2. The modules

| Module | What it is |
|---|---|
| `FoundryRows` | the rows of one ontology and its transactions, as operators from the rows before to the rows after |
| `FoundryGraph` | people, syncs, uploads and graph workers taking those transactions in any order; the properties |
| `FoundryGraphProofs` | its types and the fence; what each transaction does to jobs and loads (`Agree`); what is written and what is remembered of it (with `Agree`, the invariant `Full` and most of the theorems); that removals stay due |
| `OneWriter` | the abstract promise of a lease: writers one at a time, each after the last has settled |
| `GraphLease` | one job's claims, renewals, fence and writes in flight, in discrete time; implements OneWriter |
| `GraphLeaseProofs` | its inductive invariant, theorems, and the refinement |
| `MCFoundryGraph`, `MCGraphLease` | symmetry sets for TLC |
| `Session`, `CsrfTokens`, `Logins` | what a call of the console needs of its browser and of the BFF |
| `RequestLimiter`, `LateCounts`, `Explorer` | the graph explorer: its requests, its counts, its canvas |
| `Revision`, `Chat`, `Uploads`, `SampleTour`, `DataTree` | a version's edits, Analyst, upload cards, the sample's tour, the connectors' tree |
| `Console` | the console: the sum of those parts, whose bounds are all its CONSTANTS; the properties the runs check |
| `MCConsole` | its small instance, and the parts' assumptions for TLC to evaluate |
| `ChatProofs` | Chat's types, over Chat's own constants |
| `FormProofs` | proofs about Uploads, Revision, SampleTour and Chat; Console's two Chats instantiate ChatProofs |
| `CallProofs` | proofs about Session, CsrfTokens, Logins and RequestLimiter |
| `ExplorerProofs` | proofs about LateCounts and Explorer |
| `TreeProofs` | what DataTree's operators do to sequences and layouts, and the proofs about it |
| `ConsoleProofs` | what follows of the console as a whole from the four before it |
| `MCSelfLoop` | the explorer over a graph with an edge from a node to itself |
| `MCHiddenLabels` | the explorer over a side with many neighbors, but few by edges of labels that are shown |

### FoundryRows and FoundryGraph

`db` is one record, what MySQL holds: the ontology (`deleted`, `held` for its
database, `current`, `owed` for its owed extract, `autoRefresh`, `refreshDue`),
each load's `status`, `origin`, `refreshes`, `scope`, `members` and
`extraction`, each document's `docStatus` and `docSet`, and the live `job`
(NoJob with none: `foundry_graph_jobs_active_uq` lets there be only one).
`attempt` is a worker's memory; `tables` and `graph` are what the agent wrote.

A transaction is an operator of FoundryRows named after its function:
`QueueAfter` is `queueAfterFoundryGraphJob`, `EndLoad` is `endFoundryLoadWork`
of a load, and so on; the `map` gives lines. What a transaction draws from
outside is a parameter, quantified where FoundryGraph calls it: whether the
month has budget, whether the caller may write the ontology's database, which sets' allowance held
documents back, whether the load an apply updated is old enough to rebuild.

An attempt is split where other actors can get in between: claim; the phase
recorded (the fence is checked); the agent's Ingest; the waiting documents
read; the removed ones read; each document ended by the agent; each record
under the fence; the last phase; the finish. It can also be stopped (refused,
retried, or by no fault of its own), lose its lease, find a document's text
gone, have its removal's record or its finish refused by the database, or die with
its process. It can run out of budget, or of a model that failed for good, at any
document, the last one and the sweep after it included.

The agent is external. `Served` is what is assumed of it: it writes for an
attempt that holds its job; for one whose job was cancelled or taken over it may
go on until the worker's renewal finds so, but not beside or after the delete
of the same load, which the agent's contract refuses. That a lapsed lease has
always ended its attempt is not assumed out of the blue: it is what
GraphLease proves (`Lapsed` relies on it).

### The console's modules

Each has the tab's state as it is in a component's or a module's variables, one
action per handler, per promise that settles and per timer, and the service as
the rows those calls make. A request is three steps where others get in
between: sent, acted on, answered; its answer may be lost after it acted. What
React reads when it renders is read in the step; what a closure read earlier is
part of the call's record.

- **Session**. Cookie *n* seals access token *n* and the refresh token *n* that
  makes cookie *n* + 1. `call` follows a call from the tab through the Web Lock,
  an instance of the BFF, the API and back; `flight` and `explicit` are the two
  single-flight maps of each instance. `excused` collects the cookies whose
  second refresh the code says it does not prevent: by a call without the lock,
  after the API refused a valid token, or past the grace period. A 401 expires the
  cookie only when one came along; a sign-out may be refused for its CSRF token, and
  then signs nothing out.
- **CsrfTokens**. A token per tab, the one cookie they share, the session it was
  made for. `upset` collects the calls whose token or session someone replaced
  between their renewal and its check.
- **Logins**. The transaction cookies of a browser, and for each sign-in the set of
  those started after it (`later`): the order in which the cookies are dropped.
- **RequestLimiter**. The token bucket in ticks, the queue, the slots, keyed
  requests, operations that exclude each other, and aborts. `newest` remembers
  the last of each key asked.
- **LateCounts**. `rail` is what each label shows; `counts` the requests under
  way, those of an abandoned boot among them.
- **Explorer**. A graph of three nodes and three edges; an operation is one record
  with its stage, its queue of nodes and what it read, and sends one read at a
  time. `seen` remembers which edge each page returned. What a node's size is known
  from is kept apart as the code keeps it: a probe of its neighbors, a count of its
  edges, and a degree (`degrees`, its large sides in `heavy`), which overrules the
  other two. The user may hide edge labels: `Src` and `Dst` are the edges shown, and
  a side in `Veiled` is over the threshold but not by those. Probes see every edge
  and degrees only the shown, so such a side may turn small; `thinned` remembers
  those that did. Left out: layout, search ranking, the inspector, filtering by one
  edge label, hiding a label later on, and that a side the probe found empty is not
  counted (here it is, and found empty again). `Revealed` reads its pages
  one after another, where the code reads a few at a time; the sample's seed is
  not asked for again while an earlier seeding still reads.
- **Revision**. Staged edits, the run they previewed, posts unanswered; the
  version page keeps the first two, the tab the last.
- **Chat**. The composer under a client token, the list's poll, and a stream
  folded from pages of events of several attempts. A question may end at any time,
  before an agent started on it too.
- **Uploads**. Cards by file, the workspace's one document per content, another
  tab uploading the same. Deleting documents is left out, a delete that runs beside
  a completion and is answered with the deleted document included.
- **SampleTour**. A walk per visit of the page, over what Foundry holds; what it
  reads and what it asks for may fail. The folders and the first question are left out: neither is waited for.
- **DataTree**. The stored layout and its revision; per page the layout and
  lists it read, the changes it shows, the save under way and the layout's GET.
  `applyChange` and what it is built of (`prune`, `inOrder`, `placeBefore`) are
  translated as they are; sets and documents, which are ordered the same way,
  and the caps of 50 folders and 64 KiB are left out. A workspace that never
  wrote a layout is left out, and the lists are read in one step. Connectors are
  numbered as they are created, so the order the lists have them in is the numbers';
  `KindOrder` is the WFE's order of kinds. An order is filtered by one recursive
  function, `Only`, which everything else that arranges is written with.

`Console` is their sum, not their product: since they share no state, a
behaviour is one part's (`part`, chosen at the start), and `v1` to `v17` are
whichever variables that part has. A property of a part is stated as it is in its
module and says nothing of the others. Every bound and value of every part is a
CONSTANT of Console, so what is proved is proved of the module the runs check;
`MCConsole` only gives the values. There `o1` and `o2` are model values TLC may
exchange: the two operations, instances, items, texts or pages of a part that
does not tell them apart.

### GraphLease

Clocks would make the state space grow with time, so each instant the code
keeps is held as the time left to it: `left` of the lease, `wait` until a
queued job is due, `fence` until an attempt is cancelled, `flight` until every
admitted write has landed; `age` is how long ago a claim or a renewal read the
clock. `Tick` moves them all. What the code does not bound is a constant:
`ClaimDelay`, the time a claim's transaction takes after it read the clock;
`Skew`, how far MySQL's clock may be ahead of a worker's; `WriteTime`, how long
an admitted write takes to land. `LeaseAssumption` holds what the configuration
is refused without (a lease and a backoff of at least two Helix timeouts). A retry
waits the backoff; a success with documents still unrecorded (`Merge`) queues the
job again at once, with no wait, since every write it made was answered.

## 3. What is checked

| Run | Bounds | What it shows |
|---|---|---|
| `documents` | 2 loads, 1 document, 1 set, 1 worker, 1 attempt, retain 2 | a document's whole life while two loads replace one another: NothingForgotten, DeletedLeavesNothing, ExtractedIsWritten, RemovalsStayScheduled, PartialRefreshKeepsDocuments (1.6M states) |
| `lifecycle` | 3 loads, no documents, 2 attempts, retain 2 | jobs, loads and the current load in step: JobAndLoadsAgree, CurrentServes, ReleasedOnlyWhenEmpty, RefreshNeverOverrules (233k) |
| `ends` | 1 load, 1 document, 2 sets, one in scope, 1 worker, 2 attempts, fair | OwedIsServed, LoadsEnd, LeavesOnlyOnceOut (52k) |
| `drains` | 2 loads, no documents or sets, 2 workers, 1 attempt, retain 1, fair | stale and fresh attempts of two workers: Fenced; Drains (197k) |
| `lease` | 3 workers, Lease 9, HelixTimeout 4, backoff 8, ClaimDelay 1, Skew 1, WriteTime 2 | OneAttempt, Fencing, SettledAtClaim, and that GraphLease implements OneWriter (2.8k) |
| `console` | below | the twelve parts of the console: fifteen invariants, NewestLands, LateNeverLands, NothingUndone (4.1M) |
| `console_live` | below, fair | EndIsShown, TourEnds, OperationsEnd (38k) |

The parts of `console`, each with the least that reaches its hazards:

| Part | Bounds |
|---|---|
| session | 2 tabs, one call each, 2 instances, 2 cookies, tokens the API may refuse |
| csrf | 2 tabs, 3 unsafe calls (two of one tab), 3 tokens, 2 sessions |
| logins | 3 sign-ins, 1 kept (the code keeps more; the boundary is the same) |
| limiter | 3 requests, 1 slot, 1 token, 1 retry, 1 refresh |
| counts | 3 named labels, 2 seen later, 1 counted a request, 1 late request, 1 wait, 2 boots |
| revision | 2 items, 3 revisions, the tab left once |
| composer | 2 texts, 2 questions, 2 submissions |
| stream | 1 question of 4 events, pages of 2 |
| uploads | 3 files of 2 contents, 2 tries |
| tour | 3 visits, 3 faults, 1 failed draft, a sync that may fail |
| explorer | 3 nodes, one side with too many neighbors, most by edges of hidden labels, and one with too many edges, pages and rows of 1, a canvas of 2, 2 operations at once, 2 asked |
| tree | 2 pages, 2 connections and a third made meanwhile, one kind, 2 folders, 6 changes of which 2 are made, 1 mishap (a lost write, a read that fails or comes again, a connection deleted) |

Two tabs, pages, operations or requests reach every pairing of a fresh one with a
stale one. Page sizes and caps of one put every boundary inside the instance: the
canvas overflows, a side takes two pages, a bucket is empty, a label waits. The
tree's two changes are one each of two pages, or two of one page queued; revisions
beyond the second refusal end in the same undo.

**Why the bounds are enough.** A transaction relates at most three loads: the
one worked on, the current one, and one past retention or waiting for its
delete. `lifecycle` has all three; two suffice for what relates a load to the
one it replaces. Documents meet only in the lists an attempt holds, so one
document reaches every interleaving of its own life; `ends` takes two sets so that
one is out of scope. Two attempts reach both a retry
and giving up (`lifecycle`, `ends`); at 1 the first retry is the give-up, and a job
still goes back for what is not counted, or to the other worker when its lease runs
out (`documents`, `drains`). Retention at 1 and 2 puts
the boundary at and next to the current load. Two workers reach every pairing
of a holder with a stale one: a job has one holder, and stale attempts do not
see each other. The lease's numbers are the smallest that keep the
configuration's inequalities with the margin exact (1 + 1 + 2 = 4).

**Bounds in the guards.** `MaxLoads` bounds the loads ever created: a load is
created, and a refresh queued, only while an id is left (`Fresh`); an apply's
hand-over takes one. The attempts counter stops at `MaxAttempts + 1`, where the
code gives up whatever the count. In the console's modules every bound is a
CONSTANT commented `bound:`; it guards what people ask for and what goes wrong,
never what the code does about it.

**Deadlock** is checked in `lease`, where time always goes on, and off in
FoundryGraph, where the system may stop: a deleted ontology that has
drained, with every document deleted, has nothing left to do; and off in the
console, where a tab may have nothing left to ask.

**Fairness** (`FairSpec`). Weak fairness of: some worker's claim (each polls on a
ticker, and one suffices), each worker's steps when nothing goes wrong, the
renewal that finds a lost lease (renewed on a ticker), and the finish (called on
every path out of `process`). People, syncs and documents have none: nobody has
to do anything. `Calm` says that interruptions (a process dying, a finish the
database refuses, a stop that does not count as an attempt) are not for ever:
each gives the job back with its attempts unchanged or its lease to run out, so a
system deployed again and again for ever would make no progress, and the code
does not claim it. It does not bound failures of attempts: those are counted.

In the console (`LiveSpec`): polls are timers, so they fire (WF); a read polled
again and again, though it may fail each time, lands in the end (SF of its answer),
and an agent's question ends, which its worker's lease and budget see to. The tour's
walks go on and Foundry's jobs end; the user tries again as long as the page says
to, which is what the page asks of them, and leaves and opens it as often as they
like. Each of the explorer's reads is answered, refused or timed out (the API ends
a long query with `query_timeout`). Nobody has to ask for anything else. `TourEnds` is checked
with syncs that do not fail, for the reason below.

**Mutants.** Definitions whose names end in `Fault` are plausible slips of the
definition after them. They are used by nothing; substituting one must break a
property, and `PROJECT.json`'s `mutants` says which. Every property of a passing
run has one.

### Where the code and what it says differ

Each is a run that TLC must refute, and a finding in PROJECT.json.

| Run | Says | Does |
|---|---|---|
| `set_current` | an extract is queued if the current load "holds deleted documents to take out, whatever the budget" (`store/foundry_loads.go:441`) | under a live job, making a load current owes one only for documents that wait |
| `members_only` | what a load "still holds and must take out of its graph" is listed (`store/foundry_document_removals.go:12`) | a document deleted between the two lists an attempt reads is taken out, forgotten, then extracted again, and its record refused: it stays in the graph unlisted |
| `self_loop` | the explorer pages "after the largest edge id" of a side (`web/areas/explore/explorer/lib/graph-store.ts:612`) and says every neighbor "is already loaded" (`useExplorerGraph.ts:1800`) | an edge from a node to itself, returned for the other side, moves the cursor past edges no page returned |
| `hidden_labels` | "a side over the threshold, or one whose size couldn't be checked, is only read once the user confirmed that side" (`useExplorerGraph.ts:1760`) | counts leave the hidden labels out (`:2050`, `:2091`) and overrule the probe (`graph-store.ts:370`): such a side turns small, and is expanded unwarned, every edge of it read (`lib/queries.ts:1079`) |
| `edits_outlive` | the staged edits "outlive this tab" and "a created version holds the batch now" (`web/areas/ontology/version-edit.tsx:151`, `:213`) | edits staged after coming back, while a version is made, are cleared with the batch though no version holds them |

Others were met while modelling, and have no run:

- `store/foundry_graph_jobs.go:507` says replaced refreshes are deleted "so
  refreshes never crowd out a customer's loads"; failed ones count against
  retention (`foundry_loads.go:399`).
- `api/documents.go:378` says of a deleted document "What it put in databases stays
  there."; the next extract takes it out.
- `workers/foundry-graph-worker/task.go:341` says "A write admitted before then lands
  before the lease could lapse". The lease starts before the claim's transaction
  and the fence after it, so a write that takes the whole timeout may outlast the
  lease by the claim's own time. `Margin` below is what makes it true.
- `web/areas/ontology/sample-tour.tsx:223` syncs the sample's connection only when it
  never was: after a sync that failed, Try again finds the same failure. `TourEnds`
  fails if a sync may.
- `web/api.ts:48` takes turns under a lock "so the BFF spends the single-use refresh
  token once"; a call of a tab that knows a token still fresh holds no lock.
  `SpentTwiceOnlyExcused` names the cases.
- Analyst's composer disables its button while the thread's last question is live;
  the shortcut submits the form all the same, and a second question is asked.
  And a question edited after its answer was lost is refused, its token being the
  first one's, until the box is cleared by an answer.
- `web/areas/documents/documents-api.ts:362` takes a retry's existing document as its
  own: an upload retried onto someone else's bytes counts as a new document
  (`uploads.tsx:60`).
- Neighbors dropped by the canvas's cap, or removed and read again, may lie behind
  their side's cursor: paging does not bring them back. `PagesSkipNothing` is about
  what pages return, not what stays.
- `web/areas/data/layout.ts:31` says only "ids the workspace doesn't have" are dropped
  by a write. A write made with lists read before a connection was made drops that
  connection's place too; only a refused write reads the lists again
  (`use-tree.ts:124`). `NothingUndone` is about the connections the page's lists
  were not too old to have.
- A read of the layout begun before a save and answered after it puts the layout
  of before back on screen until the next read (`use-tree.ts:134` sets the data
  without cancelling the read). What is stored is not affected: the next write is
  refused, and made again.

Two facts the properties state around, rather than refute: a failed attempt
drops what its load was still to take out (`JobFails` in
RemovalsStayScheduled), and so does a removal MySQL refuses to record, which is
only logged (`RemovalUnrecorded`).

## 4. What is proved

TLAPS checks these for every value of the constants that meets the assumption.

| Theorem | Module | States | Assumes |
|---|---|---|---|
| `RowsTyped` | FoundryGraphProofs | Spec => []TypeOK | RowsAssumption |
| `AttemptsAreFenced` | FoundryGraphProofs | Spec => []Fenced | RowsAssumption |
| `LoadsHaveTheirJob` | FoundryGraphProofs | Spec => []JobAndLoadsAgree | RowsAssumption |
| `QueriesAreServed` | FoundryGraphProofs | Spec => []CurrentServes | RowsAssumption |
| `NothingIsForgotten` | FoundryGraphProofs | Spec => []NothingForgotten | RowsAssumption |
| `DeletesAreComplete` | FoundryGraphProofs | Spec => []DeletedLeavesNothing | RowsAssumption |
| `ReleasesAreEmpty` | FoundryGraphProofs | Spec => []ReleasedOnlyWhenEmpty | RowsAssumption |
| `RecordsAreWritten` | FoundryGraphProofs | Spec => []ExtractedIsWritten | RowsAssumption |
| `RefreshesNeverOverrule` | FoundryGraphProofs | Spec => RefreshNeverOverrules | RowsAssumption |
| `PartialRefreshesKeepDocuments` | FoundryGraphProofs | Spec => PartialRefreshKeepsDocuments | RowsAssumption |
| `DocumentsLeaveOnceOut` | FoundryGraphProofs | Spec => LeavesOnlyOnceOut | RowsAssumption, one worker |
| `RemovalsStayDue` | FoundryGraphProofs | Spec => RemovalsStayScheduled | RowsAssumption |
| `LeaseIsFenced` | GraphLeaseProofs | Spec => []Fencing | LeaseAssumption, Margin |
| `AttemptsAreAlone` | GraphLeaseProofs | Spec => []OneAttempt | LeaseAssumption, Margin |
| `ClaimsAreSettled` | GraphLeaseProofs | Spec => SettledAtClaim | LeaseAssumption, Margin |
| `LeaseImplementsOneWriter` | GraphLeaseProofs | Spec => OneWriterAtATime | LeaseAssumption, Margin |
| `CardsTellTheTruth` | FormProofs | Spec => []DoneIsUploaded | UploadConstants |
| `VersionsWerePreviewed` | FormProofs | Spec => []CreatedWasPreviewed | RevisionConstants |
| `PreviewsPay` | FormProofs | Spec => []OneVersionEach | RevisionConstants |
| `TourMakesOne` | FormProofs | Spec => []MakesOne | TourConstants |
| `AskedIsMadeOnce` | FormProofs | Spec => []AskedOnce | |
| `StreamsAreTheirLog` | FormProofs | Spec => []StreamIsTheLog | ChatConstants |
| `NoWakeupLost` | CallProofs | Spec => []NoLostWakeup | LimiterConstants |
| `OnlyTheNewestLands` | CallProofs | Spec => NewestLands | LimiterConstants |
| `RenewedOnce` | CallProofs | Spec => []RejectedOnlyWhenUpset | CsrfConstants |
| `SpentOnceUnlessExcused` | CallProofs | Spec => []SpentTwiceOnlyExcused | SessionConstants |
| `SignedOutForGood` | CallProofs | Spec => []SignedOutStays | SessionConstants |
| `SignInsStandApart` | CallProofs | Spec => []LostOnlyToMany | LoginConstants |
| `NoCountIsLost` | ExplorerProofs | Spec => []NoLabelLost | LateConstants |
| `LargeSidesWait` | ExplorerProofs | Spec => []LargeOnlyWhenAsked | ExplorerConstants |
| `NothingLandsLate` | ExplorerProofs | Spec => LateNeverLands | ExplorerConstants |
| `PagingSkipsNothing` | ExplorerProofs | Spec => []PagesSkipNothing | ExplorerConstants, NoLoops |
| `CanvasKeepsItsCap` | ExplorerProofs | X!Spec => []X!TypeOK | ExplorerConstants |
| `NobodyIsUndone` | TreeProofs | Spec => NothingUndone | DataTreeConstants |
| `ConsoleIsTyped` | ConsoleProofs | Spec => []TypesOK | every part's |

The assumptions on constants are types and what the code's own constants are:
a page, a cap, a bucket and `KEPT_LOGINS` are at least one, a batch of cards is the
same batch for each of its cards, nodes and edges are finite, the names of a tree's
folders are not those of its kinds, and the layout stored at first is a layout. They are defined in
the module that has the constants, and TLC evaluates them on the small instances
(`RowsAssumption` and `LeaseAssumption` where they are assumed, the console's in
MCConsole).

### FoundryGraph

TypeOK is not a formality here: a row's type says that the
live job has a load, that a claimed job's kind is one the worker runs, that what
a hand-over creates has an id. `IInv` is TypeOK with three more:

- `ApplyHasId`: while an apply is live there is an id for the load it may hand
  over to. It is the bound's invariant, and why QueueRefresh waits for one.
- `AttemptFits`: a busy attempt has a load, and an ended one an outcome.
- `Fenced` itself.

The argument for the fence is one lemma per transaction, about its type and about
one relation, `Unstarted(s, t)`: if the job is running after the transaction, it was
running before with the same owner, kind and load. Every transaction a
person, a sync or an upload makes has it, as does every end of a job, so
whatever they do a running job is the one its holder claimed, and a job that
replaced another is queued and held by nobody. Claims alone start jobs, and a
claim sets both sides of Fenced at once.

The other invariants are not inductive one by one: what a job's end may do to a
load depends on the job being of that load, what it leaves waiting on what it
queues next, what a deleted load leaves on which attempts may still write. `Full` is

- `Agree`, of the rows alone: a load being written is the live job's and in a
  state its kind works on, the current load serves, an absent load has no
  memberships, a deleted ontology lets go of its database last, and with no job live
  nothing waits. A job's end is two transactions in one: the load's, after which
  `Agree` holds but for the live job (`EndMoves`), then what `queueAfter` queues.
- `Remembers`: what each busy attempt knows of its load (`Knows`) is still so or the
  load is on its way out. This is where stale attempts are dealt with: theirs are the
  memories nobody corrects.
- `Cleared`: the holder of a delete ends well only with the load out.
- `Written`, of the rows and the graph: what serves has its tables in; what is absent
  has left nothing; what is recorded extracted is in, or its document is deleted.

For RemovalsStayScheduled, `Due` adds that a live load job owes an extract whenever
its load has something to take out (`LoadJobOwes`), and what an attempt that lists
removals has in hand (`Sends`): the property is about each way a removal could stop
being scheduled, and those two are what the steps that leave it scheduled need.

*DocumentsLeaveOnceOut* is proved, and checked by `ends`, for one worker. With two
it is false as stated: an attempt that lost its job and still extracts may put a
deleted document back in the graph between its removal and the removal's record, as
far as `Served` goes. `Served` is the weak contract the agent's interface states
(`src/plugins/helix-foundry/backend/pb/proto/ontology_agent/v1/agent.proto`), which names only deletes of a load as
excluding other calls; a deployment runs one agent beside each worker.

### GraphLease

`Margin` is ClaimDelay + Skew + WriteTime <= HelixTimeout: what
a timeout's slack has to pay for. The inductive invariant `Fencing` is:

- `FenceInLease`: while an attempt's worker holds the job, the lease outlasts its
  fence by HelixTimeout less ClaimDelay; a renewal on its way keeps
  fence + age within Lease - HelixTimeout, so its answer moves the fence to
  where the lease still covers it; and no other worker runs or writes.
- `ClaimAlone`: beside a claim nothing runs and nothing is in flight.
- `LandInTime`: writes in flight land before MySQL can think the job due, by
  the lease of a running job and by the backoff of a queued one.
- `OneAttempt`, without which the first two are not inductive.

For the refinement, `Writers` (running attempts and those with writes in
flight) has at most one member by Fencing, and each step enters one into none
or leaves: OneWriter's steps, or a stutter.

### The console

Each part's theorem is first proved of the part, under the names it has there
(`UploadsHold`: U!UploadSpec => []...), then of Console: a behaviour is of the part it
starts as, so it satisfies that part's specification (lemmas `FormsBegin` and
`FormsGoOn`, and their like), and the others' properties say nothing of it. The
invariants:

- **Uploads** (`UploadInv`): uploaded means stored; a card's step, its last answer and
  its document agree (`CardAgrees`); a card done of bytes the lists lack is of a
  first-run batch whose end reads them again (`StillToRead`).
- **Revision** (`PreviewInv`): what the page remembers of its run is what the run
  was (`RunAgrees`), a page it read late included, and a post for a version is of a
  batch with a clean preview. OneVersionEach counts: as long as the tab stays open,
  versions asked for, plus one on its way, plus one if a preview may still be used,
  are no more than the clean previews (`Paid`).
- **SampleTour** (`TourInv`): at most one walk is past a step that makes something,
  and what a walk found or made is what Foundry holds (`WalkAgrees`).
- **Chat**'s composer (`ComposerInv`): the tokens of questions made, on their way
  and kept for a retry are all different, and no more than the texts meant.
- **Chat**'s streams (`StreamInv`): a stream's steps are as many as the calls, and its
  ticks as many as the results, of the latest attempt among its log's first `last`
  events (`Matches`); a page on its way holds the events after those (`Follows`);
  what was read of an ended question's length stays so. Results answer calls at every
  length of the log (`Sound`), so each result folded finds a step to tick.
- **RequestLimiter** (`LimiterInv`): `Lined`, the queue is the waiting requests, each
  once; `SlotsTaken`, slots taken are automatic requests in flight; `Awaited`,
  who waits has a timer or a slot to be freed; `Heirs`, a keyed request that was
  not aborted holds its key and is the newest of it, unless a refresh came.
- **LateCounts** (`CountsInv`): one batch at a time; a label tried and uncounted is in
  it; batches end for good exactly when the retries are spent.
- **CsrfTokens** (`CsrfInv`): a call on its renewal, with nothing replaced since,
  carries a token of the browser's cookie and session (`Renews`).
- **Session** (`SessionInv`): a call's rotated token is newer than its cookie; a
  cookie spent once under the lock is either left behind or being replaced by the
  lock's holder (`SpentOnce`); a session an instance keeps for a cookie is newer
  than it, and once its token ages no call and no jar holds that cookie (`Waited`); signed out, no cookie is in the jar or on its way (`Ended`).
- **Logins** (`LoginInv`): a sign-in away without its cookie is too old, or
  followed by too many.
- **DataTree** (`TreeInv`, `TreeCount`), in four steps.
  First what the operators do to sequences: `Only` keeps what it should and its
  order, `inOrder` permutes, `placeBefore` puts one in place and leaves the others'
  order (`OnlyLaws`, `InOrderOnly`, `PlaceMoves`).
  Then what each change makes of a pruned layout (`MoveMakes`, `CreateMakes`,
  `DeleteMakes` and their like, together `ApplyMakes`): its own change of the tree shown,
  and nothing else; and that pruning changes nothing shown (`PruneKeeps`).
  A page's lists may have connectors that are gone, and lack new ones. A
  change made of a tree with more connectors is also the change of the tree with
  fewer (`MadeOfFewer`), and a save knows, of the connectors there are, those its
  lists are of (`SaveFits`): that is why NothingUndone speaks of those.
  Last, TreeInv: what a page read at the revision stored is the layout stored
  (`Agrees`), so the PUT the service takes was made of the layout it replaces. For the
  types, changes still to be written and revisions together are no more than the changes
  made (`TreeCount`).
- **The types of every part** (TypesOK). Most come with the invariants above. The
  limiter's are `LimiterBounds`: a pump grants no token it has not, an aborted
  request's is owed, never more than Burst in all, and the wake-up is armed for the debt. A
  chat's are `ChatInv`: a token kept, and those of asks on their way, are counted by
  the submits; no list is ahead of the rows and no page or stream ahead of its log.
  Both Chats of Console are instances of one proof.
- **Explorer** (`ExplorerInv`): the canvas is within its cap, with each edge's ends;
  every live operation is of the current epoch and fits its stage (`OpFits`): an
  expansion's sides are small, chosen or `thinned`, and its marks, as the cursors
  kept, are past no edge but those already returned (`CursorsSeen`). That needs
  `NoLoops`, no edge from a node to itself: `self_loop` is why. A large side whose
  node's degree was read is in `heavy`, or in `thinned`, being one of `Veiled`
  (`DegreesInv`): LargeSidesWait says that nothing but a count of the labels shown,
  believed over the probe, reads a large side unasked, and `hidden_labels` that it does.

**Induction over data.** The library's induction theorems take an operator as a
parameter, out of the installed provers' reach. Where a proof needs one (a label's
rows one after another, a finite set's greatest number, what a page of a side
returns, a page of events folded, an order filtered) it goes by least counterexample instead: a
nonempty set of numbers has a least (`LeastNat`, `LeastOf`, `LeastIndex` or
`LeastPlace` of its module, from WellFoundedInduction's WFMin), and the recursion equation
contradicts it.

**Only model-checked:**

- liveness, and ENABLED, out of the prover's reach: OwedIsServed, Drains,
  LoadsEnd, EndIsShown, TourEnds, OperationsEnd;
- what the runs refute.

## 5. What is not modelled

- **Of the modelled components.** A job parked for People enrichment, and the
  purge that keeps a load from being made current; a workspace's deletion
  cancelling its work; amounts of money (whether there is budget is drawn);
  documents still being read, connectors' documents (fanned out by a sync);
  load boosts, change files and the comparison of a rebuild; what separates an
  extraction recorded as duplicate or out of scope from one recorded
  extracted, as none is sent again. GraphLease follows one job: a job that
  follows another of the same ontology is a hazard with no property yet.
- **Of the console's modelled parts.** What a page draws of its state; the
  proxying of bodies and headers; threads and feedback in Analyst; what an edit of
  a version says; deletions of documents beside their upload; dropped folders; the
  explorer's layout, ranking and inspector; the tree's sets and documents.
- **The rest of the console** (`web/areas/ontology/model.ts`, `workspace/ai.tsx`,
  `DatabaseExplorer.tsx`, `shared/wfe.ts`, the mocks under `src/plugins/helix-foundry/mock`): reading an
  ontology into what is drawn, forms and tables, the API's types. It is nearly all
  of the TypeScript: parsing, rendering and types without a state of their own, whose
  hazards a unit test reaches. The map covers about a twentieth of the
  TypeScript lines and that is most of what is concurrent there; a larger share
  would be transliterated rendering. The Go backend the map also covers is on top.
- **Planned** (below): enrichment, document reads, syncs, budgets; of generations
  and questions, what the console does not see (claims, leases, reservations).
- **Out of scope**: connectors, file sources and AI providers (clients of
  protocols whose state is elsewhere); event rendering and mail; generated code;
  the SQL plugin (a sequential wrapper) and Terminal for macOS (a driver of
  virtual machines); skills and small plugins (text).

## 6. The plan

Done: FoundryRows, FoundryGraph, OneWriter, GraphLease, the console's eleven
modules, and the proofs above. Then, in order of what could go wrong most:

1. **FoundryEnrichment**: a load's step beside its graph job. The graph worker
   prepares and queues a step and parks its job; an enrichment worker claims,
   reserves credits, begins and charges batches and ends the step, which wakes
   the job. Stop, cancel and consent withdrawn race all of it. Properties: no
   wake lost, no batch charged twice or unreserved, credits within their cap,
   no purged profile applied. Composes with FoundryRows' job. Abstract
   specification: a ledger that only reserves, settles and releases.
2. **ReadAndWake**: leased document reads, reclaimed under a token, whose end
   wakes the extract that waited, against upload, move and delete.
3. **SyncSnapshots**: leased syncs that replace snapshots, jobs that pin them,
   the sweep that deletes them. Property: a pinned snapshot is never swept.
4. **OntologyDrafts**: generations and their leases, and the first draft that becomes current
   and starts a load unless someone chose meanwhile.
5. **Questions**: claims, reservations of a month's budget and cancels that race
   answers; Chat has only what the tab is told of them.
6. **SetAllowances** (pure): what a month, a job and a set may spend, checked
   against a reference definition over bounded inputs.
7. GraphLease over successive jobs of one ontology.
8. Session composed with CsrfTokens: a sign-out that races a renewal of both.

Every safety property the passing runs check is proved. Theorems to come, in order: a
DocumentsLeaveOnceOut for many workers under an agent that serves one attempt of a
load at a time; the enrichment ledger's refinement. Modules to be proved about declare
no RECURSIVE operator; parameters are CONSTANTS with named assumptions; one action
stands for one operation; invariants are conjunctions of named parts.


Runs to come are one per module at about the bounds above: two claims of one
row, two of whatever races it, small counters at their caps. The suite stays
small, twelve runs now: parts that share no state join one, as the console's do.

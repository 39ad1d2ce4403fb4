------------------------------ MODULE Explorer ------------------------------
(* The graph explorer's data layer: one canvas of nodes and edges, filled by *)
(* operations that each send one read at a time and act on its answer.       *)
(* Operations interleave at their answers; Clear and a refresh abort what is *)
(* in flight.  Reading a node's edges costs time in its degree, so a side    *)
(* is only read once it is known to be small or the user confirmed it.       *)
EXTENDS Naturals, Sequences, FiniteSets, FiniteSetsExt

CONSTANTS
  Nodes,
  Src, Dst,       \* the database's edges, by edge id, but those of hidden labels
  Big,            \* sides with more neighbors than degreeThreshold
  Dense,          \* sides with few neighbors but more edges than that
  Veiled,         \* of these, sides with few edges of labels not hidden
  Hubs,           \* candidates of the hub types, for the first view
  Rows,           \* the one label's nodes, by row
  Slots,          \* bound: operations in flight
  Cap,            \* maxCanvasNodes
  Limit,          \* neighborLimit: edges a page holds per side
  PageSize,       \* rows a label page holds
  ConnectBudget,  \* nodes one connect request takes
  MaxRequests,    \* requests one "load more" or label page sends
  MaxAsks         \* bound: what the user does

Sides == {"out", "in"}
EdgeIds == DOMAIN Src
Ends(e) == {Src[e], Dst[e]}
NodeSides == Nodes \X Sides

ExplorerConstants ==
  /\ Src \in [EdgeIds -> Nodes] /\ Dst \in [EdgeIds -> Nodes] /\ EdgeIds \subseteq Nat \ {0}
  /\ Big \subseteq NodeSides /\ Dense \subseteq NodeSides \ Big /\ Veiled \subseteq Big \cup Dense
  /\ Hubs \subseteq Nodes /\ Rows \in Seq(Nodes) /\ IsFiniteSet(Nodes) /\ IsFiniteSet(EdgeIds)
  /\ {Cap, Limit, PageSize, ConnectBudget, MaxRequests} \subseteq Nat \ {0}
  /\ MaxAsks \in Nat

VARIABLES
  store, edges, hidden,  \* the canvas: nodes, edges, nodes hidden one by one
  probes, counted,       \* nodes whose neighbors, and whose edges, were counted
  degrees, heavy,        \* nodes whose degree was read, and their sides it found large
  confirmed,             \* sides the user chose to read although not small
  cursors,               \* per node and side: where its expansion stands
  rows,                  \* rows of the label paged past
  phase,                 \* what the page shows
  warned,                \* sides "Expand anyway" is offered for, by node
  offer, large,          \* nodes "Connect" and "Connect anyway" are offered for
  seeding,               \* the first view: sizes probed, edges counted, nodes read around, outermost ring
  epoch,                 \* refreshes and clears so far
  asks,                  \* what the user did so far
  op,                    \* the operations in flight
  seen,                  \* ghost: edges a page of a node's side returned
  thinned                \* ghost: large sides a degree, without hidden labels, found small

degree == <<degrees, heavy, thinned>>
vars == <<store, edges, hidden, probes, counted, confirmed, cursors, rows, phase,
          warned, offer, large, seeding, epoch, asks, op, seen, degree>>
canvas == <<store, edges, hidden, cursors, phase, seen>>
sizes == <<probes, counted, degree>>

Unstarted == 0
Fresh == [s \in Sides |-> Unstarted]
Done == Max(EdgeIds \cup {0}) + 1
AllRows == Cardinality(DOMAIN Rows) + 1

Idle == [kind |-> "idle", stage |-> "none", key |-> "none", node |-> CHOOSE n \in Nodes : TRUE,
         sides |-> {}, queue |-> {}, from |-> Fresh, cand |-> {}, batch |-> {}, rest |-> {},
         with |-> {}, mode |-> "auto",
         round |-> "none", size |-> 0, tries |-> 0, live |-> TRUE, epoch |-> 0]
Start(kind, stage, key) ==
  [Idle EXCEPT !.kind = kind, !.stage = stage, !.key = key, !.epoch = epoch]
\* track: at most one operation at a time per key.
Busy(key) == \E o \in Slots : op[o].key = key
NewSeeding == [sized |-> {}, tallied |-> {}, expanded |-> {}, frontier |-> {}]

Init ==
  /\ store = {} /\ edges = {} /\ hidden = {} /\ probes = {} /\ counted = {}
  /\ degrees = {} /\ heavy = {} /\ thinned = {} /\ confirmed = {}
  /\ cursors = [n \in Nodes |-> Fresh]
  /\ rows = 0 /\ phase = "loading"
  /\ warned = [n \in Nodes |-> {}] /\ offer = {} /\ large = {}
  /\ seeding = NewSeeding
  /\ epoch = 0 /\ asks = 0
  /\ \E o \in Slots : op = [p \in Slots |-> IF p = o THEN [Idle EXCEPT !.kind = "boot", !.stage = "labels", !.key = "boot"]
                                            ELSE Idle]
  /\ seen = {}

-----------------------------------------------------------------------------
(* What the explorer knows of a node's size (graph-store.ts).  `k` is the    *)
(* canvas and the sizes as an answer leaves them.                            *)

Canvas == [store |-> store, probes |-> probes, counted |-> counted, degrees |-> degrees, heavy |-> heavy,
           cursors |-> cursors, seeding |-> seeding]

\* What was probed and counted of n's neighbors and edges, hidden labels and all.
ProbedOver(k, n) == {s \in Sides : <<n, s>> \in IF n \in k.counted THEN Big \cup Dense ELSE Big}
\* A degree overrules it.
SideSize(k, n, s) ==
  IF n \in k.degrees THEN IF <<n, s>> \in k.heavy THEN "large" ELSE "small"
  ELSE IF n \in k.probes \cup k.counted THEN IF s \in ProbedOver(k, n) THEN "large" ELSE "small"
  ELSE "unknown"
Size(k, n) ==
  IF \E s \in Sides : SideSize(k, n, s) = "large" THEN "large"
  ELSE IF n \in k.probes \cup k.counted \cup k.degrees THEN "small" ELSE "unknown"

Present(k, ns) == ns \cap k.store
Unknown(k, ns) == {n \in Present(k, ns) : Size(k, n) = "unknown"}
NeedsCount(k, ns) == {n \in Present(k, ns) : Size(k, n) = "small" /\ n \notin k.counted \cup k.degrees}
\* Mutant: small by its neighbors is enough.
CostedFault(k, ns) == {n \in Present(k, ns) : Size(k, n) = "small"}
\* Small nodes whose edges are counted: the only ones a connect may plan for.
Costed(k, ns) == {n \in Present(k, ns) : Size(k, n) = "small" /\ n \in k.counted \cup k.degrees}

\* The cheapest of them one request's budget takes (each costs the same here).
Firsts(ns) == IF Cardinality(ns) <= ConnectBudget THEN {ns} ELSE kSubset(ConnectBudget, ns)

-----------------------------------------------------------------------------
(* Merging into the canvas (admit, mergeGraph). *)

Room(st, hid) == Cap - Cardinality(st) + Cardinality(hid \cap st)

\* Hidden nodes make room first; what does not fit is refused.
Merged(ns) ==
  LET fresh == ns \ store
      spare == (hidden \cap store) \ ns
      total == Cardinality(store) + Cardinality(fresh)
      over == IF total > Cap THEN total - Cap ELSE 0
      evicted == kSubset(IF over < Cardinality(spare) THEN over ELSE Cardinality(spare), spare)
      fit(gone) == LET free == Cap - Cardinality(store \ gone)
                   IN kSubset(IF free < Cardinality(fresh) THEN free ELSE Cardinality(fresh), fresh)
  IN UNION {{[store |-> (store \ gone) \cup new, added |-> new, gone |-> gone] : new \in fit(gone)} : gone \in evicted}

\* Edges stay, or land, only between nodes of the canvas.
Drawn(es, st) == {e \in edges \cup es : Ends(e) \subseteq st}
\* When nodes leave, the state of all that are not on the canvas is forgotten.
Kept(cur, m) == IF m.gone = {} THEN cur ELSE [n \in Nodes |-> IF n \in m.store THEN cur[n] ELSE Fresh]
Without(ns) == [store |-> store \ ns, added |-> {}, gone |-> ns \cap store]

\* A failed or empty first view becomes usable once something lands.
Recovered(added) == IF phase \in {"error", "empty"} /\ added # {} THEN "ready" ELSE phase

Place(m, es, cur, ph) ==
  /\ store' = m.store
  /\ edges' = Drawn(es, m.store)
  /\ hidden' = hidden \cap m.store
  /\ cursors' = cur
  /\ phase' = ph
After(m, cur) == [Canvas EXCEPT !.store = m.store, !.cursors = cur]

-----------------------------------------------------------------------------
(* What an operation does next: outcomes [op, spawn, offer, large, ring].  A  *)
(* chain of probe, count and connect requests follows nodes that were added. *)

Next1(rec) == [op |-> rec, spawn |-> Idle, offer |-> {}, large |-> {}, ring |-> seeding.frontier]
Ended == {Next1(Idle)}

OpenSides(k, n, ss) == {s \in ss : k.cursors[n][s] # Done}
Small(k, n, ss) == \A s \in ss : SideSize(k, n, s) = "small"

\* One page of these sides, past where they stood then: `tries` pages may
\* follow on a side known small.
PageOf(k, rec, ss, queue) ==
  [rec EXCEPT !.stage = "page", !.sides = ss, !.queue = queue, !.from = k.cursors[rec.node],
              !.tries = IF Small(k, rec.node, ss) THEN MaxRequests ELSE 1]

\* expand, past its checks: a first page of every side, or the next page of
\* each open one: side by side when all are small, else one at a time.
ReadSides(k, rec) ==
  LET n == rec.node
      open == OpenSides(k, n, rec.sides)
  IN IF \A s \in rec.sides : k.cursors[n][s] = Unstarted
     THEN {Next1([PageOf(k, rec, rec.sides, {}) EXCEPT !.tries = 1])}
     ELSE IF open = {} THEN Ended
     ELSE IF ~Small(k, n, rec.sides)
     THEN {Next1(PageOf(k, rec, {s}, open \ {s})) : s \in open}
     ELSE IF Cardinality(open) = 1 THEN {Next1(PageOf(k, rec, open, {}))}
     ELSE {[Next1(PageOf(k, rec, {"out"}, {})) EXCEPT !.spawn = PageOf(k, rec, {"in"}, {})]}

\* The seeding's own sizes: small and counted nodes, not read around yet, with
\* a neighbor to show.
Linked(n) == \E e \in EdgeIds : n \in Ends(e)
Countable(k, ns) == {n \in ns \cap k.seeding.sized : {n} \X Sides \cap Big = {} /\ n \notin k.seeding.tallied}
Readable(k, ns) == {n \in ns \cap k.seeding.tallied : {n} \X Sides \cap (Big \cup Dense) = {} /\ Linked(n)}

\* connectAll; then `ring` is what "Show more" reads around next.
SeedConnect(k, rec, ring) ==
  IF Readable(k, rec.rest) = {} THEN {[r EXCEPT !.ring = ring] : r \in Ended}
  ELSE {Next1([rec EXCEPT !.stage = "seedConnect", !.cand = Readable(k, rec.rest), !.batch = ring, !.with = k.store])}

\* readRing around `cand`, nodes small and counted; "Show more" only within
\* the canvas's room.  Its own last ring is only connected.
SeedRing(k, rec) ==
  LET full == rec.round = "more" /\ Room(k.store, hidden) = 0
      plan == IF full THEN {} ELSE Readable(k, rec.cand) \ k.seeding.expanded
  IN IF rec.round = "outer" THEN SeedConnect(k, rec, rec.cand)
     ELSE IF plan # {} THEN {Next1([rec EXCEPT !.stage = "ring", !.batch = plan])}
     ELSE IF rec.round = "second" THEN SeedConnect(k, rec, rec.cand)
     ELSE SeedConnect(k, [rec EXCEPT !.rest = rec.cand], {})
SeedCount(k, rec) ==
  IF Countable(k, rec.cand) # {} THEN {Next1([rec EXCEPT !.stage = "seedCount"])} ELSE SeedRing(k, rec)
SeedProbe(k, rec) ==
  LET todo == rec.cand \ k.seeding.sized IN
  IF todo # {} THEN {Next1([rec EXCEPT !.stage = "seedProbe", !.batch = todo])} ELSE SeedCount(k, rec)

\* After a ring: the next one around what it added, or the edges among it all.
RingDone(k, rec, added) ==
  CASE rec.round = "first" ->
         SeedProbe(k, [rec EXCEPT !.round = "second", !.cand = added, !.rest = rec.cand \cup added])
    [] rec.round = "second" -> SeedConnect(k, rec, IF added = {} THEN rec.cand ELSE added)
    [] rec.round = "more" ->
         SeedProbe(k, [rec EXCEPT !.round = "outer", !.cand = added, !.rest = rec.cand \cup added])

\* What follows a connect chain, by operation.
Resume(k, rec) ==
  IF rec.kind = "expand"
  THEN IF rec.tries > 1 THEN {Next1([rec EXCEPT !.stage = "page", !.tries = @ - 1])}
       ELSE IF rec.queue = {} THEN Ended
       ELSE {Next1([PageOf(k, rec, {s}, rec.queue \ {s}) EXCEPT !.from = rec.from]) : s \in rec.queue}
  ELSE IF rec.round = "first" THEN SeedCount(k, [rec EXCEPT !.cand = rec.batch, !.batch = {}])
  ELSE Ended

\* Auto: small nodes in one request's budget, the rest offered.  Explicit:
\* every small one, then a warning.  Confirmed: the rest too, one by one.
Plan(k, rec) ==
  LET all == Present(k, rec.cand)
      small == Costed(k, all)
      rest == all \ small
  IN IF rec.mode = "auto"
     THEN UNION {IF b = {} THEN {[r EXCEPT !.offer = all] : r \in Resume(k, rec)}
                 ELSE {[Next1([rec EXCEPT !.stage = "connect", !.cand = b, !.with = k.store]) EXCEPT !.offer = all \ b]}
                 : b \in Firsts(small)}
     ELSE IF small # {}
     THEN {Next1([rec EXCEPT !.stage = "connect", !.cand = b, !.batch = small \ b, !.rest = rest, !.with = k.store]) : b \in Firsts(small)}
     ELSE IF rec.mode = "confirmed" /\ rest # {}
     THEN {Next1([rec EXCEPT !.stage = "connect", !.cand = {n}, !.batch = {}, !.rest = rest \ {n}, !.with = k.store]) : n \in rest}
     ELSE {[r EXCEPT !.large = rest] : r \in Ended}

\* One connect request could not take more than these: probing (by neighbors)
\* and counting (by edges) stop.
BudgetFull(rec, ns) == rec.mode = "auto" /\ Cardinality(ns) >= ConnectBudget

CountNext(k, rec) ==
  IF NeedsCount(k, rec.cand) # {} /\ ~BudgetFull(rec, Costed(k, rec.cand))
  THEN {Next1([rec EXCEPT !.stage = "count"])} ELSE Plan(k, rec)
ProbeNext(k, rec) ==
  IF Unknown(k, rec.cand) # {} /\ ~BudgetFull(rec, Costed(k, rec.cand) \cup NeedsCount(k, rec.cand))
  THEN {Next1([rec EXCEPT !.stage = "probe"])} ELSE CountNext(k, rec)

\* connectNew: nothing to do without a second node on the canvas.
ConnectNew(k, rec, added) ==
  LET ids == Present(k, added) IN
  IF ids = {} \/ (k.store = ids /\ Cardinality(ids) < 2) THEN Resume(k, rec)
  ELSE IF rec.mode = "confirmed" THEN Plan(k, [rec EXCEPT !.cand = ids])
  ELSE ProbeNext(k, [rec EXCEPT !.cand = ids])

\* The operation goes on with outcome r; a read side by side takes a slot too.
Goes(o, r, s) ==
  /\ IF r.spawn.kind = "idle" THEN op' = [op EXCEPT ![o] = r.op]
     ELSE \E p \in Slots \ {o} : op[p].kind = "idle" /\ op' = [op EXCEPT ![o] = r.op, ![p] = r.spawn]
  /\ offer' = offer \cup r.offer
  /\ large' = large \cup r.large
  /\ seeding' = [s EXCEPT !.frontier = r.ring]

-----------------------------------------------------------------------------
(* Answers.  One that was aborted, or is from before a refresh, ends its     *)
(* operation and changes nothing else.                                       *)

\* Mutant: an aborted answer lands.
AnswerFault(o, stage) == op[o].stage = stage
Answer(o, stage) == op[o].stage = stage /\ op[o].live
Rested == <<warned, confirmed, epoch, rows>>

\* Mutant: an aborted first view never ends.
CancelledFault(o) ==
  /\ op[o].kind \notin {"idle", "boot"} /\ ~op[o].live
  /\ op' = [op EXCEPT ![o] = Idle]
  /\ UNCHANGED <<canvas, sizes, offer, large, seeding, Rested>>
Cancelled(o) ==
  /\ op[o].kind # "idle" /\ ~op[o].live
  /\ op' = [op EXCEPT ![o] = Idle]
  /\ UNCHANGED <<canvas, sizes, offer, large, seeding, Rested>>

\* A read that failed: what needed it stops, with a message.
Failed(o) ==
  /\ op[o].live
  /\ \/ op[o].stage \in {"page", "rows", "countAll"}
     \/ op[o].stage = "connect" /\ op[o].mode # "auto"
  /\ op' = [op EXCEPT ![o] = Idle]
  /\ UNCHANGED <<canvas, sizes, offer, large, seeding, Rested>>

\* probeNodes, the explorer's own: a batch that found a large node or ran slow
\* ends the probing, and so does one that failed.
Probed(o) ==
  /\ Answer(o, "probe")
  /\ \E batch \in SUBSET Unknown(Canvas, op[o].cand), slow \in BOOLEAN :
       LET k == [Canvas EXCEPT !.probes = @ \cup batch]
           stop == batch = {} \/ slow \/ (batch \X Sides) \cap Big # {}
       IN /\ probes' = k.probes
          /\ \E r \in (IF (op[o].mode = "auto" /\ stop) \/ batch = {} THEN CountNext(k, op[o]) ELSE ProbeNext(k, op[o])) :
               Goes(o, r, seeding)
  /\ UNCHANGED <<canvas, counted, degree, Rested>>

\* countEdges: a failed count leaves them uncounted.
Counted(o) ==
  /\ Answer(o, "count")
  /\ \E batch \in SUBSET NeedsCount(Canvas, op[o].cand) :
       LET k == [Canvas EXCEPT !.counted = @ \cup batch] IN
       /\ counted' = k.counted
       /\ \E r \in (IF batch = {} THEN Plan(k, op[o]) ELSE CountNext(k, op[o])) : Goes(o, r, seeding)
  /\ UNCHANGED <<canvas, probes, degree, Rested>>

\* connectBatch: the edges between the batch and what the canvas held when it
\* was asked; then the next batch, or what the chain was for.  On its own the
\* explorer goes on without them when the read fails.
Between(rec) == {e \in EdgeIds : Ends(e) \cap rec.cand # {} /\ Ends(e) \subseteq rec.cand \cup rec.with}
NextBatch(rec) ==
  CASE rec.mode = "auto" -> Resume(Canvas, rec)
    [] rec.mode # "auto" /\ rec.batch # {} ->
         {Next1([rec EXCEPT !.cand = b, !.batch = @ \ b, !.with = store]) : b \in Firsts(rec.batch)}
    [] rec.mode = "confirmed" /\ rec.batch = {} /\ rec.rest # {} ->
         {Next1([rec EXCEPT !.cand = {n}, !.rest = @ \ {n}, !.with = store]) : n \in rec.rest}
    [] OTHER -> {[r EXCEPT !.large = IF rec.mode = "explicit" THEN rec.rest \cap store ELSE {}] : r \in Ended}
Connected(o) ==
  /\ Answer(o, "connect")
  /\ \E ok \in BOOLEAN :
       /\ ok \/ op[o].mode = "auto"
       /\ Place(Without({}), IF ok THEN Between(op[o]) ELSE {}, cursors, phase)
       /\ \E r \in NextBatch(op[o]) : Goes(o, r, seeding)
  /\ UNCHANGED <<sizes, seen, Rested>>

\* expand's own check: one probe of the node the user asked for.
WarnOrRead(k, o) ==
  LET rec == op[o]
      asked == {s \in rec.sides : <<rec.node, s>> \notin confirmed}
  IN IF Small(k, rec.node, asked)
     THEN /\ \E r \in ReadSides(k, rec) : Goes(o, r, seeding)
          /\ UNCHANGED warned
     ELSE /\ op' = [op EXCEPT ![o] = Idle]
          /\ warned' = [warned EXCEPT ![rec.node] = rec.sides]
          /\ UNCHANGED <<offer, large, seeding>>
Sized(o) ==
  /\ Answer(o, "size")
  /\ \E ok \in BOOLEAN :
       /\ probes' = IF ok THEN probes \cup {op[o].node} ELSE probes
       /\ WarnOrRead([Canvas EXCEPT !.probes = probes'], o)
  /\ UNCHANGED <<canvas, counted, degree, confirmed, epoch, rows>>

\* expandPage.  The page holds the side's first Limit edges past its cursor,
\* and `truncated` says whether any side of the page has more.
EdgesOf(n, s) == {e \in EdgeIds : IF s = "out" THEN Src[e] = n ELSE Dst[e] = n}
Past(rec, s) == {e \in EdgesOf(rec.node, s) : e > rec.from[s]}
SidePage(rec, s) == {e \in Past(rec, s) : Cardinality({f \in Past(rec, s) : f < e}) < Limit}
PageEdges(rec) == UNION {SidePage(rec, s) : s \in rec.sides}
Truncated(rec) == \E s \in rec.sides : Cardinality(Past(rec, s)) > Limit

\* Mutant: a page as long as the limit is taken for the last one.
SideCursorAfterFault(rec, s) ==
  LET mine == PageEdges(rec) \cap EdgesOf(rec.node, s) IN
  IF ~Truncated(rec) \/ Cardinality(mine) <= Limit THEN Done ELSE Max(mine)

\* sideCursorAfter: past the largest edge of the side the page returned.
SideCursorAfter(rec, s) ==
  LET mine == PageEdges(rec) \cap EdgesOf(rec.node, s) IN
  IF ~Truncated(rec) \/ Cardinality(mine) < Limit \/ Max(mine) <= rec.from[s] THEN Done ELSE Max(mine)

PageRead(o) ==
  LET rec == op[o]
      n == rec.node
      es == PageEdges(rec)
      moved(old) == [s \in Sides |-> IF s \in rec.sides THEN SideCursorAfter(rec, s) ELSE old[s]]
  IN /\ Answer(o, "page")
     /\ \E m \in Merged({n} \cup UNION {Ends(e) : e \in es}) :
          LET cur == [Kept(cursors, m) EXCEPT ![n] = moved(@)]
              again == /\ m.added = {} /\ Drawn(es, m.store) \subseteq edges
                       /\ \A s \in rec.sides : cur[n][s] # Done
                       /\ Room(m.store, hidden) > 0
              next == [rec EXCEPT !.tries = IF again THEN @ ELSE 1, !.from = IF again THEN moved(@) ELSE @]
          IN /\ Place(m, es, cur, Recovered(m.added))
             /\ \E r \in ConnectNew(After(m, cur), next, m.added) : Goes(o, r, seeding)
     /\ seen' = seen \cup {n} \X es
     /\ UNCHANGED <<sizes, Rested>>

\* The node no longer exists: it leaves the canvas.
PageGone(o) ==
  /\ Answer(o, "page")
  /\ Place(Without({op[o].node}), {}, Kept(cursors, Without({op[o].node})), phase)
  /\ op' = [op EXCEPT ![o] = Idle]
  /\ UNCHANGED <<sizes, offer, large, seeding, seen, Rested>>

\* loadLabelPage: rows until something new arrives, the label ends or the
\* canvas is full; the page was sized to the room when it was asked for.
PageRows(st) == LET free == Room(st, hidden) IN IF free < PageSize THEN free ELSE PageSize
RowsNext(rec, st, next) ==
  /\ rec.tries > 1 /\ Cardinality(rec.cand) < PageSize /\ next # AllRows /\ Room(st, hidden) > 0
RowsRead(o) ==
  LET last == IF rows + op[o].size < AllRows THEN rows + op[o].size ELSE AllRows - 1
      next == IF last = AllRows - 1 THEN AllRows ELSE last
  IN /\ Answer(o, "rows")
     /\ rows' = next
     /\ \E m \in Merged({Rows[i] : i \in (rows + 1)..last}) :
          LET rec == [op[o] EXCEPT !.cand = @ \cup m.added] IN
          /\ Place(m, {}, Kept(cursors, m), Recovered(m.added))
          /\ \E r \in (IF RowsNext(rec, m.store, next)
                       THEN {Next1([rec EXCEPT !.tries = @ - 1, !.size = PageRows(m.store)])}
                       ELSE ConnectNew(After(m, Kept(cursors, m)), rec, rec.cand)) : Goes(o, r, seeding)
     /\ UNCHANGED <<sizes, seen, warned, confirmed, epoch>>

\* revealNode, once its size is known: connected and expanded side by side
\* when small (bound: pages one after another), offered otherwise.
Revealed(o) ==
  LET n == op[o].node IN
  /\ Answer(o, "reveal")
  /\ \E ok \in BOOLEAN :
       LET k == [Canvas EXCEPT !.probes = IF ok THEN @ \cup {n} ELSE @]
           rec == [Start("expand", "page", n) EXCEPT !.node = n, !.sides = Sides]
           open == OpenSides(k, n, Sides)
           reads == IF Busy(n) \/ Room(store, hidden) = 0 \/ open = {} THEN {Idle}
                    ELSE IF \A s \in Sides : cursors[n][s] = Unstarted THEN {[PageOf(k, rec, Sides, {}) EXCEPT !.tries = 1]}
                    ELSE {PageOf(k, rec, {s}, open \ {s}) : s \in open}
       IN /\ probes' = k.probes
          /\ IF n \in store /\ Size(k, n) = "small"
             THEN /\ \E r \in ConnectNew(k, op[o], {n}), read \in reads : Goes(o, [r EXCEPT !.spawn = read], seeding)
                  /\ UNCHANGED warned
             ELSE /\ Goes(o, [Next1(Idle) EXCEPT !.offer = IF n \in store /\ Cardinality(store) > 1 THEN {n} ELSE {}], seeding)
                  /\ warned' = IF n \in store THEN [warned EXCEPT ![n] = Sides] ELSE warned
  /\ UNCHANGED <<canvas, counted, degree, confirmed, epoch, rows>>

\* loadNodeById and showResult: stored nodes with their sizes, then their edges.
Fetched(o) ==
  /\ Answer(o, "fetch")
  /\ \E found \in SUBSET op[o].cand, es \in {{}, EdgeIds}, sized \in BOOLEAN :
       /\ probes' = IF sized THEN probes \cup found ELSE probes
       /\ \E m \in Merged(found) :
            /\ store' = m.store /\ edges' = Drawn(es, m.store)
            /\ hidden' = (hidden \cap m.store) \ found
            /\ cursors' = Kept(cursors, m) /\ phase' = Recovered(m.added)
            /\ \E r \in ConnectNew([After(m, Kept(cursors, m)) EXCEPT !.probes = probes'], op[o], m.added) : Goes(o, r, seeding)
  /\ UNCHANGED <<counted, degree, seen, Rested>>

\* degree/loaded: a count's answer, or what is known without one, stands from
\* then on, whatever was probed before and after.
DegreeLoaded(n, found) ==
  /\ degrees' = degrees \cup {n}
  /\ heavy' = (heavy \ ({n} \X Sides)) \cup ({n} \X found)
  /\ thinned' = thinned \cup (({n} \X (Sides \ found)) \cap (Big \cup Dense))
\* The sides a count finds large: it leaves the hidden labels out.
CountedOver(n) == {s \in Sides : <<n, s>> \in (Big \cup Dense) \ Veiled}

\* fetchDegree, past the probe: a bounded count of the sides that one found
\* small (an empty side's too); the others stay large.
AskDegree(o, n, small) ==
  IF small = {} THEN op' = [op EXCEPT ![o] = Idle] /\ DegreeLoaded(n, Sides)
  ELSE /\ op' = [op EXCEPT ![o] = [Start("degree", "degree", "degree") EXCEPT !.node = n, !.sides = small]]
       /\ UNCHANGED degree
DegreeProbed(o) ==
  LET n == op[o].node IN
  /\ Answer(o, "degreeProbe")
  /\ \/ probes' = probes \cup {n} /\ AskDegree(o, n, {s \in Sides : <<n, s>> \notin Big})
     \/ op' = [op EXCEPT ![o] = Idle] /\ UNCHANGED <<probes, degree>>
  /\ UNCHANGED <<canvas, counted, offer, large, seeding, Rested>>
DegreeRead(o) ==
  LET n == op[o].node IN
  /\ Answer(o, "degree")
  /\ DegreeLoaded(n, (Sides \ op[o].sides) \cup CountedOver(n)) \/ UNCHANGED degree
  /\ op' = [op EXCEPT ![o] = Idle]
  /\ UNCHANGED <<canvas, probes, counted, offer, large, seeding, Rested>>

\* countRelationships: every edge of the node shown, only when asked.
RelationshipsCounted(o) ==
  /\ Answer(o, "countAll")
  /\ DegreeLoaded(op[o].node, CountedOver(op[o].node))
  /\ op' = [op EXCEPT ![o] = Idle]
  /\ UNCHANGED <<canvas, probes, counted, offer, large, seeding, Rested>>

-----------------------------------------------------------------------------
(* The first view: boot, then the seeding. *)

\* The labels are counted; a count too large is tried smaller, a database that
\* refuses work stops the boot, and without counts a sample is read instead.
LabelsCounted(o) ==
  /\ Answer(o, "labels")
  /\ \/ /\ op' = [op EXCEPT ![o].stage = "candidates"] /\ UNCHANGED phase
     \/ /\ op' = [op EXCEPT ![o] = Idle] /\ phase' \in {"empty", "error"}
     \/ /\ op' = [op EXCEPT ![o].tries = @ + 1, ![o].stage = IF op[o].tries < 2 THEN "labels" ELSE "sample"]
        /\ UNCHANGED phase
  /\ UNCHANGED <<store, edges, hidden, cursors, seen, sizes, offer, large, seeding, Rested>>

CandidatesRead(o) ==
  /\ Answer(o, "candidates")
  /\ \/ \E found \in SUBSET Hubs \ {{}} :
          /\ op' = [op EXCEPT ![o].stage = "seedProbe", ![o].cand = found, ![o].batch = found, ![o].round = "seeds"]
          /\ UNCHANGED phase
     \/ op' = [op EXCEPT ![o].stage = "sample"] /\ UNCHANGED phase
     \/ op' = [op EXCEPT ![o] = Idle] /\ phase' = "error"
  /\ UNCHANGED <<store, edges, hidden, cursors, seen, sizes, offer, large, seeding, Rested>>

\* place: seeds (or the sample) on the canvas, connected to what the user put
\* there meanwhile.
Seeds(ns, k) ==
  LET small == {n \in ns \cap k.seeding.sized : {n} \X Sides \cap Big = {}}
  IN IF small = {} THEN ns ELSE small
PlaceFirst(o, k, ns, es, round) ==
  \E m \in Merged(ns) :
    LET rec == [op[o] EXCEPT !.round = round, !.batch = ns, !.cand = {}]
        after == [k EXCEPT !.store = m.store, !.cursors = Kept(cursors, m)]
    IN /\ Place(m, es, Kept(cursors, m), "ready")
       /\ \E r \in (IF store # {} /\ m.added # {} THEN ConnectNew(after, rec, store) ELSE Resume(after, rec)) : Goes(o, r, k.seeding)

SampleRead(o) ==
  /\ Answer(o, "sample")
  /\ \/ \E ns \in SUBSET Nodes : PlaceFirst(o, Canvas, ns, EdgeIds, "sampled")
     \/ /\ op' = [op EXCEPT ![o] = Idle] /\ phase' = "error"
        /\ UNCHANGED <<store, edges, hidden, cursors, offer, large, seeding>>
  /\ UNCHANGED <<seen, sizes, Rested>>

\* probeAll: a failed batch leaves its sizes unknown, a slow one the rest too.
SeedProbed(o) ==
  /\ Answer(o, "seedProbe")
  /\ \E found \in SUBSET op[o].batch :
       LET k == [Canvas EXCEPT !.probes = @ \cup found, !.seeding.sized = @ \cup found] IN
       /\ probes' = k.probes
       /\ IF op[o].round = "seeds" THEN PlaceFirst(o, k, Seeds(op[o].cand, k), {}, "first")
          ELSE /\ \E r \in SeedCount(k, op[o]) : Goes(o, r, k.seeding)
               /\ UNCHANGED <<store, edges, hidden, cursors, phase>>
  /\ UNCHANGED <<counted, degree, seen, Rested>>

SeedCounted(o) ==
  /\ Answer(o, "seedCount")
  /\ \E found \in SUBSET Countable(Canvas, op[o].cand) :
       LET k == [Canvas EXCEPT !.counted = @ \cup found, !.seeding.tallied = @ \cup found] IN
       /\ counted' = k.counted
       /\ \E r \in SeedRing(k, op[o]) : Goes(o, r, k.seeding)
  /\ UNCHANGED <<canvas, probes, degree, Rested>>

\* A ring lands; a ring that fails leaves the first view without it.
RingRead(o) ==
  LET near == {e \in EdgeIds : Ends(e) \cap op[o].batch # {}} IN
  /\ Answer(o, "ring")
  /\ \/ \E es \in SUBSET near :
          \E m \in Merged(UNION {Ends(e) : e \in es}) :
            LET s == [seeding EXCEPT !.expanded = @ \cup op[o].batch]
                k == [After(m, Kept(cursors, m)) EXCEPT !.seeding = s]
            IN /\ Place(m, es, Kept(cursors, m), Recovered(m.added))
               /\ \E r \in RingDone(k, op[o], m.added) : Goes(o, r, s)
     \/ /\ \E r \in RingDone(Canvas, op[o], {}) : Goes(o, r, seeding)
        /\ UNCHANGED <<store, edges, hidden, cursors, phase>>
  /\ UNCHANGED <<sizes, seen, Rested>>

SeedConnected(o) ==
  /\ Answer(o, "seedConnect")
  /\ \E ok \in BOOLEAN :
       Place(Without({}), IF ok THEN Between(op[o]) ELSE {}, cursors, phase)
  /\ op' = [op EXCEPT ![o] = Idle]
  /\ seeding' = [seeding EXCEPT !.frontier = op[o].batch]
  /\ UNCHANGED <<sizes, offer, large, seen, Rested>>

-----------------------------------------------------------------------------
(* The user. *)

Free(o) == op[o].kind = "idle"
Shown == phase # "loading"

\* expand: `asked` is "Expand anyway", from the warning.
Expand(o, n, ss, asked) ==
  LET rec == [Start("expand", "size", n) EXCEPT !.node = n, !.sides = ss]
      open == {s \in ss : <<n, s>> \notin confirmed}
  IN /\ Free(o) /\ Shown /\ n \in store /\ ~Busy(n) /\ Room(store, hidden) > 0
     /\ asked => warned[n] = ss
     /\ confirmed' = IF asked THEN confirmed \cup {n} \X ss ELSE confirmed
     /\ IF ~asked /\ \E s \in open : SideSize(Canvas, n, s) = "unknown"
        THEN op' = [op EXCEPT ![o] = rec] /\ UNCHANGED <<warned, offer, large, seeding>>
        ELSE IF asked \/ Small(Canvas, n, open)
        THEN /\ \E r \in ReadSides(Canvas, rec) : Goes(o, r, seeding)
             /\ warned' = IF asked THEN [warned EXCEPT ![n] = {}] ELSE warned
        ELSE /\ warned' = [warned EXCEPT ![n] = ss]
             /\ UNCHANGED <<op, offer, large, seeding>>
     /\ UNCHANGED <<canvas, sizes, epoch, rows>>

LoadLabelPage(o) ==
  /\ Free(o) /\ Shown /\ ~Busy("rows") /\ rows < AllRows /\ Room(store, hidden) > 0
  /\ op' = [op EXCEPT ![o] = [Start("rows", "rows", "rows") EXCEPT !.tries = MaxRequests, !.size = PageRows(store)]]
  /\ UNCHANGED <<canvas, sizes, offer, large, seeding, Rested>>

\* revealNode: on the canvas at once, when it fits; a node there is unhidden.
RevealNode(o, n) ==
  /\ Free(o)
  /\ IF n \in store
     THEN /\ hidden' = hidden \ {n}
          /\ UNCHANGED <<store, edges, cursors, phase, op>>
     ELSE \E m \in Merged({n}) :
          /\ n \in m.added
          /\ Place(m, {}, Kept(cursors, m), Recovered(m.added))
          /\ op' = [op EXCEPT ![o] = [Start("reveal", "reveal", "reveal") EXCEPT !.node = n]]
  /\ UNCHANGED <<seen, sizes, offer, large, seeding, Rested>>

\* A deep link, or a query's result shown in the graph.
Fetch(o, ns) ==
  /\ Free(o) /\ Shown
  /\ op' = [op EXCEPT ![o] = [Start("fetch", "fetch", "fetch") EXCEPT !.cand = ns]]
  /\ UNCHANGED <<canvas, sizes, offer, large, seeding, Rested>>

\* "Connect" on the nodes left unconnected, "Connect anyway" on the large ones.
ConnectNodes(o, mode) ==
  LET ns == IF mode = "explicit" THEN offer ELSE large IN
  /\ Free(o) /\ Shown /\ ~Busy("connect") /\ ns # {}
  /\ \E r \in ConnectNew(Canvas, [Start("connect", "none", "connect") EXCEPT !.mode = mode], ns) :
       /\ op' = [op EXCEPT ![o] = r.op]
       /\ offer' = IF mode = "explicit" THEN {} ELSE offer
       /\ large' = IF mode = "explicit" THEN large \cup r.large ELSE {}
  /\ UNCHANGED <<canvas, sizes, seeding, Rested>>

FetchDegree(o, n) ==
  /\ Free(o) /\ n \in store \ degrees
  /\ IF n \in probes THEN AskDegree(o, n, Sides \ ProbedOver(Canvas, n))
     ELSE /\ op' = [op EXCEPT ![o] = [Start("degree", "degreeProbe", "degree") EXCEPT !.node = n]]
          /\ UNCHANGED degree
  /\ UNCHANGED <<canvas, probes, counted, offer, large, seeding, Rested>>
CountRelationships(o, n) ==
  /\ Free(o) /\ n \in store /\ ~Busy("countAll")
  /\ op' = [op EXCEPT ![o] = [Start("count", "countAll", "countAll") EXCEPT !.node = n]]
  /\ UNCHANGED <<canvas, sizes, offer, large, seeding, Rested>>

\* loadSample: the seeding again, on a cleared canvas (bound: not while an
\* earlier one still reads, whose own sizes and rings the new one replaces).
LoadSample(o) ==
  /\ Free(o) /\ phase = "ready" /\ store = {} /\ \A p \in Slots : op[p].kind \notin {"boot", "more", "sample"}
  /\ op' = [op EXCEPT ![o] = Start("sample", "candidates", "sample")]
  /\ seeding' = NewSeeding
  /\ UNCHANGED <<canvas, sizes, offer, large, Rested>>

\* showMore: the next ring around what is left of the outermost one.
ShowMore(o) ==
  LET rec == [Start("more", "none", "more") EXCEPT !.round = "more", !.cand = seeding.frontier \cap store] IN
  /\ Free(o) /\ phase = "ready" /\ ~Busy("more") /\ seeding.frontier # {}
  /\ \E r \in SeedProbe(Canvas, rec) : Goes(o, r, seeding)
  /\ UNCHANGED <<canvas, sizes, Rested>>

HideNode(n) ==
  /\ n \in store \ hidden
  /\ hidden' = hidden \cup {n}
  /\ UNCHANGED <<store, edges, cursors, phase, seen, sizes, op, offer, large, seeding, Rested>>
RemoveNode(n) ==
  /\ n \in store
  /\ Place(Without({n}), {}, Kept(cursors, Without({n})), phase)
  /\ UNCHANGED <<seen, sizes, op, offer, large, seeding, Rested>>

\* Clear: what runs would refill the canvas, so it is aborted; confirmations
\* were about the nodes that just left.
Aborted == [o \in Slots |-> [op[o] EXCEPT !.live = FALSE]]
ClearCanvas ==
  /\ phase \notin {"loading", "empty"} /\ store # {}
  /\ op' = [o \in Slots |-> IF Free(o) THEN Idle ELSE Aborted[o]]
  /\ Place(Without(store), {}, [n \in Nodes |-> Fresh], phase)
  /\ confirmed' = {} /\ rows' = 0 /\ epoch' = epoch + 1
  /\ warned' = [n \in Nodes |-> {}] /\ offer' = {} /\ large' = {}
  /\ UNCHANGED <<seen, sizes, seeding>>

\* refresh: everything loaded is dropped and the first view starts again.
Refresh(o) ==
  /\ Free(o)
  /\ epoch' = epoch + 1
  /\ op' = [p \in Slots |-> IF p = o THEN [Start("boot", "labels", "boot") EXCEPT !.epoch = epoch + 1]
                            ELSE IF Free(p) THEN Idle ELSE [Aborted[p] EXCEPT !.key = "none"]]
  /\ store' = {} /\ edges' = {} /\ hidden' = {} /\ probes' = {} /\ counted' = {}
  /\ degrees' = {} /\ heavy' = {} /\ thinned' = {}
  /\ confirmed' = {} /\ cursors' = [n \in Nodes |-> Fresh] /\ rows' = 0 /\ phase' = "loading"
  /\ warned' = [n \in Nodes |-> {}] /\ offer' = {} /\ large' = {}
  /\ seeding' = NewSeeding
  /\ UNCHANGED seen

Answers(o) ==
  \/ Cancelled(o) \/ Failed(o) \/ Probed(o) \/ Counted(o) \/ Connected(o) \/ Sized(o)
  \/ PageRead(o) \/ PageGone(o) \/ RowsRead(o) \/ Revealed(o) \/ Fetched(o) \/ DegreeProbed(o)
  \/ DegreeRead(o) \/ RelationshipsCounted(o)
FirstView(o) ==
  \/ LabelsCounted(o) \/ CandidatesRead(o) \/ SampleRead(o) \/ SeedProbed(o) \/ SeedCounted(o)
  \/ RingRead(o) \/ SeedConnected(o)
Answered(o) == UNCHANGED asks /\ (Answers(o) \/ FirstView(o))
Asked(o) ==
  \/ \E n \in Nodes : \/ \E ss \in SUBSET Sides \ {{}}, asked \in BOOLEAN : Expand(o, n, ss, asked)
                      \/ RevealNode(o, n) \/ FetchDegree(o, n) \/ CountRelationships(o, n)
  \/ LoadLabelPage(o)
  \/ \E ns \in SUBSET Nodes \ {{}} : Fetch(o, ns)
  \/ \E mode \in {"explicit", "confirmed"} : ConnectNodes(o, mode)
  \/ LoadSample(o) \/ ShowMore(o) \/ Refresh(o)
User ==
  \/ \E o \in Slots : Asked(o)
  \/ \E n \in Nodes : HideNode(n) \/ RemoveNode(n)
  \/ ClearCanvas
Next ==
  \/ \E o \in Slots : Answered(o)
  \/ asks < MaxAsks /\ asks' = asks + 1 /\ User

Spec == Init /\ [][Next]_vars

-----------------------------------------------------------------------------
(* Properties. *)

\* Each variable keeps its type; the canvas keeps its cap, and no edge is left
\* without both its ends, whatever lands or is evicted while reads are under way.
TypeOK ==
  /\ store \subseteq Nodes /\ Cardinality(store) <= Cap /\ hidden \subseteq store
  /\ edges \subseteq EdgeIds /\ \A e \in edges : Ends(e) \subseteq store
  /\ probes \subseteq Nodes /\ counted \subseteq Nodes /\ confirmed \subseteq NodeSides
  /\ degrees \subseteq Nodes /\ heavy \subseteq degrees \X Sides /\ thinned \subseteq Veiled
  /\ cursors \in [Nodes -> [Sides -> 0..Done]] /\ rows \in 0..AllRows
  /\ phase \in {"loading", "ready", "empty", "error"}
  /\ warned \in [Nodes -> SUBSET Sides] /\ offer \subseteq Nodes /\ large \subseteq Nodes
  /\ seeding \in [sized : SUBSET Nodes, tallied : SUBSET Nodes, expanded : SUBSET Nodes, frontier : SUBSET Nodes]
  /\ asks \in 0..MaxAsks /\ epoch \in 0..asks
  /\ \A o \in Slots : op[o].cand \subseteq Nodes /\ op[o].sides \subseteq Sides /\ op[o].epoch <= epoch

\* A large side is only read once the user chose to, or a degree, counted
\* without the hidden labels, found it small: nothing else reads a large side
\* of a node on its own, and the first view reads none.
LargeSides(ns) == (ns \X Sides) \cap (Big \cup Dense)
Quiet(ns) == LargeSides(ns) = {}
LargeOnlyWhenAsked ==
  \A o \in Slots : op[o].live =>
    CASE op[o].stage = "page" -> ({op[o].node} \X op[o].sides) \cap Big \subseteq confirmed \cup thinned
      [] op[o].stage = "connect" -> op[o].mode = "confirmed" \/ LargeSides(op[o].cand) \subseteq thinned
      [] op[o].stage = "ring" -> Quiet(op[o].batch)
      [] op[o].stage = "seedConnect" -> Quiet(op[o].cand)
      [] OTHER -> TRUE

\* What expand says of itself (useExplorerGraph.ts:1760-1763): a side over the
\* threshold is only read once the user confirmed that side.  A degree that left
\* the hidden labels out makes such a side small, and it is read unconfirmed.
LargeSidesAreConfirmed ==
  \A o \in Slots : op[o].live /\ op[o].stage = "page" => ({op[o].node} \X op[o].sides) \cap Big \subseteq confirmed

\* Paging a side skips none of its edges: those up to the cursor were all
\* returned by some page.
PagesSkipNothing ==
  \A n \in Nodes, s \in Sides : \A e \in EdgesOf(n, s) :
    (cursors[n][s] # Unstarted /\ e <= cursors[n][s]) => <<n, e>> \in seen

\* What was asked before a refresh or Clear never lands after it: all that is
\* left for it is to end, changing nothing.
LateChangesNothing ==
  \A o \in Slots : op[o].kind # "idle" /\ op[o].epoch < epoch /\ op'[o].stage # op[o].stage
    => op'[o] = Idle /\ UNCHANGED <<canvas, sizes, offer, large, seeding, Rested>>

\* Whatever the user asks for ends: no chain of probes, counts, connects and
\* pages goes on for ever.
UnderWay(o) == op[o].kind # "idle"
=============================================================================

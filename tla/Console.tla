------------------------------ MODULE Console ------------------------------
(* The web console: its parts, each a module of its own.  They share no      *)
(* state in the code, so a behaviour is one part's, chosen in the initial    *)
(* state, and one set of variables serves whichever part that is.            *)
EXTENDS Naturals, FiniteSets, Sequences

CONSTANTS
  Parts,                                                    \* the parts a run explores
  Tabs, Calls, TabOf, Servers, MaxToken, Rejecting,         \* Session
  UnsafeCalls, UnsafeTabOf, MaxTokens, MaxSessions,         \* CsrfTokens, of the same Tabs
  Flows, KEPT_LOGINS,                                       \* Logins
  Requests, MaxInFlight, Burst, Delays, MaxRefreshes,       \* RequestLimiter
  Named, Later, CountCap, LateBudget, RetryWaits, MaxBoots, \* LateCounts
  VersionItems, MaxGens, MaxLeaves,                         \* Revision
  Texts, MaxQuestions, MaxSubmits, MaxEvents, EventPage,    \* Chat: the composer
  StreamTexts, StreamQuestions, StreamSubmits, StreamEvents,   \* Chat: the streams
  Cards, BytesOf, OtherUploads, BatchOf, MaxTries,          \* Uploads
  Visits, MaxDrafts, MaxFaults, SyncMayFail,                \* SampleTour
  Nodes, Src, Dst, Big, Dense, Veiled, Hubs, Rows, Slots, Cap,
  Limit, PageSize, ConnectBudget, MaxRequests, MaxAsks,            \* Explorer
  Pages, MaxConnectors, KindOf, KindOrder, Folders, Names, FirstOnes,
  FirstLayout, WantedChanges, MaxChanges, MaxMishaps        \* DataTree

VARIABLES part, v1, v2, v3, v4, v5, v6, v7, v8, v9, v10, v11, v12, v13, v14, v15, v16, v17, v18, v19, v20

-----------------------------------------------------------------------------
(* The parts. *)

S == INSTANCE Session WITH
  jar <- v1, known <- v2, lock <- v3, call <- v4, flight <- v5, explicit <- v6, minted <- v7,
  age <- v8, spent <- v9, excused <- v10, signedOut <- v11
K == INSTANCE CsrfTokens WITH
  Calls <- UnsafeCalls, TabOf <- UnsafeTabOf,
  session <- v1, cookie <- v2, mintedFor <- v3, held <- v4, request <- v5, generation <- v6,
  fetching <- v7, unsafe <- v8, upset <- v9
G == INSTANCE Logins WITH
  cookies <- v1, login <- v2, sentWith <- v3, later <- v4, lapsed <- v5
L == INSTANCE RequestLimiter WITH
  tokens <- v1, inFlight <- v2, queue <- v3, timer <- v4, req <- v5, keyed <- v6, busy <- v7,
  generation <- v8, newest <- v9
N == INSTANCE LateCounts WITH
  overview <- v1, rail <- v2, marked <- v3, backlog <- v4, late <- v5, busy <- v6, failures <- v7,
  counts <- v8, boots <- v9
R == INSTANCE Revision WITH
  Items <- VersionItems,
  edits <- v1, run <- v2, open <- v3, pending <- v4, dirty <- v5, noticed <- v6, cached <- v7,
  posts <- v8, gens <- v9, wanted <- v10, leaves <- v11
C == INSTANCE Chat WITH
  PageSize <- EventPage,
  text <- v1, token <- v2, pending <- v3, asking <- v4, rows <- v5, list <- v6, listing <- v7,
  stream <- v8, paging <- v9, submits <- v10, meant <- v11, asks <- v12
Q == INSTANCE Chat WITH
  Texts <- StreamTexts, MaxQuestions <- StreamQuestions, MaxSubmits <- StreamSubmits,
  MaxEvents <- StreamEvents, PageSize <- EventPage,
  text <- v1, token <- v2, pending <- v3, asking <- v4, rows <- v5, list <- v6, listing <- v7,
  stream <- v8, paging <- v9, submits <- v10, meant <- v11, asks <- v12
U == INSTANCE Uploads WITH
  Others <- OtherUploads,
  card <- v1, doc <- v2, stored <- v3, counted <- v4, stale <- v5
T == INSTANCE SampleTour WITH
  visit <- v1, here <- v2, walk <- v3, service <- v4, faults <- v5
X == INSTANCE Explorer WITH
  store <- v1, edges <- v2, hidden <- v3, probes <- v4, counted <- v5, confirmed <- v6,
  cursors <- v7, rows <- v8, phase <- v9, warned <- v10, offer <- v11, large <- v12,
  seeding <- v13, epoch <- v14, asks <- v15, op <- v16, seen <- v17,
  degrees <- v18, heavy <- v19, thinned <- v20
D == INSTANCE DataTree WITH
  First <- FirstOnes, Start <- FirstLayout, Wanted <- WantedChanges,
  stored <- v1, exists <- v2, created <- v3, page <- v4, changes <- v5, mishaps <- v6

Spare12 == v13 = 0 /\ v14 = 0 /\ v15 = 0 /\ v16 = 0 /\ v17 = 0 /\ v18 = 0 /\ v19 = 0 /\ v20 = 0
Spare11 == v12 = 0 /\ Spare12
Spare9 == v10 = 0 /\ v11 = 0 /\ Spare11
Spare6 == v7 = 0 /\ v8 = 0 /\ v9 = 0 /\ Spare9
Spare5 == v6 = 0 /\ Spare6
after12 == <<v13, v14, v15, v16, v17, v18, v19, v20>>
after11 == <<v12, after12>>
after9 == <<v10, v11, after11>>
after6 == <<v7, v8, v9, after9>>
after5 == <<v6, after6>>
vars == <<part, v1, v2, v3, v4, v5, after5>>

Starts ==
  \/ part = "session" /\ S!Init /\ Spare11
  \/ part = "csrf" /\ K!Init /\ Spare9
  \/ part = "logins" /\ G!Init /\ Spare5
  \/ part = "limiter" /\ L!LimiterInit /\ Spare9
  \/ part = "counts" /\ N!LateInit /\ Spare9
  \/ part = "revision" /\ R!RevisionInit /\ Spare11
  \/ part = "composer" /\ C!ChatInit /\ Spare12
  \/ part = "stream" /\ Q!ChatInit /\ Spare12
  \/ part = "uploads" /\ U!UploadInit /\ Spare5
  \/ part = "tour" /\ T!TourInit /\ Spare5
  \/ part = "tree" /\ D!Init /\ Spare6
  \/ part = "explorer" /\ X!Init
Init == part \in Parts /\ Starts

Is(p) == part = p /\ part' = part
Next ==
  \/ Is("session") /\ S!Next /\ UNCHANGED after11
  \/ Is("csrf") /\ K!Next /\ UNCHANGED after9
  \/ Is("logins") /\ G!Next /\ UNCHANGED after5
  \/ Is("limiter") /\ L!LimiterNext /\ UNCHANGED after9
  \/ Is("counts") /\ N!LateNext /\ UNCHANGED after9
  \/ Is("revision") /\ R!RevisionNext /\ UNCHANGED after11
  \/ Is("composer") /\ C!ChatNext /\ UNCHANGED after12
  \/ Is("stream") /\ Q!ChatNext /\ UNCHANGED after12
  \/ Is("uploads") /\ U!UploadNext /\ UNCHANGED after5
  \/ Is("tour") /\ T!TourNext /\ UNCHANGED after5
  \/ Is("tree") /\ D!TreeNext /\ UNCHANGED after6
  \/ Is("explorer") /\ X!Next

Spec == Init /\ [][Next]_vars

-----------------------------------------------------------------------------
(* Fairness: timers fire, promises settle, and every request is answered or  *)
(* times out; nobody has to ask for anything but Try again.                  *)

StreamStep(action) == Is("stream") /\ action /\ UNCHANGED after12
TourStep(action) == Is("tour") /\ action /\ UNCHANGED after5
ExplorerStep(action) == Is("explorer") /\ action

\* A read tried again and again lands in the end, and the agent ends.
StreamFairness ==
  /\ WF_vars(StreamStep(Q!PollList))
  /\ SF_vars(StreamStep(Q!ListRead))
  /\ SF_vars(StreamStep(Q!ListLands))
  /\ WF_vars(StreamStep(Q!AgentStep))
  /\ \A q \in 1..StreamQuestions :
       /\ WF_vars(StreamStep(Q!PollEvents(q)))
       /\ SF_vars(StreamStep(Q!EventsStatus(q)))
       /\ SF_vars(StreamStep(Q!EventsPage(q)))
       /\ SF_vars(StreamStep(Q!EventsLand(q)))

\* Foundry's jobs end, walks go on, and the user tries again.
TourFairness ==
  /\ WF_vars(TourStep(T!TryAgain))
  /\ WF_vars(TourStep(T!Foundry))
  /\ WF_vars(TourStep(T!Walk))

ExplorerFairness == \A o \in Slots : WF_vars(ExplorerStep(X!Answered(o)))

LiveSpec == Spec /\ StreamFairness /\ TourFairness /\ ExplorerFairness

-----------------------------------------------------------------------------
(* Each part's properties, stated and explained in its module. *)

\* Each part's variables keep their types.
TypesOK ==
  CASE part = "session" -> S!TypeOK
    [] part = "csrf" -> K!TypeOK
    [] part = "logins" -> G!TypeOK
    [] part = "limiter" -> L!LimiterTypeOK
    [] part = "counts" -> N!LateTypeOK
    [] part = "revision" -> R!RevisionTypeOK
    [] part = "composer" -> C!ChatTypeOK
    [] part = "stream" -> Q!ChatTypeOK
    [] part = "uploads" -> U!UploadTypeOK
    [] part = "tour" -> T!TourTypeOK
    [] part = "tree" -> D!TreeTypeOK
    [] part = "explorer" -> X!TypeOK

\* A refresh token is presented twice only for the reasons the code gives up on.
SpentTwiceOnlyExcused == part = "session" => S!SpentTwiceOnlyExcused
\* No late or rotated cookie brings a session back after its sign-out.
SignedOutStays == part = "session" => S!SignedOutStays
\* One renewal of the CSRF token is enough, unless what it is checked against changed meanwhile.
RejectedOnlyWhenUpset == part = "csrf" => K!RejectedOnlyWhenUpset
\* Sign-ins side by side do not take one another's transaction.
LostOnlyToMany == part = "logins" => G!LostOnlyToMany
\* A waiting request has something that will wake it, and no slot leaks.
NoLostWakeup == part = "limiter" => L!NoLostWakeup
\* A label left without a count is still to be counted, unless every retry failed.
NoLabelLost == part = "counts" => N!NoLabelLost
\* Every version asked for is one that a clean preview checked whole.
CreatedWasPreviewed == part = "revision" => R!CreatedWasPreviewed
\* A clean preview makes one version while the tab stays open.
OneVersionEach == part = "revision" => R!OneVersionEach
\* A staged edit is pending until a version holds it.
EditsOutliveTheTab == part = "revision" => R!EditsOutliveTheTab
\* An ask submitted again makes one question.
AskedOnce == part = "composer" => C!AskedOnce
\* What a stream shows is the latest attempt of its log, each event once.
StreamIsTheLog == part = "stream" => Q!StreamIsTheLog
\* A card says it is done only of a document whose bytes are in.
DoneIsUploaded == part = "uploads" => U!DoneIsUploaded
\* Whatever fails and is tried again, the tab makes one of each.
MakesOne == part = "tour" => T!MakesOne
\* Nothing reads a large side of a node on its own.
LargeOnlyWhenAsked == part = "explorer" => X!LargeOnlyWhenAsked
\* Paging a side skips none of its edges.
PagesSkipNothing == part = "explorer" => X!PagesSkipNothing

\* Only the search asked last lands, and nothing asked before a refresh does.
NewestLands == [][Is("limiter") => L!LandsNewest]_vars
\* A write of the tree makes its own change of it and undoes nobody's.
NothingUndone == [][Is("tree") => D!WritesOnlyItsChange]_vars
\* What was asked before a refresh or Clear changes nothing after it.
LateNeverLands == [][Is("explorer") => X!LateChangesNothing]_vars

\* A question shown is shown ended in the end, and its stream complete.
EndIsShown ==
  \A q \in 1..StreamQuestions : (part = "stream" /\ Q!IsShown(q)) ~> (part = "stream" /\ Q!EndShown(q))
\* A page left open, tried again whenever it stops, has the sample loaded in
\* the end: "a failure says why with Try again" (sample-tour.tsx:76-79).
TourEnds == <>[](part = "tour" /\ T!IsOpen) => <>(part = "tour" /\ T!IsLoaded)
\* Whatever the user asks of the explorer ends.
OperationsEnd ==
  \A o \in Slots : (part = "explorer" /\ X!UnderWay(o)) ~> (part = "explorer" /\ ~X!UnderWay(o))

=============================================================================

------------------------------ MODULE Session ------------------------------
(* The browser session behind every /papi call: one sealed cookie shared by *)
(* the browser's tabs, a Web Lock the tabs take turns under while no tab    *)
(* knows a fresh access token, and a BFF of several instances that each run *)
(* a token refresh once per cookie.  Cookie n seals access token n and the  *)
(* single-use refresh token n; spending it mints the next cookie.           *)
EXTENDS Naturals, FiniteSets

CONSTANTS Tabs, Calls, TabOf, Servers,
          MaxToken,      \* bound: cookies minted in one behaviour
          Rejecting      \* may the API refuse a token AuthKit still accepts?

SessionConstants ==
  /\ TabOf \in [Calls -> Tabs]
  /\ MaxToken \in Nat \ {0}
  /\ Rejecting \in BOOLEAN

Tokens == 1..MaxToken
None == 0                    \* no cookie, no token
Keep == MaxToken + 1         \* an answer that sets no session cookie

VARIABLES
  jar,        \* the browser's session cookie
  known,      \* per tab: the token whose expiry it was last told
  lock,       \* the calls holding the "foundry-session" Web Lock (at most one)
  call,       \* the calls in flight, by call
  flight,     \* per instance and cookie: AuthKit's refresh, single-flight
  explicit,   \* per instance and cookie: the refresh after a 401, single-flight
  minted,     \* the newest cookie
  age,        \* per token: fresh, near its end, out
  spent,      \* per refresh token: how often it was presented
  excused,    \* ghost: cookies whose refresh the lock does not cover
  signedOut   \* ghost: signed out with no other call on its way

vars == <<jar, known, lock, call, flight, explicit, minted, age, spent, excused, signedOut>>
browser == <<jar, known, lock>>
bff == <<flight, explicit>>
provider == <<minted, age, spent>>
ghosts == <<excused, signedOut>>

Rest == [pc |-> "idle", logout |-> FALSE, cookie |-> None, at |-> None,
         token |-> None, rotated |-> FALSE, set |-> Keep, status |-> "none"]
Idle == [state |-> "idle", value |-> None]

Init ==
  /\ jar = 1
  /\ known = [t \in Tabs |-> None]
  /\ lock = {}
  /\ call = [c \in Calls |-> Rest]
  /\ flight = [s \in Servers |-> [n \in Tokens |-> Idle]]
  /\ explicit = [s \in Servers |-> [n \in Tokens |-> Idle]]
  /\ minted = 1
  /\ age = [n \in Tokens |-> "fresh"]
  /\ spent = [n \in Tokens |-> 0]
  /\ excused = {}
  /\ signedOut = FALSE

InFlight(c) == call[c].pc \notin {"idle", "queued"}

-----------------------------------------------------------------------------
(* The tab: papiFetch. *)

\* A token the tab knows, with more than SESSION_MARGIN_MS left.
Fresh(t) == known[t] # None /\ age[known[t]] # "out"

\* fetch(): the request leaves with the cookie the jar holds now.
Sent(c, logout) ==
  [Rest EXCEPT !.pc = "sent", !.logout = logout, !.cookie = jar]

\* A call that knows a fresh token goes at once; any other queues for the lock.
Ask(c, logout) ==
  /\ call[c].pc = "idle"
  /\ call' = [call EXCEPT ![c] = IF Fresh(TabOf[c]) THEN Sent(c, logout)
                                 ELSE [Rest EXCEPT !.pc = "queued", !.logout = logout]]
  /\ UNCHANGED <<browser, bff, provider, ghosts>>

\* Its turn: a token learnt meanwhile lets it go on without the lock.
Turn(c) ==
  /\ call[c].pc = "queued"
  /\ lock = {}
  /\ lock' = IF Fresh(TabOf[c]) THEN {} ELSE {c}
  /\ call' = [call EXCEPT ![c] = Sent(c, @.logout)]
  /\ UNCHANGED <<jar, known, bff, provider, ghosts>>

\* Answers can arrive out of order: an older token's must not win.
Learnt(t, c) ==
  IF call[c].status = "401" THEN None
  ELSE IF call[c].token # None /\ age[call[c].token] # "out" /\ call[c].token > known[t]
  THEN call[c].token ELSE known[t]

\* The answer arrives: its cookie, its expiry, and the lock handed on.  A 401
\* sends the page to sign-in, which only forgets what the tab knew.
Receive(c) ==
  /\ call[c].pc = "answered"
  /\ jar' = IF call[c].set = Keep THEN jar ELSE call[c].set
  /\ known' = [known EXCEPT ![TabOf[c]] = Learnt(TabOf[c], c)]
  /\ lock' = lock \ {c}
  /\ signedOut' = (signedOut \/ (call[c].logout /\ call[c].status = "ok"
                                 /\ \A d \in Calls \ {c} : ~InFlight(d)))
  /\ call' = [call EXCEPT ![c] = Rest]
  /\ UNCHANGED <<bff, provider, excused>>

-----------------------------------------------------------------------------
(* The BFF: resolveSession, refreshAfterRejection and the /papi handler. *)

\* The answer of a call whose session resolved to token m, refused, or could
\* not be told.  A route's own session cookie wins over AuthKit's.
Answered(rec, set, status) == [rec EXCEPT !.pc = "answered", !.set = set, !.status = status]

\* Mutants: AuthKit's cookie wins over the route's own; it is dropped.
SessionHeadersFault(rec, own) == IF rec.rotated THEN rec.token ELSE own
SessionHeadersLostFault(rec, own) == own
SessionHeaders(rec, own) ==
  IF own # Keep THEN own ELSE IF rec.rotated THEN rec.token ELSE Keep

Authenticated(rec, m, rotated) ==
  LET r == [rec EXCEPT !.token = m, !.rotated = rotated] IN
  IF r.logout THEN [Answered(r, SessionHeaders(r, None), "ok") EXCEPT !.token = None]
  ELSE [r EXCEPT !.pc = "upstream"]
\* A sign-out's route expires the cookie; a 401 does only when one came along.
Unauthenticated(rec) ==
  IF rec.logout THEN Answered(rec, None, "ok")
  ELSE Answered(rec, IF rec.cookie = None THEN Keep ELSE None, "401")
Transient(rec) == Answered(rec, Keep, "503")

\* A request reaches an instance: no cookie, a result still kept for this
\* cookie, a refresh to join, or one to start.
Arrive(c, s) ==
  LET rec == [call[c] EXCEPT !.at = s] IN
  /\ call[c].pc = "sent"
  /\ call' = [call EXCEPT ![c] =
       IF rec.cookie = None THEN Unauthenticated(rec)
       ELSE IF flight[s][rec.cookie].state = "kept"
       THEN Authenticated(rec, flight[s][rec.cookie].value, TRUE)
       ELSE [rec EXCEPT !.pc = "resolving"]]
  /\ flight' = IF rec.cookie # None /\ flight[s][rec.cookie].state = "idle"
               THEN [flight EXCEPT ![s][rec.cookie].state = "running"] ELSE flight
  /\ UNCHANGED <<browser, explicit, provider, ghosts>>

Joined(s, n, pc) == {c \in Calls : call[c].pc = pc /\ call[c].at = s /\ call[c].cookie = n}

\* Spends refresh token n; the provider mints the next cookie the first time.
Mint(n) ==
  /\ spent' = [spent EXCEPT ![n] = @ + 1]
  /\ minted' = IF spent[n] = 0 THEN minted + 1 ELSE minted

\* AuthKit's token still has more than its own 30 s: nothing is spent.
ResolveFresh(s, n) ==
  /\ flight[s][n].state = "running"
  /\ age[n] = "fresh"
  /\ flight' = [flight EXCEPT ![s][n] = Idle]
  /\ call' = [c \in Calls |-> IF c \in Joined(s, n, "resolving")
                              THEN Authenticated(call[c], n, FALSE) ELSE call[c]]
  /\ UNCHANGED <<browser, explicit, provider, ghosts>>

\* AuthKit refreshes: a rotated session is kept for the grace period.
ResolveRefresh(s, n) ==
  /\ flight[s][n].state = "running"
  /\ age[n] # "fresh"
  /\ spent[n] < 2 /\ (spent[n] = 0 => minted < MaxToken)
  /\ Mint(n)
  /\ flight' = [flight EXCEPT ![s][n] =
                  IF spent[n] = 0 THEN [state |-> "kept", value |-> minted'] ELSE Idle]
  /\ call' = [c \in Calls |->
       IF c \notin Joined(s, n, "resolving") THEN call[c]
       ELSE IF spent[n] = 0 THEN Authenticated(call[c], minted', TRUE)
       ELSE Unauthenticated(call[c])]
  /\ excused' = IF \E c \in Joined(s, n, "resolving") : c \notin lock
                THEN excused \cup {n} ELSE excused
  /\ UNCHANGED <<browser, explicit, age, signedOut>>

\* The provider could not be reached: the cookie stays for a retry.
ResolveTransient(s, n) ==
  /\ flight[s][n].state = "running"
  /\ age[n] # "fresh"
  /\ flight' = [flight EXCEPT ![s][n] = Idle]
  /\ call' = [c \in Calls |-> IF c \in Joined(s, n, "resolving") THEN Transient(call[c]) ELSE call[c]]
  /\ UNCHANGED <<browser, explicit, provider, ghosts>>

\* The API answers, or timed out: either way the token's expiry goes along.
Forwarded(c) ==
  /\ call[c].pc \in {"upstream", "again"}
  /\ call' = [call EXCEPT ![c] = Answered(@, SessionHeaders(@, Keep), "ok")]
  /\ UNCHANGED <<browser, bff, provider, ghosts>>

\* A sign-out refused for its CSRF token (see CsrfTokens) is a call that signs
\* nothing out: its answer brings a rotated session's cookie, but no expiry.
SignOutRefused(c) ==
  /\ call[c].pc = "upstream"
  /\ call' = [call EXCEPT ![c] = [Answered(@, SessionHeaders(@, Keep), "ok") EXCEPT !.token = None]]
  /\ UNCHANGED <<browser, bff, provider, ghosts>>

\* The API refuses the token: a session AuthKit just rotated is over, any
\* other is refreshed once, and a second refusal is passed on.
Refused(c) ==
  /\ Rejecting
  /\ call[c].pc \in {"upstream", "again"}
  /\ IF call[c].pc = "again"
     THEN /\ call' = [call EXCEPT ![c] = Answered(@, SessionHeaders(@, Keep), "401")]
          /\ UNCHANGED explicit
     ELSE IF call[c].rotated
     THEN /\ call' = [call EXCEPT ![c] = Answered(@, None, "401")]
          /\ UNCHANGED explicit
     ELSE LET f == explicit[call[c].at][call[c].cookie] IN
          /\ call' = [call EXCEPT ![c] = IF f.state = "kept"
                        THEN [@ EXCEPT !.pc = "again", !.token = f.value]
                        ELSE [@ EXCEPT !.pc = "refreshing"]]
          /\ explicit' = IF f.state # "idle" THEN explicit
                         ELSE [explicit EXCEPT ![call[c].at][call[c].cookie] = [state |-> "running", value |-> None]]
  /\ UNCHANGED <<browser, flight, provider, ghosts>>

\* refreshSession(): its cookie goes out with one of the requests that waited.
RefreshDone(s, n) ==
  /\ explicit[s][n].state = "running"
  /\ spent[n] < 2 /\ (spent[n] = 0 => minted < MaxToken)
  /\ Mint(n)
  /\ explicit' = [explicit EXCEPT ![s][n] =
                    IF spent[n] = 0 THEN [state |-> "kept", value |-> minted'] ELSE Idle]
  /\ \E owner \in Joined(s, n, "refreshing") :
       call' = [c \in Calls |->
         IF c \notin Joined(s, n, "refreshing") THEN call[c]
         ELSE IF spent[n] # 0 THEN Answered(call[c], None, "401")
         ELSE [call[c] EXCEPT !.pc = "again", !.token = minted', !.rotated = (c = owner)]]
  /\ excused' = excused \cup {n}
  /\ UNCHANGED <<browser, flight, age, signedOut>>

RefreshTransient(s, n) ==
  /\ explicit[s][n].state = "running"
  /\ explicit' = [explicit EXCEPT ![s][n] = Idle]
  /\ call' = [c \in Calls |-> IF c \in Joined(s, n, "refreshing") THEN Transient(call[c]) ELSE call[c]]
  /\ UNCHANGED <<browser, flight, provider, ghosts>>

\* The grace period ends.  Requests reach an instance well within it, but an
\* answer that carries the new cookie may take longer (60 s of upstream).
Forget(s, n) ==
  /\ flight[s][n].state = "kept" \/ explicit[s][n].state = "kept"
  /\ \A c \in Calls : ~(call[c].pc = "sent" /\ call[c].cookie = n)
  /\ flight' = IF flight[s][n].state = "kept" THEN [flight EXCEPT ![s][n] = Idle] ELSE flight
  /\ explicit' = IF explicit[s][n].state = "kept" THEN [explicit EXCEPT ![s][n] = Idle] ELSE explicit
  /\ excused' = IF \E c \in Calls \ lock : InFlight(c) /\ call[c].cookie = n THEN excused \cup {n} ELSE excused
  /\ UNCHANGED <<browser, call, provider, signedOut>>

-----------------------------------------------------------------------------
(* Time and the user. *)

\* A token nears its end and runs out; its 300 s outlive every call sent
\* before it was minted.
Pass(n) ==
  /\ n <= minted /\ age[n] # "out"
  /\ \A c \in Calls : InFlight(c) => call[c].cookie >= n
  /\ age' = [age EXCEPT ![n] = IF @ = "fresh" THEN "near" ELSE "out"]
  /\ UNCHANGED <<browser, call, bff, minted, spent, ghosts>>

\* A sign-in completes (login/callback): a new session's cookie.
SignIn ==
  /\ jar = None /\ minted < MaxToken
  /\ minted' = minted + 1
  /\ jar' = minted'
  /\ signedOut' = FALSE
  /\ UNCHANGED <<known, lock, call, bff, age, spent, excused>>

CallStep(c) == (\E s \in Servers : Arrive(c, s)) \/ Forwarded(c) \/ SignOutRefused(c) \/ Refused(c)
ResolveStep(s, n) == ResolveFresh(s, n) \/ ResolveRefresh(s, n) \/ ResolveTransient(s, n)
RefreshStep(s, n) == RefreshDone(s, n) \/ RefreshTransient(s, n)
Next ==
  \/ \E c \in Calls, logout \in BOOLEAN : Ask(c, logout)
  \/ \E c \in Calls : Turn(c) \/ Receive(c) \/ CallStep(c)
  \/ \E s \in Servers, n \in Tokens : ResolveStep(s, n) \/ RefreshStep(s, n) \/ Forget(s, n)
  \/ \E n \in Tokens : Pass(n)
  \/ SignIn

Spec == Init /\ [][Next]_vars

-----------------------------------------------------------------------------
(* Properties. *)

TypeOK ==
  /\ jar \in Tokens \cup {None}
  /\ known \in [Tabs -> Tokens \cup {None}]
  /\ lock \subseteq Calls /\ Cardinality(lock) <= 1
  /\ call \in [Calls -> [pc : {"idle", "queued", "sent", "resolving", "upstream", "refreshing", "again", "answered"},
                         logout : BOOLEAN, cookie : Tokens \cup {None}, at : Servers \cup {None},
                         token : Tokens \cup {None}, rotated : BOOLEAN,
                         set : Tokens \cup {None, Keep}, status : {"none", "ok", "401", "503"}]]
  /\ flight \in [Servers -> [Tokens -> [state : {"idle", "running", "kept"}, value : Tokens \cup {None}]]]
  /\ explicit \in [Servers -> [Tokens -> [state : {"idle", "running", "kept"}, value : Tokens \cup {None}]]]
  /\ minted \in Tokens
  /\ age \in [Tokens -> {"fresh", "near", "out"}]
  /\ spent \in [Tokens -> 0..2]
  /\ excused \subseteq Tokens

\* The lock and the single flights spend a refresh token once, whatever the
\* instances and the order of the answers, unless a call that held no lock
\* refreshed it, the API refused a valid token, or the grace period ended
\* with an unlocked call of that cookie still on its way.
SpentTwiceOnlyExcused == \A n \in Tokens : spent[n] > 1 => n \in excused

\* After a sign-out that no other call raced, no late or rotated cookie brings
\* the session back: the browser holds none until the next sign-in.
SignedOutStays == signedOut => jar = None
=============================================================================

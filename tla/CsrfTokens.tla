----------------------------- MODULE CsrfTokens -----------------------------
(* The CSRF token of unsafe calls: one per tab, fetched once and shared by   *)
(* the tab's concurrent calls, checked against a cookie that all tabs share  *)
(* and against the session; renewed once when the BFF rejects it.            *)
EXTENDS Naturals

CONSTANTS Tabs, Calls, TabOf,
          MaxTokens,     \* bound: tokens minted, and requests for one
          MaxSessions    \* bound: sign-ins

CsrfConstants ==
  /\ TabOf \in [Calls -> Tabs]
  /\ MaxTokens \in Nat \ {0} /\ MaxSessions \in Nat \ {0}

None == 0
Tokens == 1..MaxTokens
Sessions == 1..MaxSessions

VARIABLES
  session,    \* the browser's session, by its ID
  cookie,     \* the browser's CSRF cookie: the token it holds
  mintedFor,  \* per token: the session its signature binds
  held,       \* per tab: the token held (csrf)
  request,    \* per tab: the request for one under way (csrfRequest)
  generation, \* per tab: how often it forgot its token
  fetching,   \* per request: the tab, its generation, and where it is
  unsafe,     \* per call: where it is and the token it carries
  upset       \* ghost: calls renewed whose cookie or session then changed

csrfVars == <<session, cookie, mintedFor, held, request, generation, fetching, unsafe, upset>>

NoFetch == [state |-> "none", tab |-> CHOOSE t \in Tabs : TRUE, started |-> 0, token |-> None]
Calm == [pc |-> "idle", token |-> None, cookie |-> None, session |-> None, retried |-> FALSE, waits |-> None]

Init ==
  /\ session = 1 /\ cookie = None
  /\ mintedFor = [n \in Tokens |-> None]
  /\ held = [t \in Tabs |-> None]
  /\ request = [t \in Tabs |-> None]
  /\ generation = [t \in Tabs |-> 0]
  /\ fetching = [r \in Tokens |-> NoFetch]
  /\ unsafe = [c \in Calls |-> Calm]
  /\ upset = {}

Renewed == {c \in Calls : unsafe[c].retried /\ unsafe[c].pc # "idle"}
FreeRequests == {r \in Tokens : fetching[r].state = "none"}
FreeTokens == {n \in Tokens : mintedFor[n] = None}
Least(S) == CHOOSE n \in S : \A m \in S : n <= m

-----------------------------------------------------------------------------
(* csrfToken: the held token, the request under way, or a new request. *)
Attempt(rec, token) ==
  [rec EXCEPT !.pc = "sent", !.token = token, !.cookie = cookie, !.session = session, !.waits = None]

CsrfToken(c, rec, h) ==
  LET t == TabOf[c] IN
  IF h[t] # None
  THEN unsafe' = [unsafe EXCEPT ![c] = Attempt(rec, h[t])] /\ UNCHANGED <<request, fetching>>
  ELSE IF request[t] # None
  THEN unsafe' = [unsafe EXCEPT ![c] = [rec EXCEPT !.pc = "waiting", !.waits = request[t]]]
       /\ UNCHANGED <<request, fetching>>
  ELSE LET r == Least(FreeRequests) IN
       /\ FreeRequests # {}
       /\ request' = [request EXCEPT ![t] = r]
       /\ fetching' = [fetching EXCEPT ![r] = [state |-> "sent", tab |-> t, started |-> generation[t], token |-> None]]
       /\ unsafe' = [unsafe EXCEPT ![c] = [rec EXCEPT !.pc = "waiting", !.waits = r]]

Begin(c) ==
  /\ unsafe[c].pc = "idle"
  /\ CsrfToken(c, Calm, held)
  /\ UNCHANGED <<session, cookie, mintedFor, held, generation, upset>>

\* clearCsrfToken: a token still on its way is for an earlier generation.
Forgotten(t, h, q, g) ==
  /\ held' = [h EXCEPT ![t] = None]
  /\ request' = [q EXCEPT ![t] = None]
  /\ generation' = [g EXCEPT ![t] = @ + 1]

\* GET /papi/csrf: a token bound to the session, or no session.
Serve(r) ==
  /\ fetching[r].state = "sent"
  /\ IF session = None
     THEN /\ fetching' = [fetching EXCEPT ![r].state = "refused"]
          /\ UNCHANGED mintedFor
     ELSE /\ FreeTokens # {}
          /\ mintedFor' = [mintedFor EXCEPT ![Least(FreeTokens)] = session]
          /\ fetching' = [fetching EXCEPT ![r].state = "answered", ![r].token = Least(FreeTokens)]
  /\ UNCHANGED <<session, cookie, held, request, generation, unsafe, upset>>

\* A token arrives: its cookie, the tab's copy if nobody cleared it since, and
\* every call that waited goes out with it.
Obtained(r, t, n) ==
  /\ held' = IF fetching[r].started = generation[t] THEN [held EXCEPT ![t] = n] ELSE held
  /\ request' = IF request[t] = r THEN [request EXCEPT ![t] = None] ELSE request

Obtain(r) ==
  LET t == fetching[r].tab  n == fetching[r].token IN
  /\ fetching[r].state = "answered"
  /\ Obtained(r, t, n)
  /\ cookie' = n
  /\ unsafe' = [c \in Calls |-> IF unsafe[c].waits = r
                 THEN [Attempt(unsafe[c], n) EXCEPT !.cookie = n] ELSE unsafe[c]]
  /\ fetching' = [fetching EXCEPT ![r].state = "done"]
  /\ upset' = upset \cup {c \in Renewed : \/ TabOf[c] # t \/ fetching[r].started # generation[t]
                                          \/ mintedFor[n] # session}
  /\ UNCHANGED <<session, mintedFor, generation>>

\* No session: the calls that waited fail, and the page goes to sign-in.
NoToken(r) ==
  LET t == fetching[r].tab IN
  /\ fetching[r].state = "refused"
  /\ Forgotten(t, held, request, generation)
  /\ fetching' = [fetching EXCEPT ![r].state = "done"]
  /\ unsafe' = [c \in Calls |-> IF unsafe[c].waits = r THEN Calm ELSE unsafe[c]]
  /\ UNCHANGED <<session, cookie, mintedFor, upset>>

-----------------------------------------------------------------------------
(* The BFF's check and the retry of send(). *)
Accepted(rec) ==
  /\ rec.cookie # None /\ rec.token = rec.cookie
  /\ mintedFor[rec.token] = rec.session

Check(c) ==
  /\ unsafe[c].pc = "sent"
  /\ unsafe' = [unsafe EXCEPT ![c].pc = IF unsafe[c].session = None THEN "signed_out"
                                        ELSE IF Accepted(unsafe[c]) THEN "ok" ELSE "rejected"]
  /\ UNCHANGED <<session, cookie, mintedFor, held, request, generation, fetching, upset>>

\* Mutant: the rejected token is kept, and sent again.
RetryFault(c) ==
  /\ unsafe[c].pc = "rejected" /\ ~unsafe[c].retried
  /\ CsrfToken(c, [Calm EXCEPT !.retried = TRUE], held)
  /\ UNCHANGED <<session, cookie, mintedFor, held, generation, upset>>
\* Rejected once: the tab drops that token, unless it has a newer one, and
\* the call asks for a token again.
Retry(c) ==
  LET t == TabOf[c]
      h == IF held[t] = unsafe[c].token THEN [held EXCEPT ![t] = None] ELSE held IN
  /\ unsafe[c].pc = "rejected" /\ ~unsafe[c].retried
  /\ held' = h
  /\ CsrfToken(c, [Calm EXCEPT !.retried = TRUE], h)
  /\ upset' = IF h[t] \notin {None, unsafe[c].token}
                 /\ (h[t] # cookie \/ mintedFor[h[t]] # session) THEN upset \cup {c} ELSE upset \ {c}
  /\ UNCHANGED <<session, cookie, mintedFor, generation>>

\* The caller hears the outcome; a 401 also sends the page to sign-in.
Settle(c) ==
  /\ unsafe[c].pc = "ok" \/ (unsafe[c].pc = "rejected" /\ unsafe[c].retried)
  /\ unsafe' = [unsafe EXCEPT ![c] = Calm]
  /\ UNCHANGED <<session, cookie, mintedFor, held, request, generation, fetching, upset>>

LeaveToSignIn(c) ==
  /\ unsafe[c].pc = "signed_out"
  /\ Forgotten(TabOf[c], held, request, generation)
  /\ unsafe' = [unsafe EXCEPT ![c] = Calm]
  /\ UNCHANGED <<session, cookie, mintedFor, fetching, upset>>

\* signOut: the answer expires both cookies; the tab forgets its token.
SignOut(c) ==
  /\ unsafe[c].pc = "ok" /\ session # None
  /\ session' = None /\ cookie' = None
  /\ Forgotten(TabOf[c], held, request, generation)
  /\ unsafe' = [unsafe EXCEPT ![c] = Calm]
  /\ upset' = upset \cup Renewed
  /\ UNCHANGED <<mintedFor, fetching>>

SignIn ==
  /\ session = None
  /\ \E s \in Sessions : s > 1 /\ (\A n \in Tokens : mintedFor[n] # s) /\ session' = s
  /\ upset' = upset \cup Renewed
  /\ UNCHANGED <<cookie, mintedFor, held, request, generation, fetching, unsafe>>

\* The held token comes within a minute of its hour.
Lapse(t) ==
  /\ held[t] # None
  /\ held' = [held EXCEPT ![t] = None]
  /\ UNCHANGED <<session, cookie, mintedFor, request, generation, fetching, unsafe, upset>>

Next ==
  \/ \E c \in Calls : Begin(c) \/ Check(c) \/ Retry(c) \/ Settle(c) \/ LeaveToSignIn(c) \/ SignOut(c)
  \/ \E r \in Tokens : Serve(r) \/ Obtain(r) \/ NoToken(r)
  \/ SignIn
  \/ \E t \in Tabs : Lapse(t)

Spec == Init /\ [][Next]_csrfVars

-----------------------------------------------------------------------------
TypeOK ==
  /\ session \in 0..MaxSessions /\ cookie \in 0..MaxTokens
  /\ mintedFor \in [Tokens -> 0..MaxSessions]
  /\ held \in [Tabs -> 0..MaxTokens] /\ request \in [Tabs -> 0..MaxTokens]
  /\ generation \in [Tabs -> Nat]
  /\ upset \subseteq Calls

\* One renewal is enough: a call is rejected for good only when another tab's
\* token, a late one or a change of session replaced the shared cookie under
\* the token it renewed to.
RejectedOnlyWhenUpset ==
  \A c \in Calls : unsafe[c].pc = "rejected" /\ unsafe[c].retried => c \in upset
=============================================================================

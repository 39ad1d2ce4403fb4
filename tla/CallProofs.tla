----------------------------- MODULE CallProofs -----------------------------
(* Theorems about the console's calls: the CSRF token one carries (K), the   *)
(* session cookie it sends and brings (S), the sign-in it started (G), and   *)
(* the limiter that the explorer's wait for (L).                             *)
EXTENDS Console, Integers, FiniteSetTheorems, WellFoundedInduction, TLAPS

\* What the variables hold in each part.
session == v1
cookie == v2
mintedFor == v3
held == v4
request == v5
forgotten == v6
fetching == v7
unsafe == v8
upset == v9
USE DEF
  session, cookie, mintedFor, held, request, forgotten, fetching, unsafe,
  upset

tokens == v1
inFlight == v2
queue == v3
timer == v4
req == v5
keyed == v6
busy == v7
generation == v8
newest == v9
USE DEF
  tokens, inFlight, queue, timer, req, keyed, busy, generation, newest

jar == v1
known == v2
lock == v3
call == v4
flight == v5
explicit == v6
minted == v7
age == v8
spent == v9
excused == v10
signedOut == v11
USE DEF
  jar, known, lock, call, flight, explicit, minted, age, spent, excused,
  signedOut

cookies == v1
login == v2
sentWith == v3
later == v4
lapsed == v5
USE DEF
  cookies, login, sentWith, later, lapsed

-----------------------------------------------------------------------------
LEMMA LeastIndex ==
  ASSUME NEW V \in SUBSET Nat, V # {}
  PROVE  \E n \in V : \A m \in V : n <= m
<1> DEFINE Less == {ss \in Nat \X Nat : ss[1] < ss[2]}
<1>1. IsWellFoundedOn(Less, Nat)
  <2>1. Less = OpToRel(<, Nat)
    BY DEF OpToRel
  <2> QED BY <2>1, NatLessThanWellFounded
<1>2. PICK n \in V : \A m \in V : <<m, n>> \notin Less
  BY <1>1, WFMin
<1>3. \A i, j \in Nat : i < j => <<i, j>> \in Less
  OBVIOUS
<1> HIDE DEF Less
<1>4. n \in Nat /\ \A m \in V : m \in Nat /\ ~(m < n)
  BY <1>2, <1>3
<1> QED BY <1>4

-----------------------------------------------------------------------------
(* CSRF tokens. *)

UnsafeStates ==
  [pc : {"idle", "waiting", "sent", "ok", "rejected", "signed_out"}, token : 0..MaxTokens, cookie : 0..MaxTokens,
   session : 0..MaxSessions, retried : BOOLEAN, waits : 0..MaxTokens]
Fetches ==
  [state : {"none", "sent", "answered", "refused", "done"}, tab : Tabs \cup {K!NoFetch.tab}, started : Nat,
   token : 0..MaxTokens]

\* A call sent again, and not upset, carries the token its cookie holds, minted
\* for the session it is checked against.
Renews(c) ==
  unsafe[c].retried /\ c \notin upset =>
    /\ unsafe[c].pc # "rejected"
    /\ unsafe[c].pc = "sent" => unsafe[c].session = 0 \/ K!Accepted(unsafe[c])
CsrfTyped ==
  /\ K!TypeOK /\ unsafe \in [UnsafeCalls -> UnsafeStates] /\ fetching \in [K!Tokens -> Fetches]
  /\ \A r \in K!Tokens : fetching[r].state = "answered" => fetching[r].token # 0
  /\ \A c \in UnsafeCalls : unsafe[c].waits # 0 => unsafe[c].pc = "waiting"
CsrfInv == CsrfTyped /\ \A c \in UnsafeCalls : Renews(c)

LEMMA CsrfBounds ==
  ASSUME K!CsrfConstants
  PROVE  /\ MaxTokens \in Nat \ {0} /\ MaxSessions \in Nat \ {0} /\ UnsafeTabOf \in [UnsafeCalls -> Tabs]
         /\ K!Tokens = 1..MaxTokens /\ K!Sessions = 1..MaxSessions
         /\ \A n \in K!Tokens : n \in 0..MaxTokens /\ n # 0
         /\ \A n \in 0..MaxTokens : n # 0 => n \in K!Tokens
BY DEF K!CsrfConstants, K!Tokens, K!Sessions

LEMMA LeastIs ==
  ASSUME K!CsrfConstants, NEW V \in SUBSET K!Tokens, V # {}
  PROVE  K!Least(V) \in V
<1>1. V \in SUBSET Nat
  BY CsrfBounds
<1>2. \E n \in V : \A m \in V : n <= m
  BY <1>1, LeastIndex
<1> QED BY <1>2 DEF K!Least

LEMMA CsrfStart == ASSUME K!CsrfConstants, K!Init PROVE CsrfInv
<1>1. K!Calm \in UnsafeStates /\ K!Calm.waits = 0 /\ ~K!Calm.retried
  BY CsrfBounds DEF K!Calm, K!None, UnsafeStates
<1>2. K!NoFetch \in Fetches /\ K!NoFetch.state = "none"
  <2> DEFINE some == CHOOSE t \in Tabs : TRUE
  <2>1. K!NoFetch = [state |-> "none", tab |-> some, started |-> 0, token |-> 0]
    BY DEF K!NoFetch, K!None
  <2> HIDE DEF some
  <2>2. K!NoFetch.tab = some /\ 0 \in 0..MaxTokens
    BY <2>1, CsrfBounds
  <2> QED BY <2>1, <2>2 DEF Fetches
<1>3. K!TypeOK
  BY CsrfBounds DEF K!Init, K!TypeOK, K!None
<1>4. unsafe \in [UnsafeCalls -> UnsafeStates] /\ \A c \in UnsafeCalls : unsafe[c].waits = 0 /\ ~unsafe[c].retried
  BY <1>1 DEF K!Init
<1>5. fetching \in [K!Tokens -> Fetches] /\ \A r \in K!Tokens : fetching[r].state = "none"
  BY <1>2 DEF K!Init
<1> QED BY <1>3, <1>4, <1>5 DEF CsrfInv, CsrfTyped, Renews

LEMMA Attempts ==
  ASSUME K!CsrfConstants, K!TypeOK, NEW rec \in UnsafeStates, NEW n \in 0..MaxTokens
  PROVE  LET goes == K!Attempt(rec, n) IN
         /\ goes \in UnsafeStates /\ goes.pc = "sent" /\ goes.waits = 0 /\ goes.token = n
         /\ goes.cookie = cookie /\ goes.session = session /\ goes.retried = rec.retried
<1>1. 0 \in 0..MaxTokens /\ cookie \in 0..MaxTokens /\ session \in 0..MaxSessions
  BY CsrfBounds DEF K!TypeOK
<1> QED BY <1>1 DEF K!Attempt, K!None, UnsafeStates

\* csrfToken: the call goes with the held token and the cookie there is, or
\* waits for one.
LEMMA Asked ==
  ASSUME K!CsrfConstants, CsrfTyped, NEW c \in UnsafeCalls, NEW rec \in UnsafeStates, rec.waits = 0,
         NEW h \in [Tabs -> 0..MaxTokens], K!CsrfToken(c, rec, h)
  PROVE  /\ unsafe' \in [UnsafeCalls -> UnsafeStates] /\ \A d \in UnsafeCalls \ {c} : unsafe'[d] = unsafe[d]
         /\ unsafe'[c].retried = rec.retried
         /\ \/ /\ unsafe'[c].pc = "sent" /\ unsafe'[c].waits = 0 /\ h[UnsafeTabOf[c]] # 0 /\ unsafe'[c].token = h[UnsafeTabOf[c]]
               /\ unsafe'[c].cookie = cookie /\ unsafe'[c].session = session
            \/ unsafe'[c].pc = "waiting" /\ h[UnsafeTabOf[c]] = 0
         /\ request' \in [Tabs -> 0..MaxTokens] /\ fetching' \in [K!Tokens -> Fetches]
         /\ \A r \in K!Tokens : fetching'[r].state = "answered" => fetching'[r].token # 0
<1> DEFINE t == UnsafeTabOf[c]
<1>1. /\ unsafe \in [UnsafeCalls -> UnsafeStates] /\ fetching \in [K!Tokens -> Fetches] /\ request \in [Tabs -> 0..MaxTokens]
      /\ forgotten \in [Tabs -> Nat] /\ cookie \in 0..MaxTokens /\ session \in 0..MaxSessions /\ t \in Tabs
      /\ \A r \in K!Tokens : fetching[r].state = "answered" => fetching[r].token # 0
  BY CsrfBounds DEF CsrfTyped, K!TypeOK
<1> DEFINE goes(n) == K!Attempt(rec, n)
           stays(r) == [rec EXCEPT !.pc = "waiting", !.waits = r]
<1>2. ASSUME NEW n \in 0..MaxTokens
      PROVE  /\ goes(n) \in UnsafeStates /\ goes(n).pc = "sent" /\ goes(n).waits = 0 /\ goes(n).token = n
             /\ goes(n).cookie = cookie /\ goes(n).session = session /\ goes(n).retried = rec.retried
  BY Attempts DEF CsrfTyped
<1>3. ASSUME NEW r \in 0..MaxTokens
      PROVE  stays(r) \in UnsafeStates /\ stays(r).pc = "waiting" /\ stays(r).retried = rec.retried
  BY DEF UnsafeStates
<1>4. CASE h[t] # 0
  <2>1. unsafe' = [unsafe EXCEPT ![c] = goes(h[t])] /\ UNCHANGED <<request, fetching>>
    BY <1>4 DEF K!CsrfToken, K!None
  <2>2. h[t] \in 0..MaxTokens
    BY <1>1
  <2> HIDE DEF goes
  <2> QED BY <1>1, <1>2, <1>4, <2>1, <2>2
<1>5. CASE h[t] = 0 /\ request[t] # 0
  <2>1. unsafe' = [unsafe EXCEPT ![c] = stays(request[t])] /\ UNCHANGED <<request, fetching>>
    BY <1>5 DEF K!CsrfToken, K!None
  <2>2. request[t] \in 0..MaxTokens
    BY <1>1
  <2> HIDE DEF stays
  <2> QED BY <1>1, <1>3, <1>5, <2>1, <2>2
<1>6. CASE h[t] = 0 /\ request[t] = 0
  <2> DEFINE r == K!Least(K!FreeRequests)
             asks == [state |-> "sent", tab |-> t, started |-> forgotten[t], token |-> 0]
  <2>1. /\ K!FreeRequests # {} /\ request' = [request EXCEPT ![t] = r] /\ fetching' = [fetching EXCEPT ![r] = asks]
        /\ unsafe' = [unsafe EXCEPT ![c] = stays(r)]
    BY <1>6 DEF K!CsrfToken, K!None
  <2>2. r \in K!Tokens /\ r \in 0..MaxTokens
    <3>1. K!FreeRequests \in SUBSET K!Tokens
      BY DEF K!FreeRequests
    <3> QED BY <2>1, <3>1, LeastIs, CsrfBounds
  <2>3. asks \in Fetches /\ asks.state = "sent"
    BY <1>1, CsrfBounds DEF Fetches
  <2> HIDE DEF stays, asks, r
  <2>4. unsafe' \in [UnsafeCalls -> UnsafeStates] /\ unsafe'[c] = stays(r) /\ \A d \in UnsafeCalls \ {c} : unsafe'[d] = unsafe[d]
    BY <1>1, <1>3, <2>1, <2>2
  <2>5. request' \in [Tabs -> 0..MaxTokens] /\ fetching' \in [K!Tokens -> Fetches]
    BY <1>1, <2>1, <2>2, <2>3
  <2>6. \A q \in K!Tokens : fetching'[q] = fetching[q] \/ fetching'[q] = asks
    BY <1>1, <2>1
  <2> QED BY <1>1, <1>3, <1>6, <2>2, <2>3, <2>4, <2>5, <2>6
<1> QED BY <1>4, <1>5, <1>6

\* A step of one call that leaves the tokens alone.
LEMMA CallSteps ==
  ASSUME K!CsrfConstants, CsrfInv, NEW c \in UnsafeCalls,
         K!Begin(c) \/ K!Check(c) \/ K!Retry(c) \/ K!Settle(c) \/ K!LeaveToSignIn(c)
  PROVE  CsrfInv'
<1>1. /\ unsafe \in [UnsafeCalls -> UnsafeStates] /\ unsafe[c] \in UnsafeStates /\ fetching \in [K!Tokens -> Fetches]
      /\ held \in [Tabs -> 0..MaxTokens] /\ request \in [Tabs -> 0..MaxTokens] /\ forgotten \in [Tabs -> Nat]
      /\ upset \subseteq UnsafeCalls /\ UnsafeTabOf[c] \in Tabs /\ K!TypeOK /\ CsrfTyped
      /\ \A d \in UnsafeCalls : Renews(d)
  BY CsrfBounds DEF CsrfInv, CsrfTyped, K!TypeOK
<1>2. K!Calm \in UnsafeStates /\ K!Calm.waits = 0 /\ ~K!Calm.retried
  BY CsrfBounds DEF K!Calm, K!None, UnsafeStates
<1> DEFINE again == [K!Calm EXCEPT !.retried = TRUE]
<1>3. again \in UnsafeStates /\ again.waits = 0 /\ again.retried
  BY <1>2 DEF UnsafeStates
<1> HIDE DEF again
<1>4. CASE K!Begin(c)
  <2>1. /\ K!CsrfToken(c, K!Calm, held)
        /\ UNCHANGED <<session, cookie, mintedFor, held, forgotten, upset>>
    BY <1>4 DEF K!Begin
  <2>2. /\ unsafe' \in [UnsafeCalls -> UnsafeStates] /\ \A d \in UnsafeCalls \ {c} : unsafe'[d] = unsafe[d]
        /\ ~unsafe'[c].retried /\ (unsafe'[c].waits # 0 => unsafe'[c].pc = "waiting")
        /\ request' \in [Tabs -> 0..MaxTokens] /\ fetching' \in [K!Tokens -> Fetches]
        /\ \A r \in K!Tokens : fetching'[r].state = "answered" => fetching'[r].token # 0
    BY <1>1, <1>2, <2>1, Asked
  <2>3. CsrfTyped'
    <3>1. K!TypeOK'
      BY <1>1, <2>1, <2>2 DEF K!TypeOK
    <3>2. \A d \in UnsafeCalls : unsafe'[d].waits # 0 => unsafe'[d].pc = "waiting"
      BY <1>1, <2>2 DEF CsrfTyped
    <3> QED BY <2>2, <3>1, <3>2 DEF CsrfTyped
  <2>4. ASSUME NEW d \in UnsafeCalls PROVE Renews(d)'
    <3>1. CASE d = c
      BY <2>2, <3>1 DEF Renews
    <3>2. CASE d # c
      BY <1>1, <2>1, <2>2, <3>2 DEF Renews, K!Accepted
    <3> QED BY <3>1, <3>2
  <2> QED BY <2>3, <2>4 DEF CsrfInv
<1>5. CASE K!Check(c)
  <2> DEFINE pc == IF unsafe[c].session = 0 THEN "signed_out" ELSE IF K!Accepted(unsafe[c]) THEN "ok" ELSE "rejected"
             checked == [unsafe[c] EXCEPT !.pc = pc]
  <2>1. /\ unsafe[c].pc = "sent" /\ unsafe' = [unsafe EXCEPT ![c] = checked]
        /\ UNCHANGED <<session, cookie, mintedFor, held, request, forgotten, fetching, upset>>
    BY <1>5 DEF K!Check, K!None
  <2>2. /\ checked \in UnsafeStates /\ checked.pc = pc /\ checked.waits = unsafe[c].waits
        /\ checked.retried = unsafe[c].retried /\ pc # "sent"
    BY <1>1 DEF UnsafeStates
  <2>3. unsafe[c].waits = 0 /\ (unsafe[c].retried /\ c \notin upset => pc # "rejected")
    BY <1>1, <2>1 DEF CsrfTyped, Renews
  <2> HIDE DEF checked, pc
  <2>4. unsafe' \in [UnsafeCalls -> UnsafeStates] /\ unsafe'[c] = checked /\ \A d \in UnsafeCalls \ {c} : unsafe'[d] = unsafe[d]
    BY <1>1, <2>1, <2>2
  <2> QED BY <1>1, <2>1, <2>2, <2>3, <2>4 DEF CsrfInv, CsrfTyped, K!TypeOK, Renews, K!Accepted
<1>6. CASE K!Retry(c)
  <2> DEFINE t == UnsafeTabOf[c]
             h == IF held[t] = unsafe[c].token THEN [held EXCEPT ![t] = 0] ELSE held
  <2>1. /\ held' = h /\ K!CsrfToken(c, again, h)
        /\ upset' = IF h[t] \notin {0, unsafe[c].token} /\ (h[t] # cookie \/ mintedFor[h[t]] # session)
                    THEN upset \cup {c} ELSE upset \ {c}
        /\ UNCHANGED <<session, cookie, mintedFor, forgotten>>
    BY <1>6 DEF K!Retry, K!None, again
  <2>2. h \in [Tabs -> 0..MaxTokens] /\ h[t] \notin {unsafe[c].token} \ {0}
    BY <1>1, CsrfBounds
  <2> HIDE DEF h
  <2>3. /\ unsafe' \in [UnsafeCalls -> UnsafeStates] /\ \A d \in UnsafeCalls \ {c} : unsafe'[d] = unsafe[d]
        /\ unsafe'[c].retried
        /\ \/ /\ unsafe'[c].pc = "sent" /\ unsafe'[c].waits = 0 /\ h[t] # 0 /\ unsafe'[c].token = h[t]
              /\ unsafe'[c].cookie = cookie /\ unsafe'[c].session = session
           \/ unsafe'[c].pc = "waiting" /\ h[t] = 0
        /\ request' \in [Tabs -> 0..MaxTokens] /\ fetching' \in [K!Tokens -> Fetches]
        /\ \A r \in K!Tokens : fetching'[r].state = "answered" => fetching'[r].token # 0
    BY <1>1, <1>3, <2>1, <2>2, Asked
  <2>4. upset' \subseteq UnsafeCalls /\ \A d \in UnsafeCalls \ {c} : d \in upset' <=> d \in upset
    BY <1>1, <2>1
  <2>5. Renews(c)'
    <3>1. CASE unsafe'[c].pc = "waiting"
      BY <3>1 DEF Renews
    <3>2. CASE unsafe'[c].pc = "sent" /\ c \notin upset'
      <4>1. h[t] \notin {0, unsafe[c].token} /\ h[t] = cookie /\ mintedFor[h[t]] = session
        BY <2>1, <2>2, <2>3, <3>2
      <4> QED BY <2>1, <2>3, <3>2, <4>1 DEF Renews, K!Accepted, K!None
    <3>3. CASE c \in upset'
      BY <3>3 DEF Renews
    <3> QED BY <2>3, <3>1, <3>2, <3>3
  <2>6. \A d \in UnsafeCalls \ {c} : Renews(d)'
    BY <1>1, <2>1, <2>3, <2>4 DEF Renews, K!Accepted
  <2>7. CsrfTyped'
    BY <1>1, <2>1, <2>2, <2>3, <2>4 DEF CsrfTyped, K!TypeOK
  <2> QED BY <2>5, <2>6, <2>7 DEF CsrfInv
<1>7. CASE K!Settle(c) \/ K!LeaveToSignIn(c)
  <2>1. /\ unsafe' = [unsafe EXCEPT ![c] = K!Calm]
        /\ UNCHANGED <<session, cookie, mintedFor, fetching, upset>>
        /\ held' \in [Tabs -> 0..MaxTokens] /\ request' \in [Tabs -> 0..MaxTokens] /\ forgotten' \in [Tabs -> Nat]
    <3>1. CASE K!Settle(c)
      BY <1>1, <3>1 DEF K!Settle
    <3>2. CASE K!LeaveToSignIn(c)
      BY <1>1, <3>2, CsrfBounds DEF K!LeaveToSignIn, K!Forgotten, K!None
    <3> QED BY <1>7, <3>1, <3>2
  <2>2. unsafe' \in [UnsafeCalls -> UnsafeStates] /\ unsafe'[c] = K!Calm /\ \A d \in UnsafeCalls \ {c} : unsafe'[d] = unsafe[d]
    BY <1>1, <1>2, <2>1
  <2> QED BY <1>1, <1>2, <2>1, <2>2 DEF CsrfInv, CsrfTyped, K!TypeOK, Renews, K!Accepted
<1> QED BY <1>4, <1>5, <1>6, <1>7

\* The answers to the requests for a token.
LEMMA TokenSteps ==
  ASSUME K!CsrfConstants, CsrfInv, NEW r \in K!Tokens, K!Serve(r) \/ K!Obtain(r) \/ K!NoToken(r)
  PROVE  CsrfInv'
<1> DEFINE t == fetching[r].tab
<1>1. /\ unsafe \in [UnsafeCalls -> UnsafeStates] /\ fetching \in [K!Tokens -> Fetches] /\ fetching[r] \in Fetches
      /\ held \in [Tabs -> 0..MaxTokens] /\ request \in [Tabs -> 0..MaxTokens] /\ forgotten \in [Tabs -> Nat]
      /\ mintedFor \in [K!Tokens -> 0..MaxSessions] /\ session \in 0..MaxSessions /\ cookie \in 0..MaxTokens
      /\ upset \subseteq UnsafeCalls /\ r \in 0..MaxTokens /\ r # 0
      /\ \A q \in K!Tokens : fetching[q].state = "answered" => fetching[q].token # 0
      /\ \A c \in UnsafeCalls : unsafe[c].waits # 0 => unsafe[c].pc = "waiting"
      /\ \A d \in UnsafeCalls : Renews(d)
  BY CsrfBounds DEF CsrfInv, CsrfTyped, K!TypeOK
<1>2. K!Calm \in UnsafeStates /\ K!Calm.waits = 0 /\ ~K!Calm.retried
  BY CsrfBounds DEF K!Calm, K!None, UnsafeStates
<1>3. CASE K!Serve(r) /\ session = 0
  <2> DEFINE refuses == [fetching[r] EXCEPT !.state = "refused"]
  <2>1. /\ fetching' = [fetching EXCEPT ![r] = refuses]
        /\ UNCHANGED <<session, cookie, mintedFor, held, request, forgotten, unsafe, upset>>
    BY <1>3 DEF K!Serve, K!None
  <2>2. refuses \in Fetches /\ refuses.state = "refused"
    BY <1>1 DEF Fetches
  <2> HIDE DEF refuses
  <2>3. fetching' \in [K!Tokens -> Fetches] /\ fetching'[r] = refuses /\ \A q \in K!Tokens \ {r} : fetching'[q] = fetching[q]
    BY <1>1, <2>1, <2>2
  <2> QED BY <1>1, <2>1, <2>2, <2>3 DEF CsrfInv, CsrfTyped, K!TypeOK, Renews, K!Accepted
<1>4. CASE K!Serve(r) /\ session # 0
  <2> DEFINE n == K!Least(K!FreeTokens)
             answers == [fetching[r] EXCEPT !.state = "answered", !.token = n]
  <2>1. /\ K!FreeTokens # {} /\ mintedFor' = [mintedFor EXCEPT ![n] = session]
        /\ fetching' = [fetching EXCEPT ![r] = answers]
        /\ UNCHANGED <<session, cookie, held, request, forgotten, unsafe, upset>>
    BY <1>1, <1>4 DEF K!Serve, K!None, Fetches
  <2>2. n \in K!Tokens /\ n \in 0..MaxTokens /\ n # 0 /\ mintedFor[n] = 0
    <3>1. K!FreeTokens \in SUBSET K!Tokens
      BY DEF K!FreeTokens
    <3>2. n \in K!FreeTokens
      BY <2>1, <3>1, LeastIs
    <3> QED BY <3>2, CsrfBounds DEF K!FreeTokens, K!None
  <2>3. answers \in Fetches /\ answers.token = n
    BY <1>1, <2>2 DEF Fetches
  <2> HIDE DEF answers, n
  <2>4. fetching' \in [K!Tokens -> Fetches] /\ fetching'[r] = answers /\ \A q \in K!Tokens \ {r} : fetching'[q] = fetching[q]
    BY <1>1, <2>1, <2>3
  <2>5. mintedFor' \in [K!Tokens -> 0..MaxSessions] /\ \A m \in K!Tokens : mintedFor[m] # 0 => mintedFor'[m] = mintedFor[m]
    BY <1>1, <2>1, <2>2
  <2>6. ASSUME NEW c \in UnsafeCalls PROVE Renews(c)'
    <3>1. ASSUME unsafe[c].session # 0, K!Accepted(unsafe[c]) PROVE K!Accepted(unsafe[c])'
      <4>1. unsafe[c].token \in K!Tokens
        BY <1>1, <3>1, CsrfBounds DEF K!Accepted, K!None, UnsafeStates
      <4> QED BY <2>1, <2>5, <3>1, <4>1 DEF K!Accepted
    <3> QED BY <1>1, <2>1, <3>1 DEF Renews
  <2> QED BY <1>1, <2>1, <2>2, <2>3, <2>4, <2>5, <2>6 DEF CsrfInv, CsrfTyped, K!TypeOK
<1> DEFINE over == [fetching[r] EXCEPT !.state = "done"]
<1>5. over \in Fetches /\ over.state = "done"
  BY <1>1 DEF Fetches
<1>6. CASE K!Obtain(r)
  <2> DEFINE n == fetching[r].token
             goes(c) == [K!Attempt(unsafe[c], n) EXCEPT !.cookie = n]
  <2>1. /\ fetching[r].state = "answered" /\ cookie' = n /\ fetching' = [fetching EXCEPT ![r] = over]
        /\ held' = (IF fetching[r].started = forgotten[t] THEN [held EXCEPT ![t] = n] ELSE held)
        /\ request' = (IF request[t] = r THEN [request EXCEPT ![t] = 0] ELSE request)
        /\ unsafe' = [c \in UnsafeCalls |-> IF unsafe[c].waits = r THEN goes(c) ELSE unsafe[c]]
        /\ upset' = upset \cup {c \in K!Renewed : \/ UnsafeTabOf[c] # t \/ fetching[r].started # forgotten[t]
                                                  \/ mintedFor[n] # session}
        /\ UNCHANGED <<session, mintedFor, forgotten>>
    BY <1>6 DEF K!Obtain, K!Obtained, K!None
  <2>2. n \in 0..MaxTokens /\ n # 0
    BY <1>1, <2>1 DEF Fetches
  <2>3. ASSUME NEW c \in UnsafeCalls
        PROVE  /\ goes(c) \in UnsafeStates /\ goes(c).pc = "sent" /\ goes(c).waits = 0 /\ goes(c).token = n
               /\ goes(c).cookie = n /\ goes(c).session = session /\ goes(c).retried = unsafe[c].retried
    <3> DEFINE sends == K!Attempt(unsafe[c], n)
    <3>1. unsafe[c] \in UnsafeStates
      BY <1>1
    <3>2. /\ sends \in UnsafeStates /\ sends.pc = "sent" /\ sends.waits = 0 /\ sends.token = n
          /\ sends.session = session /\ sends.retried = unsafe[c].retried
      BY <2>2, <3>1, Attempts DEF CsrfInv, CsrfTyped
    <3> HIDE DEF sends, n
    <3>3. goes(c) = [sends EXCEPT !.cookie = n]
      BY DEF sends
    <3> HIDE DEF goes
    <3> QED BY <2>2, <3>2, <3>3 DEF UnsafeStates
  <2> HIDE DEF goes, over, n
  <2>4. unsafe' \in [UnsafeCalls -> UnsafeStates] /\ \A c \in UnsafeCalls : unsafe'[c] = IF unsafe[c].waits = r THEN goes(c) ELSE unsafe[c]
    BY <1>1, <2>1, <2>3
  <2>5. fetching' \in [K!Tokens -> Fetches] /\ fetching'[r] = over /\ \A q \in K!Tokens \ {r} : fetching'[q] = fetching[q]
    BY <1>1, <1>5, <2>1
  <2>6. held' \in [Tabs -> 0..MaxTokens] /\ request' \in [Tabs -> 0..MaxTokens] /\ upset' \subseteq UnsafeCalls
    <3> HIDE DEF t
    <3>1. held' \in [Tabs -> 0..MaxTokens]
      <4>1. held \in [Tabs -> 0..MaxTokens]
        BY <1>1
      <4> QED BY <2>1, <2>2, <4>1
    <3>2. request' \in [Tabs -> 0..MaxTokens]
      <4>1. request \in [Tabs -> 0..MaxTokens] /\ 0 \in 0..MaxTokens
        BY <1>1, CsrfBounds
      <4> QED BY <2>1, <4>1
    <3>3. upset' \subseteq UnsafeCalls
      BY <1>1, <2>1 DEF K!Renewed
    <3> QED BY <3>1, <3>2, <3>3
  <2>7. ASSUME NEW c \in UnsafeCalls PROVE Renews(c)'
    <3>1. CASE unsafe[c].waits = r /\ unsafe[c].retried /\ c \notin upset'
      <4>1. c \in K!Renewed
        BY <1>1, <3>1 DEF K!Renewed
      <4>2. mintedFor[n] = session
        BY <2>1, <3>1, <4>1
      <4> QED BY <2>1, <2>2, <2>3, <2>4, <3>1, <4>2 DEF Renews, K!Accepted, K!None
    <3>2. CASE unsafe[c].waits # r
      BY <1>1, <2>1, <2>4, <3>2 DEF Renews, K!Accepted
    <3>3. CASE c \in upset' \/ (unsafe[c].waits = r /\ ~unsafe[c].retried)
      BY <2>3, <2>4, <3>3 DEF Renews
    <3> QED BY <3>1, <3>2, <3>3
  <2>8. CsrfTyped'
    BY <1>1, <1>5, <2>1, <2>2, <2>3, <2>4, <2>5, <2>6 DEF CsrfTyped, K!TypeOK
  <2> QED BY <2>7, <2>8 DEF CsrfInv
<1>7. CASE K!NoToken(r)
  <2>1. /\ fetching' = [fetching EXCEPT ![r] = over]
        /\ held' = [held EXCEPT ![t] = 0] /\ request' = [request EXCEPT ![t] = 0]
        /\ forgotten' = [forgotten EXCEPT ![t] = @ + 1]
        /\ unsafe' = [c \in UnsafeCalls |-> IF unsafe[c].waits = r THEN K!Calm ELSE unsafe[c]]
        /\ UNCHANGED <<session, cookie, mintedFor, upset>>
    BY <1>7 DEF K!NoToken, K!Forgotten, K!None
  <2> HIDE DEF over
  <2>2. unsafe' \in [UnsafeCalls -> UnsafeStates] /\ \A c \in UnsafeCalls : unsafe'[c] = IF unsafe[c].waits = r THEN K!Calm ELSE unsafe[c]
    BY <1>1, <1>2, <2>1
  <2>3. fetching' \in [K!Tokens -> Fetches] /\ fetching'[r] = over /\ \A q \in K!Tokens \ {r} : fetching'[q] = fetching[q]
    BY <1>1, <1>5, <2>1
  <2>4. held' \in [Tabs -> 0..MaxTokens] /\ request' \in [Tabs -> 0..MaxTokens] /\ forgotten' \in [Tabs -> Nat]
    <3> HIDE DEF t
    <3>1. held' \in [Tabs -> 0..MaxTokens] /\ request' \in [Tabs -> 0..MaxTokens]
      <4>1. held \in [Tabs -> 0..MaxTokens] /\ request \in [Tabs -> 0..MaxTokens] /\ 0 \in 0..MaxTokens
        BY <1>1, CsrfBounds
      <4> QED BY <2>1, <4>1
    <3>3. forgotten' \in [Tabs -> Nat]
      <4>1. forgotten \in [Tabs -> Nat]
        BY <1>1
      <4>2. CASE t \in Tabs
        BY <2>1, <4>1, <4>2
      <4>3. CASE t \notin Tabs
        BY <2>1, <4>1, <4>3
      <4> QED BY <4>2, <4>3
    <3> QED BY <3>1, <3>3
  <2>5. ASSUME NEW c \in UnsafeCalls PROVE Renews(c)'
    BY <1>1, <1>2, <2>1, <2>2 DEF Renews, K!Accepted
  <2>6. CsrfTyped'
    BY <1>1, <1>2, <1>5, <2>1, <2>2, <2>3, <2>4 DEF CsrfTyped, K!TypeOK
  <2> QED BY <2>5, <2>6 DEF CsrfInv
<1> QED BY <1>3, <1>4, <1>6, <1>7

\* Sign-out, sign-in, and a held token that comes of age.
LEMMA SessionSteps ==
  ASSUME K!CsrfConstants, CsrfInv,
         K!SignIn \/ (\E c \in UnsafeCalls : K!SignOut(c)) \/ \E t \in Tabs : K!Lapse(t)
  PROVE  CsrfInv'
<1>1. /\ unsafe \in [UnsafeCalls -> UnsafeStates] /\ held \in [Tabs -> 0..MaxTokens] /\ request \in [Tabs -> 0..MaxTokens]
      /\ forgotten \in [Tabs -> Nat] /\ upset \subseteq UnsafeCalls /\ K!Renewed \subseteq UnsafeCalls /\ 0 \in 0..MaxTokens
      /\ 0 \in 0..MaxSessions /\ session \in 0..MaxSessions /\ cookie \in 0..MaxTokens
      /\ \A d \in UnsafeCalls : Renews(d)
  BY CsrfBounds DEF CsrfInv, CsrfTyped, K!TypeOK, K!Renewed
<1>2. K!Calm \in UnsafeStates /\ K!Calm.waits = 0 /\ ~K!Calm.retried
  BY CsrfBounds DEF K!Calm, K!None, UnsafeStates
<1>3. /\ session' \in 0..MaxSessions /\ cookie' \in 0..MaxTokens /\ upset' \subseteq UnsafeCalls /\ upset \subseteq upset'
      /\ held' \in [Tabs -> 0..MaxTokens] /\ request' \in [Tabs -> 0..MaxTokens] /\ forgotten' \in [Tabs -> Nat]
      /\ UNCHANGED <<mintedFor, fetching>>
      /\ unsafe' = unsafe \/ \E c \in UnsafeCalls : unsafe' = [unsafe EXCEPT ![c] = K!Calm]
  <2>1. CASE K!SignIn
    BY <1>1, <2>1, CsrfBounds DEF K!SignIn
  <2>2. ASSUME NEW c \in UnsafeCalls, K!SignOut(c)
        PROVE  /\ session' \in 0..MaxSessions /\ cookie' \in 0..MaxTokens /\ upset' \subseteq UnsafeCalls /\ upset \subseteq upset'
               /\ held' \in [Tabs -> 0..MaxTokens] /\ request' \in [Tabs -> 0..MaxTokens] /\ forgotten' \in [Tabs -> Nat]
               /\ UNCHANGED <<mintedFor, fetching>> /\ unsafe' = [unsafe EXCEPT ![c] = K!Calm]
    <3>1. UnsafeTabOf[c] \in Tabs
      BY CsrfBounds
    <3> QED BY <1>1, <2>2, <3>1 DEF K!SignOut, K!Forgotten, K!None
  <2>3. ASSUME NEW t \in Tabs, K!Lapse(t)
        PROVE  /\ UNCHANGED <<session, cookie, mintedFor, request, forgotten, fetching, unsafe, upset>>
               /\ held' \in [Tabs -> 0..MaxTokens]
    BY <1>1, <2>3 DEF K!Lapse, K!None
  <2> QED BY <1>1, <2>1, <2>2, <2>3
<1>4. ASSUME NEW d \in UnsafeCalls
      PROVE  unsafe'[d] \in UnsafeStates /\ (unsafe'[d] = unsafe[d] \/ unsafe'[d] = K!Calm)
  BY <1>1, <1>2, <1>3
<1>5. unsafe' \in [UnsafeCalls -> UnsafeStates]
  BY <1>1, <1>2, <1>3
<1>6. ASSUME NEW d \in UnsafeCalls PROVE Renews(d)'
  BY <1>1, <1>2, <1>3, <1>4 DEF Renews, K!Accepted
<1>7. CsrfTyped'
  <2>1. K!TypeOK'
    BY <1>3 DEF CsrfInv, CsrfTyped, K!TypeOK
  <2>2. \A d \in UnsafeCalls : unsafe'[d].waits # 0 => unsafe'[d].pc = "waiting"
    BY <1>2, <1>4 DEF CsrfInv, CsrfTyped
  <2>3. fetching' = fetching
    BY <1>3
  <2> QED BY <1>5, <2>1, <2>2, <2>3 DEF CsrfInv, CsrfTyped
<1> QED BY <1>6, <1>7 DEF CsrfInv

\* One renewal of the CSRF token is enough: a call is rejected for good only
\* when another tab's token, a late one or a change of session came between
\* its renewal and its check, however many tabs and calls there are.
THEOREM CsrfHolds ==
  ASSUME K!CsrfConstants
  PROVE  K!Spec => [](K!TypeOK /\ K!RejectedOnlyWhenUpset)
<1>1. K!Init => CsrfInv
  BY CsrfStart
<1>2. CsrfInv /\ [K!Next]_(K!csrfVars) => CsrfInv'
  <2>1. SUFFICES ASSUME CsrfInv, [K!Next]_(K!csrfVars) PROVE CsrfInv'
    OBVIOUS
  <2>2. ASSUME NEW c \in UnsafeCalls, K!Begin(c) \/ K!Check(c) \/ K!Retry(c) \/ K!Settle(c) \/ K!LeaveToSignIn(c)
        PROVE  CsrfInv'
    BY <2>1, <2>2, CallSteps
  <2>3. ASSUME NEW r \in K!Tokens, K!Serve(r) \/ K!Obtain(r) \/ K!NoToken(r) PROVE CsrfInv'
    BY <2>1, <2>3, TokenSteps
  <2>4. ASSUME K!SignIn \/ (\E c \in UnsafeCalls : K!SignOut(c)) \/ \E t \in Tabs : K!Lapse(t) PROVE CsrfInv'
    BY <2>1, <2>4, SessionSteps
  <2>5. CASE UNCHANGED K!csrfVars
    BY <2>1, <2>5 DEF K!csrfVars, CsrfInv, CsrfTyped, K!TypeOK, Renews, K!Accepted
  <2> QED BY <2>1, <2>2, <2>3, <2>4, <2>5 DEF K!Next
<1>3. CsrfInv => K!TypeOK /\ K!RejectedOnlyWhenUpset
  BY DEF CsrfInv, CsrfTyped, Renews, K!RejectedOnlyWhenUpset
<1> QED BY <1>1, <1>2, <1>3, PTL DEF K!Spec

-----------------------------------------------------------------------------
(* The browser session. *)

CookieCalls ==
  [pc : {"idle", "queued", "sent", "resolving", "upstream", "refreshing", "again", "answered"},
   logout : BOOLEAN, cookie : 0..MaxToken, at : Servers \cup {0}, token : 0..MaxToken, rotated : BOOLEAN,
   set : 0..MaxToken + 1, status : {"none", "ok", "401", "503"}]
Refreshes == [state : {"idle", "running", "kept"}, value : 0..MaxToken]
SessionTyped ==
  /\ jar \in 0..MaxToken /\ known \in [Tabs -> 0..MaxToken]
  /\ lock \subseteq Calls /\ call \in [Calls -> CookieCalls]
  /\ flight \in [Servers -> [S!Tokens -> Refreshes]] /\ explicit \in [Servers -> [S!Tokens -> Refreshes]]
  /\ minted \in S!Tokens /\ age \in [S!Tokens -> {"fresh", "near", "out"}]
  /\ spent \in [S!Tokens -> 0..2] /\ excused \subseteq S!Tokens /\ signedOut \in BOOLEAN

\* What a call with record r may bring: no cookie but one minted after its own,
\* whose token no clock has touched; and a sign-out takes the cookie away.
Going(r) == r.pc \notin {"idle", "queued"}
Newer(r, m, top, a) == m \notin {0, MaxToken + 1} => m > r.cookie /\ m <= top /\ a[m] = "fresh"
Carries(r, top, a) ==
  /\ r.pc \notin {"idle", "queued", "sent"} => r.at \in Servers
  /\ r.pc \in {"upstream", "refreshing", "again"} => ~r.logout
  /\ r.pc \notin {"upstream", "again", "answered"} => ~r.rotated
  /\ Going(r) => r.cookie <= top
  /\ Going(r) /\ r.cookie = 0 => r.pc = "sent" \/ (r.pc = "answered" /\ r.set \in {0, MaxToken + 1})
  /\ r.rotated /\ r.pc # "answered" => r.token # 0 /\ Newer(r, r.token, top, a)
  /\ r.pc = "answered" => /\ r.rotated => r.set # MaxToken + 1
                          /\ Newer(r, r.set, top, a)
                          /\ r.logout /\ r.status = "ok" => r.set = 0

Sessions == jar <= minted /\ \A n \in S!Tokens : n > minted => age[n] = "fresh" /\ spent[n] = 0
OneHolds == \A c, d \in lock : c = d /\ Going(call[c])
\* A refresh under way has a call waiting for it; a session kept for a cookie
\* is newer, and once its token ages no call and no jar holds the cookie it is for.
Brought(n) == \E c \in Calls : Going(call[c]) /\ call[c].cookie = n /\ call[c].rotated
Waited(s, n) ==
  /\ flight[s][n].state = "running" => S!Joined(s, n, "resolving") # {}
  /\ flight[s][n].state = "kept" =>
       /\ flight[s][n].value > n /\ flight[s][n].value <= minted /\ age[n] # "fresh"
       /\ \/ age[flight[s][n].value] = "fresh"
          \/ jar # n /\ \A c \in Calls : Going(call[c]) => call[c].cookie # n
       /\ jar = n => Brought(n)
\* A cookie spent under the lock is spent once: the call that holds the lock
\* has left the jar's cookie behind, or is bringing the one that replaces it.
SpentOnce(n) ==
  spent[n] > 0 /\ n \notin excused =>
    /\ spent[n] = 1 /\ age[n] # "fresh"
    /\ \A c \in lock : call[c].cookie = n => call[c].pc \notin {"sent", "resolving"}
    /\ jar = n => \E c \in lock : call[c].cookie = n /\ call[c].rotated
Ended == signedOut => jar = 0 /\ \A c \in Calls : Going(call[c]) => call[c].cookie = 0
SessionInv ==
  /\ SessionTyped /\ Sessions /\ OneHolds /\ Ended
  /\ \A c \in Calls : Carries(call[c], minted, age)
  /\ \A s \in Servers, n \in S!Tokens : Waited(s, n)
  /\ \A n \in S!Tokens : SpentOnce(n)

LEMMA SessionBounds ==
  ASSUME S!SessionConstants
  PROVE  /\ MaxToken \in Nat \ {0} /\ S!Tokens = 1..MaxToken /\ S!None = 0 /\ S!Keep = MaxToken + 1
         /\ TabOf \in [Calls -> Tabs]
         /\ \A n \in S!Tokens : n \in Nat /\ n # 0 /\ n \in 0..MaxToken /\ n \in 0..MaxToken + 1 /\ n # MaxToken + 1
         /\ \A n \in 0..MaxToken : n # 0 => n \in S!Tokens
BY DEF S!SessionConstants, S!Tokens, S!None, S!Keep

LEMMA SessionStart == ASSUME S!SessionConstants, S!Init PROVE SessionInv
<1>1. /\ S!Rest \in CookieCalls /\ S!Rest.pc = "idle" /\ ~S!Rest.rotated
  BY SessionBounds DEF S!Rest, S!None, CookieCalls
<1>2. S!Idle \in Refreshes /\ S!Idle.state = "idle"
  BY SessionBounds DEF S!Idle, S!None, Refreshes
<1>3. SessionTyped
  <2>1. known \in [Tabs -> 0..MaxToken] /\ jar \in 0..MaxToken /\ lock \subseteq Calls
    BY SessionBounds DEF S!Init
  <2>2. call \in [Calls -> CookieCalls]
    BY <1>1 DEF S!Init
  <2>3. flight \in [Servers -> [S!Tokens -> Refreshes]] /\ explicit \in [Servers -> [S!Tokens -> Refreshes]]
    <3>1. [n \in S!Tokens |-> S!Idle] \in [S!Tokens -> Refreshes]
      BY <1>2
    <3> QED BY <3>1 DEF S!Init
  <2>4. minted \in S!Tokens /\ age \in [S!Tokens -> {"fresh", "near", "out"}] /\ excused \subseteq S!Tokens
        /\ signedOut \in BOOLEAN
    <3>1. 1 \in S!Tokens
      BY SessionBounds
    <3> QED BY <3>1 DEF S!Init
  <2>5. spent \in [S!Tokens -> 0..2]
    BY DEF S!Init
  <2> QED BY <2>1, <2>2, <2>3, <2>4, <2>5 DEF SessionTyped
<1>4. \A c \in Calls : call[c] = S!Rest
  BY DEF S!Init
<1>5. \A c \in Calls : Carries(call[c], minted, age)
  BY <1>1, <1>4 DEF Carries, Going
<1>6. \A s \in Servers, n \in S!Tokens : Waited(s, n)
  BY <1>2 DEF S!Init, Waited
<1>7. \A n \in S!Tokens : SpentOnce(n)
  BY DEF S!Init, SpentOnce
<1>8. Sessions /\ OneHolds /\ Ended
  BY SessionBounds DEF S!Init, Sessions, OneHolds, Ended
<1> QED BY <1>3, <1>5, <1>6, <1>7, <1>8 DEF SessionInv

-----------------------------------------------------------------------------
(* What the BFF does to a call. *)

\* A call the BFF works on keeps its cookie and what it brings, and goes on.
Onward(r, q) ==
  \/ q = r
  \/ /\ Going(r) /\ Going(q) /\ q.cookie = r.cookie /\ (r.rotated => q.rotated)
     /\ q.pc # "sent" /\ (q.pc = "resolving" => r.pc = "sent")

\* What becomes of a call the BFF answers or sends on.
Resolved(r, q, top, a) ==
  /\ q \in CookieCalls /\ Carries(q, top, a) /\ Onward(r, q)
  /\ q.pc \notin {"sent", "resolving"} /\ Going(q) /\ q.cookie = r.cookie

\* A session resolved to token m, by a refresh or without one.
RotatedTo(r, m) == S!Authenticated(r, m, TRUE)
FreshAt(r, m) == S!Authenticated(r, m, FALSE)

LEMMA AuthenticatedIs ==
  ASSUME S!SessionConstants, NEW r \in CookieCalls, NEW m \in S!Tokens, NEW top, NEW a,
         r.pc \in {"sent", "resolving"}, r.cookie # 0, r.at \in Servers, Carries(r, top, a)
  PROVE  /\ Resolved(r, FreshAt(r, m), top, a)
         /\ Newer(r, m, top, a) => /\ Resolved(r, RotatedTo(r, m), top, a)
                                   /\ RotatedTo(r, m).rotated
<1>0. ASSUME NEW p \in CookieCalls, p.pc = r.pc, p.cookie = r.cookie, p.logout = r.logout, p.at = r.at,
             p.token # 0, p.rotated => Newer(r, p.token, top, a), NEW q,
             q = IF p.logout THEN [S!Answered(p, S!SessionHeaders(p, S!None), "ok") EXCEPT !.token = S!None]
                 ELSE [p EXCEPT !.pc = "upstream"]
      PROVE  Resolved(r, q, top, a) /\ q.rotated = p.rotated
  <2>1. ~r.rotated
    BY <1>0 DEF Carries
  <2>2. CASE p.logout
    <3>1. S!SessionHeaders(p, 0) = 0
      BY SessionBounds DEF S!SessionHeaders
    <3>2. PICK o : o = S!Answered(p, 0, "ok")
      OBVIOUS
    <3>3. /\ o \in CookieCalls /\ o.pc = "answered" /\ o.set = 0
          /\ o.cookie = p.cookie /\ o.rotated = p.rotated /\ o.logout = p.logout /\ o.at = p.at
      <4>1. o = [p EXCEPT !.pc = "answered", !.set = 0, !.status = "ok"]
        BY <3>2 DEF S!Answered
      <4>2. o = [pc |-> "answered", logout |-> p.logout, cookie |-> p.cookie, at |-> p.at, token |-> p.token,
                 rotated |-> p.rotated, set |-> 0, status |-> "ok"]
        BY <1>0, <4>1 DEF CookieCalls
      <4>3. 0 \in 0..MaxToken + 1
        BY SessionBounds
      <4> QED BY <1>0, <4>2, <4>3 DEF CookieCalls
    <3>4. q = [o EXCEPT !.token = 0]
      BY <1>0, <2>2, <3>1, <3>2, SessionBounds
    <3>5. /\ q \in CookieCalls /\ q.pc = "answered" /\ q.set = 0
          /\ q.cookie = r.cookie /\ q.rotated = p.rotated /\ q.logout = r.logout /\ q.at = r.at
      BY <1>0, <3>3, <3>4, SessionBounds DEF CookieCalls
    <3> QED BY <1>0, <2>1, <3>5, SessionBounds DEF Resolved, Carries, Onward, Going, Newer
  <2>3. CASE ~p.logout
    <3>1. q = [p EXCEPT !.pc = "upstream"]
      BY <1>0, <2>3
    <3>2. /\ q \in CookieCalls /\ q.pc = "upstream" /\ q.cookie = r.cookie /\ q.rotated = p.rotated
          /\ q.logout = r.logout /\ q.token = p.token /\ q.at = r.at
      BY <1>0, <3>1 DEF CookieCalls
    <3> QED BY <1>0, <2>1, <2>3, <3>2, SessionBounds DEF Resolved, Carries, Onward, Going, Newer
  <2> QED BY <2>2, <2>3
<1>1. ASSUME NEW q, q = RotatedTo(r, m), Newer(r, m, top, a)
      PROVE  Resolved(r, q, top, a) /\ q.rotated
  <2> DEFINE p == [r EXCEPT !.token = m, !.rotated = TRUE]
  <2>1. q = IF p.logout THEN [S!Answered(p, S!SessionHeaders(p, S!None), "ok") EXCEPT !.token = S!None]
            ELSE [p EXCEPT !.pc = "upstream"]
    BY <1>1, Zenon DEF RotatedTo, S!Authenticated
  <2>2. /\ p \in CookieCalls /\ p.pc = r.pc /\ p.cookie = r.cookie /\ p.logout = r.logout /\ p.at = r.at
        /\ p.token = m /\ p.rotated
    BY SessionBounds DEF CookieCalls
  <2>3. m # 0
    BY SessionBounds
  <2>4. p.rotated => Newer(r, p.token, top, a)
    BY <1>1, <2>2
  <2> HIDE DEF p
  <2> QED BY <1>0, <2>1, <2>2, <2>3, <2>4
<1>2. ASSUME NEW q, q = FreshAt(r, m) PROVE Resolved(r, q, top, a)
  <2> DEFINE p == [r EXCEPT !.token = m, !.rotated = FALSE]
  <2>1. q = IF p.logout THEN [S!Answered(p, S!SessionHeaders(p, S!None), "ok") EXCEPT !.token = S!None]
            ELSE [p EXCEPT !.pc = "upstream"]
    BY <1>2, Zenon DEF FreshAt, S!Authenticated
  <2>2. /\ p \in CookieCalls /\ p.pc = r.pc /\ p.cookie = r.cookie /\ p.logout = r.logout /\ p.at = r.at
        /\ p.token = m /\ ~p.rotated
    BY SessionBounds DEF CookieCalls
  <2>3. m # 0
    BY SessionBounds
  <2> HIDE DEF p
  <2> QED BY <1>0, <2>1, <2>2, <2>3
<1> QED BY <1>1, <1>2

LEMMA ClosedIs ==
  ASSUME S!SessionConstants, NEW r \in CookieCalls, NEW top, NEW a, Carries(r, top, a), Going(r), r.at \in Servers, NEW q,
         \/ q = S!Unauthenticated(r) /\ ~r.rotated
         \/ q = S!Answered(r, 0, "401")
         \/ q = S!Transient(r) /\ ~r.rotated /\ r.cookie # 0
         \/ (\E status \in {"ok", "401"} : q = S!Answered(r, S!SessionHeaders(r, S!Keep), status))
            /\ r.pc \in {"upstream", "again"}
  PROVE  /\ q \in CookieCalls /\ Carries(q, top, a) /\ Onward(r, q)
         /\ q.pc \notin {"sent", "resolving"} /\ Going(q) /\ q.cookie = r.cookie /\ (r.rotated => q.rotated)
<1>1. ASSUME NEW set \in 0..MaxToken + 1, NEW status \in {"none", "ok", "401", "503"}, q = S!Answered(r, set, status),
             set \in {0, MaxToken + 1} \/ r.cookie # 0, Newer(r, set, top, a), r.rotated => set # MaxToken + 1,
             r.logout /\ status = "ok" => set = 0
      PROVE  /\ q \in CookieCalls /\ Carries(q, top, a) /\ Onward(r, q)
             /\ q.pc \notin {"sent", "resolving"} /\ Going(q) /\ q.cookie = r.cookie /\ (r.rotated => q.rotated)
  <2>1. /\ q \in CookieCalls /\ q.pc = "answered" /\ q.set = set /\ q.status = status
        /\ q.cookie = r.cookie /\ q.rotated = r.rotated /\ q.logout = r.logout /\ q.at = r.at
    BY <1>1, SessionBounds DEF S!Answered, CookieCalls
  <2> QED BY <1>1, <2>1 DEF Carries, Onward, Going, Newer
<1>2. Newer(r, 0, top, a) /\ Newer(r, MaxToken + 1, top, a) /\ 0 # MaxToken + 1 /\ 0 \in 0..MaxToken + 1
      /\ MaxToken + 1 \in 0..MaxToken + 1
  BY SessionBounds DEF Newer
<1>3. CASE (q = S!Unauthenticated(r) /\ ~r.rotated) \/ q = S!Answered(r, 0, "401")
  <2>1. \/ q = S!Answered(r, 0, "ok") \/ q = S!Answered(r, 0, "401")
        \/ q = S!Answered(r, MaxToken + 1, "401") /\ ~r.rotated
    BY <1>3, SessionBounds DEF S!Unauthenticated
  <2> QED BY <1>1, <1>2, <2>1
<1>4. CASE q = S!Transient(r) /\ ~r.rotated /\ r.cookie # 0
  <2>1. q = S!Answered(r, MaxToken + 1, "503")
    BY <1>4, SessionBounds DEF S!Transient
  <2> QED BY <1>1, <1>2, <1>4, <2>1
<1>5. CASE (\E status \in {"ok", "401"} : q = S!Answered(r, S!SessionHeaders(r, S!Keep), status))
           /\ r.pc \in {"upstream", "again"}
  <2>1. PICK set : set = IF r.rotated THEN r.token ELSE MaxToken + 1
    OBVIOUS
  <2>2. S!SessionHeaders(r, S!Keep) = set
    BY <2>1, SessionBounds DEF S!SessionHeaders
  <2>3. r.cookie # 0 /\ ~r.logout /\ (r.rotated => r.token # 0 /\ Newer(r, r.token, top, a))
    BY <1>5 DEF Carries, Going
  <2>4. r.token \in 0..MaxToken /\ r.rotated \in BOOLEAN
    BY DEF CookieCalls
  <2>5. set \in 0..MaxToken + 1 /\ (r.rotated => set # MaxToken + 1) /\ Newer(r, set, top, a)
    BY <2>1, <2>3, <2>4, <1>2, SessionBounds
  <2> QED BY <1>1, <1>5, <2>2, <2>3, <2>5
<1> QED BY <1>3, <1>4, <1>5

LEMMA StillCarries ==
  ASSUME NEW r \in CookieCalls, NEW top \in Nat, NEW top2 \in Nat, top <= top2, NEW a, Carries(r, top, a),
         MaxToken \in Nat
  PROVE  Carries(r, top2, a)
<1>1. r.cookie \in Nat /\ (r.token # 0 => r.token \in Nat) /\ r.set \in Nat
  BY DEF CookieCalls
<1> QED BY <1>1 DEF Carries, Newer

\* A step that leaves the browser and the clocks alone and takes every call
\* onward keeps the invariant but for what it says of the cookies it spends.
LEMMA WorkKeeps ==
  ASSUME S!SessionConstants, SessionInv, jar' = jar, lock' = lock, signedOut' = signedOut, age' = age,
         minted' \in S!Tokens, minted <= minted', excused \subseteq excused',
         call' \in [Calls -> CookieCalls],
         \A c \in Calls : Onward(call[c], call'[c]) /\ Carries(call'[c], minted', age)
  PROVE  /\ OneHolds' /\ Ended' /\ jar' <= minted'
         /\ \A c \in Calls : Carries(call'[c], minted', age')
         /\ \A n \in S!Tokens : Brought(n) => Brought(n)'
         /\ \A n \in S!Tokens : spent'[n] = spent[n] => SpentOnce(n)'
         /\ \A s \in Servers, n \in S!Tokens :
              /\ flight'[s][n] = flight[s][n]
              /\ \A c \in S!Joined(s, n, "resolving") : call'[c] = call[c]
              => Waited(s, n)'
<1>1. \A c \in Calls : /\ Going(call[c]) <=> Going(call'[c])
                       /\ Going(call[c]) => call'[c].cookie = call[c].cookie
                       /\ call[c].rotated => call'[c].rotated
  BY DEF Onward
<1>2. OneHolds'
  BY <1>1 DEF SessionInv, OneHolds, SessionTyped
<1>3. Ended'
  BY <1>1 DEF SessionInv, Ended
<1>4. \A n \in S!Tokens : Brought(n) => Brought(n)'
  BY <1>1 DEF Brought
<1>5. ASSUME NEW n \in S!Tokens, spent'[n] = spent[n] PROVE SpentOnce(n)'
  <2>1. SUFFICES ASSUME spent[n] > 0, n \notin excused
        PROVE  /\ spent[n] = 1 /\ age[n] # "fresh"
               /\ \A c \in lock : call'[c].cookie = n => call'[c].pc \notin {"sent", "resolving"}
               /\ jar = n => \E c \in lock : call'[c].cookie = n /\ call'[c].rotated
    BY <1>5 DEF SpentOnce
  <2>2. /\ spent[n] = 1 /\ age[n] # "fresh"
        /\ \A c \in lock : call[c].cookie = n => call[c].pc \notin {"sent", "resolving"}
        /\ jar = n => \E c \in lock : call[c].cookie = n /\ call[c].rotated
    BY <2>1 DEF SessionInv, SpentOnce
  <2>3. \A c \in lock : c \in Calls /\ Going(call[c])
    BY DEF SessionInv, SessionTyped, OneHolds
  <2>4. ASSUME NEW c \in lock, call'[c].cookie = n PROVE call'[c].pc \notin {"sent", "resolving"}
    BY <1>1, <2>2, <2>3, <2>4 DEF Onward
  <2> QED BY <1>1, <2>2, <2>3, <2>4
<1>6. ASSUME NEW s \in Servers, NEW n \in S!Tokens, flight'[s][n] = flight[s][n],
             \A c \in S!Joined(s, n, "resolving") : call'[c] = call[c]
      PROVE  Waited(s, n)'
  <2>1. Waited(s, n)
    BY DEF SessionInv
  <2>2. S!Joined(s, n, "resolving") # {} => S!Joined(s, n, "resolving")' # {}
    BY <1>6 DEF S!Joined
  <2>3. (jar # n /\ \A c \in Calls : Going(call[c]) => call[c].cookie # n)
        => (jar' # n /\ \A c \in Calls : Going(call'[c]) => call'[c].cookie # n)
    BY <1>1
  <2>4. minted \in Nat /\ minted' \in Nat /\ \A m \in 0..MaxToken : m \in Nat
    BY SessionBounds DEF SessionInv, SessionTyped
  <2>5. flight[s][n].value \in Nat
    BY <2>4 DEF SessionInv, SessionTyped, Refreshes
  <2> QED BY <1>4, <1>6, <2>1, <2>2, <2>3, <2>4, <2>5 DEF Waited
<1>7. jar' <= minted'
  BY SessionBounds DEF SessionInv, SessionTyped, Sessions
<1> QED BY <1>2, <1>3, <1>4, <1>5, <1>6, <1>7

LEMMA CallsOf ==
  ASSUME S!SessionConstants, SessionInv, NEW c \in Calls
  PROVE  /\ call[c] \in CookieCalls /\ Carries(call[c], minted, age) /\ call[c].cookie \in 0..MaxToken
         /\ call[c].at \in Servers \cup {0} /\ call[c].rotated \in BOOLEAN /\ call[c].token \in 0..MaxToken
         /\ call[c].cookie # 0 => call[c].cookie \in S!Tokens
BY SessionBounds DEF SessionInv, SessionTyped, CookieCalls

\* One call moves on that waited for no resolution.
LEMMA OneWorks ==
  ASSUME S!SessionConstants, SessionInv, NEW c \in Calls, NEW q \in CookieCalls, call' = [call EXCEPT ![c] = q],
         Carries(q, minted, age), Onward(call[c], q), call[c].pc # "resolving",
         UNCHANGED <<jar, known, lock, minted, age, spent, excused, signedOut>>,
         flight' \in [Servers -> [S!Tokens -> Refreshes]], explicit' \in [Servers -> [S!Tokens -> Refreshes]],
         \A s \in Servers, n \in S!Tokens : flight'[s][n] = flight[s][n] \/ Waited(s, n)'
  PROVE  SessionInv'
<1>1. SessionTyped
  BY DEF SessionInv
<1>2. call' \in [Calls -> CookieCalls] /\ \A d \in Calls : call'[d] = IF d = c THEN q ELSE call[d]
  BY <1>1 DEF SessionTyped
<1>3. \A d \in Calls : Onward(call[d], call'[d]) /\ Carries(call'[d], minted', age)
  <2>1. \A d \in Calls : Onward(call[d], call[d]) /\ Carries(call[d], minted, age)
    BY DEF SessionInv, Onward
  <2> QED BY <1>2, <2>1
<1>4. /\ SessionTyped' /\ minted <= minted'
  BY <1>1, <1>2, SessionBounds DEF SessionTyped
<1>5. /\ OneHolds' /\ Ended' /\ \A d \in Calls : Carries(call'[d], minted', age')
      /\ \A n \in S!Tokens : SpentOnce(n)'
      /\ \A s \in Servers, n \in S!Tokens :
           flight'[s][n] = flight[s][n] /\ (\A d \in S!Joined(s, n, "resolving") : call'[d] = call[d]) => Waited(s, n)'
  BY <1>2, <1>3, <1>4, WorkKeeps DEF SessionTyped
<1>6. \A s \in Servers, n \in S!Tokens : \A d \in S!Joined(s, n, "resolving") : call'[d] = call[d]
  BY <1>2 DEF S!Joined
<1>7. Sessions'
  BY DEF SessionInv, Sessions
<1> QED BY <1>4, <1>5, <1>6, <1>7 DEF SessionInv

LEMMA ForwardedKeeps ==
  ASSUME S!SessionConstants, SessionInv, NEW c \in Calls, S!Forwarded(c)
  PROVE  SessionInv'
<1>1. /\ call[c].pc \in {"upstream", "again"}
      /\ call' = [call EXCEPT ![c] = S!Answered(@, S!SessionHeaders(@, S!Keep), "ok")]
      /\ UNCHANGED <<jar, known, lock, flight, explicit, minted, age, spent, excused, signedOut>>
  BY DEF S!Forwarded, S!browser, S!bff, S!provider, S!ghosts
<1>2. PICK q : q = S!Answered(call[c], S!SessionHeaders(call[c], S!Keep), "ok")
  OBVIOUS
<1>3. /\ call \in [Calls -> CookieCalls]
      /\ flight \in [Servers -> [S!Tokens -> Refreshes]] /\ explicit \in [Servers -> [S!Tokens -> Refreshes]]
  BY DEF SessionInv, SessionTyped
<1>4. call' = [call EXCEPT ![c] = q]
  BY <1>1, <1>2, <1>3
<1>5. /\ q \in CookieCalls /\ Carries(q, minted, age) /\ Onward(call[c], q)
  <2>1. Going(call[c])
    BY <1>1 DEF Going
  <2>2. PICK r : r = call[c]
    OBVIOUS
  <2>3. r \in CookieCalls /\ Carries(r, minted, age) /\ Going(r) /\ r.pc \in {"upstream", "again"}
    BY <1>1, <2>1, <2>2, CallsOf
  <2>4. r.at \in Servers
    BY <2>3 DEF Carries
  <2>5. \E status \in {"ok", "401"} : q = S!Answered(r, S!SessionHeaders(r, S!Keep), status)
    BY <1>2, <2>2
  <2> QED BY <2>2, <2>3, <2>4, <2>5, ClosedIs
<1> QED BY <1>1, <1>3, <1>4, <1>5, OneWorks

LEMMA SignOutRefusedKeeps ==
  ASSUME S!SessionConstants, SessionInv, NEW c \in Calls, S!SignOutRefused(c)
  PROVE  SessionInv'
<1>1. /\ call[c].pc = "upstream"
      /\ call' = [call EXCEPT ![c] = [S!Answered(@, S!SessionHeaders(@, S!Keep), "ok") EXCEPT !.token = S!None]]
      /\ UNCHANGED <<jar, known, lock, flight, explicit, minted, age, spent, excused, signedOut>>
  BY DEF S!SignOutRefused, S!browser, S!bff, S!provider, S!ghosts
<1>2. PICK r, o, q : r = call[c] /\ o = S!Answered(r, S!SessionHeaders(r, S!Keep), "ok") /\ q = [o EXCEPT !.token = 0]
  OBVIOUS
<1>3. /\ call \in [Calls -> CookieCalls]
      /\ flight \in [Servers -> [S!Tokens -> Refreshes]] /\ explicit \in [Servers -> [S!Tokens -> Refreshes]]
  BY DEF SessionInv, SessionTyped
<1>4. call' = [call EXCEPT ![c] = q]
  BY <1>1, <1>2, <1>3, SessionBounds
<1>5. r \in CookieCalls /\ Carries(r, minted, age) /\ Going(r) /\ r.pc = "upstream" /\ r.at \in Servers
  BY <1>1, <1>2, CallsOf DEF Going, Carries
<1>6. o \in CookieCalls /\ Carries(o, minted, age) /\ Onward(r, o)
  <2>1. \E status \in {"ok", "401"} : o = S!Answered(r, S!SessionHeaders(r, S!Keep), status)
    BY <1>2
  <2> QED BY <1>5, <2>1, ClosedIs
<1>7. o.pc = "answered"
  BY <1>2, <1>5 DEF S!Answered, CookieCalls
<1>8. /\ q \in CookieCalls /\ q.pc = o.pc /\ q.cookie = o.cookie /\ q.rotated = o.rotated /\ q.set = o.set
      /\ q.logout = o.logout /\ q.status = o.status /\ q.at = o.at
  BY <1>2, <1>6, SessionBounds DEF CookieCalls
<1>9. Carries(q, minted, age) /\ Onward(r, q)
  BY <1>5, <1>6, <1>7, <1>8 DEF Carries, Onward, Going, Newer
<1> QED BY <1>1, <1>2, <1>3, <1>4, <1>8, <1>9, OneWorks

LEMMA RefusedKeeps ==
  ASSUME S!SessionConstants, SessionInv, NEW c \in Calls, S!Refused(c)
  PROVE  SessionInv'
<1>1. /\ call[c].pc \in {"upstream", "again"}
      /\ UNCHANGED <<jar, known, lock, flight, minted, age, spent, excused, signedOut>>
  BY DEF S!Refused, S!browser, S!provider, S!ghosts
<1>2. /\ call \in [Calls -> CookieCalls] /\ call[c] \in CookieCalls /\ Carries(call[c], minted, age) /\ Going(call[c])
      /\ flight \in [Servers -> [S!Tokens -> Refreshes]] /\ explicit \in [Servers -> [S!Tokens -> Refreshes]]
  BY <1>1, CallsOf DEF SessionInv, SessionTyped, Going
<1>3. ASSUME NEW q, call' = [call EXCEPT ![c] = q], explicit' \in [Servers -> [S!Tokens -> Refreshes]],
             q \in CookieCalls, Carries(q, minted, age), Onward(call[c], q)
      PROVE  SessionInv'
  BY <1>1, <1>2, <1>3, OneWorks
<1>4. CASE call[c].pc = "again" \/ call[c].rotated
  <2>1. PICK q : /\ call' = [call EXCEPT ![c] = q]
                 /\ \/ q = S!Answered(call[c], S!SessionHeaders(call[c], S!Keep), "401")
                    \/ q = S!Answered(call[c], 0, "401")
    BY <1>2, <1>4, SessionBounds DEF S!Refused
  <2>2. explicit' = explicit
    BY <1>4 DEF S!Refused
  <2>3. q \in CookieCalls /\ Carries(q, minted, age) /\ Onward(call[c], q)
    BY <1>1, <1>2, <2>1, ClosedIs DEF Carries
  <2> QED BY <1>2, <1>3, <2>1, <2>2, <2>3
<1>5. CASE call[c].pc # "again" /\ ~call[c].rotated
  <2> DEFINE f == explicit[call[c].at][call[c].cookie]
  <2>1. /\ call' = [call EXCEPT ![c] = IF f.state = "kept" THEN [@ EXCEPT !.pc = "again", !.token = f.value]
                                       ELSE [@ EXCEPT !.pc = "refreshing"]]
        /\ explicit' = IF f.state # "idle" THEN explicit
                       ELSE [explicit EXCEPT ![call[c].at][call[c].cookie] = [state |-> "running", value |-> 0]]
    BY <1>5, SessionBounds DEF S!Refused
  <2>2. explicit' \in [Servers -> [S!Tokens -> Refreshes]]
    <3>1. [state |-> "running", value |-> 0] \in Refreshes
      BY SessionBounds DEF Refreshes
    <3> QED BY <1>2, <2>1, <3>1
  <2>3. PICK q : /\ call' = [call EXCEPT ![c] = q]
                 /\ \/ f.state = "kept" /\ q = [call[c] EXCEPT !.pc = "again", !.token = f.value]
                    \/ q = [call[c] EXCEPT !.pc = "refreshing"]
    BY <1>2, <2>1
  <2>4. f.state = "kept" => f.value \in 0..MaxToken
    <3>1. call[c].at \in Servers /\ call[c].cookie \in S!Tokens
      BY <1>1, <1>2, CallsOf DEF Carries, Going
    <3>2. f \in Refreshes
      BY <1>2, <3>1
    <3> QED BY <3>2 DEF Refreshes
  <2> HIDE DEF f
  <2>5. /\ q \in CookieCalls /\ q.pc \in {"again", "refreshing"} /\ q.cookie = call[c].cookie
        /\ q.rotated = call[c].rotated /\ q.logout = call[c].logout /\ q.at = call[c].at
    BY <1>2, <2>3, <2>4 DEF CookieCalls
  <2>6. Carries(q, minted, age) /\ Onward(call[c], q)
    BY <1>1, <1>2, <1>5, <2>5 DEF Carries, Onward, Going
  <2> QED BY <1>3, <2>2, <2>3, <2>5, <2>6
<1> QED BY <1>4, <1>5

LEMMA ArriveKeeps ==
  ASSUME S!SessionConstants, SessionInv, NEW c \in Calls, NEW s \in Servers, S!Arrive(c, s)
  PROVE  SessionInv'
<1> DEFINE r == [call[c] EXCEPT !.at = s]
<1>2. PICK n : n = call[c].cookie
  OBVIOUS
<1>3. /\ call[c] \in CookieCalls /\ Carries(call[c], minted, age) /\ n \in 0..MaxToken /\ (n # 0 => n \in S!Tokens)
      /\ call \in [Calls -> CookieCalls]
      /\ flight \in [Servers -> [S!Tokens -> Refreshes]] /\ explicit \in [Servers -> [S!Tokens -> Refreshes]]
  BY <1>2, CallsOf DEF SessionInv, SessionTyped
<1>4. /\ call[c].pc = "sent"
      /\ UNCHANGED <<jar, known, lock, explicit, minted, age, spent, excused, signedOut>>
  BY DEF S!Arrive, S!browser, S!provider, S!ghosts
<1>5. /\ r \in CookieCalls /\ r.pc = "sent" /\ r.cookie = n /\ r.at = s /\ r.rotated = call[c].rotated
      /\ r.logout = call[c].logout
  BY <1>2, <1>3, <1>4 DEF CookieCalls
<1>6. Carries(r, minted, age) /\ Going(call[c]) /\ ~call[c].rotated /\ Going(r)
  BY <1>2, <1>3, <1>4, <1>5 DEF Carries, Going
<1>7. /\ call' = [call EXCEPT ![c] =
           IF n = 0 THEN S!Unauthenticated(r)
           ELSE IF flight[s][n].state = "kept" THEN RotatedTo(r, flight[s][n].value)
           ELSE [r EXCEPT !.pc = "resolving"]]
      /\ flight' = IF n # 0 /\ flight[s][n].state = "idle"
                   THEN [flight EXCEPT ![s][n].state = "running"] ELSE flight
  <2>1. r.cookie = n /\ S!None = 0
    BY <1>5, SessionBounds
  <2>2. /\ call' = [call EXCEPT ![c] =
             IF r.cookie = S!None THEN S!Unauthenticated(r)
             ELSE IF flight[s][r.cookie].state = "kept" THEN RotatedTo(r, flight[s][r.cookie].value)
             ELSE [r EXCEPT !.pc = "resolving"]]
        /\ flight' = IF r.cookie # S!None /\ flight[s][r.cookie].state = "idle"
                     THEN [flight EXCEPT ![s][r.cookie].state = "running"] ELSE flight
    BY Zenon DEF S!Arrive, RotatedTo
  <2> HIDE DEF r
  <2> QED BY <2>1, <2>2, Zenon
<1> HIDE DEF r
<1>8. ASSUME NEW q \in CookieCalls, call' = [call EXCEPT ![c] = q], Carries(q, minted, age), Going(q),
             q.cookie = n, q.pc # "sent", flight' \in [Servers -> [S!Tokens -> Refreshes]],
             \A s2 \in Servers, m \in S!Tokens : flight'[s2][m] = flight[s2][m] \/ Waited(s2, m)'
      PROVE  SessionInv'
  <2>1. Onward(call[c], q)
    BY <1>2, <1>4, <1>6, <1>8 DEF Onward
  <2> QED BY <1>3, <1>4, <1>8, <2>1, OneWorks
<1>9. CASE n = 0
  <2>1. PICK q : q = S!Unauthenticated(r)
    OBVIOUS
  <2>2. q \in CookieCalls /\ Carries(q, minted, age) /\ Going(q) /\ q.cookie = n /\ q.pc # "sent"
    BY <1>5, <1>6, <2>1, ClosedIs
  <2>3. call' = [call EXCEPT ![c] = q] /\ flight' = flight
    BY <1>7, <1>9, <2>1
  <2> QED BY <1>3, <1>8, <2>2, <2>3
<1>10. CASE n # 0 /\ flight[s][n].state = "kept"
  <2>1. PICK m : m = flight[s][n].value
    OBVIOUS
  <2>2. flight[s][n] \in Refreshes /\ m \in 0..MaxToken
    BY <1>3, <1>10, <2>1 DEF Refreshes
  <2>3. m > n /\ m <= minted /\ age[m] = "fresh" /\ m \in S!Tokens
    <3>1. Waited(s, n)
      BY <1>3, <1>10 DEF SessionInv
    <3>2. m > n /\ m <= minted /\ age[m] = "fresh"
      BY <1>2, <1>6, <1>10, <2>1, <3>1 DEF Waited
    <3> QED BY <1>3, <2>2, <3>2, SessionBounds
  <2>4. PICK q : q = RotatedTo(r, m)
    OBVIOUS
  <2>5. q \in CookieCalls /\ Carries(q, minted, age) /\ Going(q) /\ q.cookie = n /\ q.pc # "sent"
    <3>1. Newer(r, m, minted, age) /\ r.cookie # 0
      BY <1>5, <1>10, <2>3 DEF Newer
    <3>2. Resolved(r, q, minted, age)
      BY <1>5, <1>6, <2>3, <2>4, <3>1, AuthenticatedIs
    <3> QED BY <1>5, <3>2 DEF Resolved
  <2>6. call' = [call EXCEPT ![c] = q] /\ flight' = flight
    BY <1>7, <1>10, <2>1, <2>4
  <2> QED BY <1>3, <1>8, <2>5, <2>6
<1>11. CASE n # 0 /\ flight[s][n].state # "kept"
  <2>1. PICK q : q = [r EXCEPT !.pc = "resolving"]
    OBVIOUS
  <2>2. /\ q \in CookieCalls /\ q.pc = "resolving" /\ q.cookie = n /\ q.at = s /\ q.rotated = r.rotated
        /\ q.logout = r.logout
    BY <1>5, <2>1 DEF CookieCalls
  <2>3. Carries(q, minted, age) /\ Going(q)
    BY <1>5, <1>6, <1>11, <2>2 DEF Carries, Going
  <2>4. call' = [call EXCEPT ![c] = q]
    BY <1>7, <1>11, <2>1
  <2>5. flight' \in [Servers -> [S!Tokens -> Refreshes]]
        /\ \A s2 \in Servers, m \in S!Tokens :
             flight'[s2][m] = flight[s2][m] \/ (s2 = s /\ m = n /\ flight'[s][n].state = "running")
    <3>1. CASE flight[s][n].state # "idle"
      BY <1>3, <1>7, <3>1
    <3>2. CASE flight[s][n].state = "idle"
      <4>1. PICK f : f = [flight[s][n] EXCEPT !.state = "running"]
        OBVIOUS
      <4>2. flight' = [flight EXCEPT ![s][n] = f]
        BY <1>3, <1>7, <1>11, <3>2, <4>1
      <4>3. f \in Refreshes /\ f.state = "running"
        <5>1. flight[s][n] \in Refreshes
          BY <1>3, <1>11
        <5> QED BY <4>1, <5>1 DEF Refreshes
      <4> QED BY <1>3, <1>11, <4>2, <4>3
    <3> QED BY <3>1, <3>2
  <2>6. flight'[s][n].state = "running" => Waited(s, n)'
    <3>1. c \in S!Joined(s, n, "resolving")'
      BY <1>3, <2>2, <2>4 DEF S!Joined
    <3> QED BY <3>1 DEF Waited
  <2> QED BY <1>8, <2>2, <2>3, <2>4, <2>5, <2>6
<1> QED BY <1>9, <1>10, <1>11

\* The calls that waited for one refresh or resolution all move on; only the
\* cell they waited at need change, and of the cookies only those spent now.
MovesOn(s, n, pc) ==
  /\ call' = [d \in Calls |-> call'[d]]
  /\ \A d \in Calls : d \notin S!Joined(s, n, pc) => call'[d] = call[d]
  /\ \A d \in S!Joined(s, n, pc) : Resolved(call[d], call'[d], minted', age)
Grown ==
  /\ minted' \in S!Tokens /\ minted <= minted' /\ excused \subseteq excused' /\ excused' \subseteq S!Tokens
  /\ flight' \in [Servers -> [S!Tokens -> Refreshes]] /\ explicit' \in [Servers -> [S!Tokens -> Refreshes]]
  /\ spent' \in [S!Tokens -> 0..2]
  /\ \A m \in S!Tokens : spent'[m] = spent[m] \/ (m <= minted' /\ SpentOnce(m)')
KeepsWaiting(s, n, pc) ==
  \A s2 \in Servers, m \in S!Tokens :
    \/ flight'[s2][m] = flight[s2][m] /\ (pc = "refreshing" \/ s2 # s \/ m # n)
    \/ Waited(s2, m)'

LEMMA AllWork ==
  ASSUME S!SessionConstants, SessionInv, NEW s \in Servers, NEW n \in S!Tokens, NEW pc,
         UNCHANGED <<jar, known, lock, age, signedOut>>, MovesOn(s, n, pc), Grown, KeepsWaiting(s, n, pc)
  PROVE  SessionInv'
<1>1. SessionTyped /\ minted \in Nat /\ minted' \in Nat /\ MaxToken \in Nat /\ minted <= minted'
  BY SessionBounds DEF SessionInv, SessionTyped, Grown
<1>2. \A d \in Calls : call[d] \in CookieCalls /\ Carries(call[d], minted, age)
  BY CallsOf
<1>3. \A d \in Calls : /\ call'[d] \in CookieCalls /\ Onward(call[d], call'[d])
                       /\ Carries(call'[d], minted', age)
  <2>1. ASSUME NEW d \in Calls, d \notin S!Joined(s, n, pc)
        PROVE  call'[d] \in CookieCalls /\ Onward(call[d], call'[d]) /\ Carries(call'[d], minted', age)
    BY <1>1, <1>2, <2>1, StillCarries DEF Onward, MovesOn
  <2> QED BY <2>1 DEF Resolved, MovesOn
<1>4. call' \in [Calls -> CookieCalls]
  BY <1>3 DEF MovesOn
<1>5. SessionTyped'
  BY <1>1, <1>4 DEF SessionTyped, Grown
<1>6. /\ OneHolds' /\ Ended' /\ jar' <= minted' /\ \A d \in Calls : Carries(call'[d], minted', age')
      /\ \A m \in S!Tokens : spent'[m] = spent[m] => SpentOnce(m)'
      /\ \A s2 \in Servers, m \in S!Tokens :
           flight'[s2][m] = flight[s2][m] /\ (\A d \in S!Joined(s2, m, "resolving") : call'[d] = call[d])
           => Waited(s2, m)'
  BY <1>3, <1>4, WorkKeeps DEF Grown
<1>7. \A s2 \in Servers, m \in S!Tokens : Waited(s2, m)'
  <2>1. ASSUME NEW s2 \in Servers, NEW m \in S!Tokens, pc = "refreshing" \/ s2 # s \/ m # n
        PROVE  \A d \in S!Joined(s2, m, "resolving") : call'[d] = call[d]
    <3>1. \A d \in S!Joined(s2, m, "resolving") : d \in Calls /\ d \notin S!Joined(s, n, pc)
      BY <2>1 DEF S!Joined
    <3> QED BY <3>1 DEF MovesOn
  <2> QED BY <1>6, <2>1 DEF KeepsWaiting
<1>8. Sessions'
  <2>1. ASSUME NEW m \in S!Tokens, m > minted' PROVE age[m] = "fresh" /\ spent'[m] = 0
    <3>1. m > minted /\ ~(m <= minted')
      BY <1>1, <2>1, SessionBounds
    <3> QED BY <3>1 DEF SessionInv, Sessions, Grown
  <2> QED BY <1>6, <2>1 DEF Sessions
<1>9. \A m \in S!Tokens : SpentOnce(m)'
  BY <1>6 DEF Grown
<1> QED BY <1>5, <1>6, <1>7, <1>8, <1>9 DEF SessionInv

LEMMA JoinedAre ==
  ASSUME S!SessionConstants, SessionInv, NEW s \in Servers, NEW n \in S!Tokens, NEW pc, pc \in {"resolving", "refreshing"}
  PROVE  \A d \in S!Joined(s, n, pc) :
           /\ d \in Calls /\ call[d] \in CookieCalls /\ call[d].pc = pc /\ call[d].at = s /\ call[d].cookie = n
           /\ Carries(call[d], minted, age) /\ Going(call[d]) /\ ~call[d].rotated /\ n # 0 /\ n <= minted
           /\ pc = "refreshing" => ~call[d].logout
<1>1. ASSUME NEW d \in S!Joined(s, n, pc)
      PROVE  d \in Calls /\ call[d].pc = pc /\ call[d].at = s /\ call[d].cookie = n
  BY DEF S!Joined
<1>2. n # 0
  BY SessionBounds
<1> QED BY <1>1, <1>2, CallsOf DEF Carries, Going

LEMMA ResolveFreshKeeps ==
  ASSUME S!SessionConstants, SessionInv, NEW s \in Servers, NEW n \in S!Tokens, S!ResolveFresh(s, n)
  PROVE  SessionInv'
<1>1. /\ UNCHANGED <<jar, known, lock, explicit, minted, age, spent, excused, signedOut>>
      /\ flight' = [flight EXCEPT ![s][n] = S!Idle]
  BY DEF S!ResolveFresh, S!browser, S!provider, S!ghosts
<1>2. call' = [d \in Calls |-> IF d \in S!Joined(s, n, "resolving") THEN FreshAt(call[d], n) ELSE call[d]]
  BY Zenon DEF S!ResolveFresh, FreshAt
<1>3. SessionTyped
  BY DEF SessionInv
<1>4. /\ call' = [d \in Calls |-> call'[d]]
      /\ \A d \in Calls : d \notin S!Joined(s, n, "resolving") => call'[d] = call[d]
      /\ \A d \in S!Joined(s, n, "resolving") : call'[d] = FreshAt(call[d], n)
  BY <1>2, JoinedAre
<1>5. \A d \in S!Joined(s, n, "resolving") : Resolved(call[d], call'[d], minted', age)
  BY <1>1, <1>4, JoinedAre, AuthenticatedIs
<1>6. flight' \in [Servers -> [S!Tokens -> Refreshes]] /\ flight'[s][n].state = "idle"
      /\ \A s2 \in Servers, m \in S!Tokens : s2 # s \/ m # n => flight'[s2][m] = flight[s2][m]
  <2>1. S!Idle \in Refreshes /\ S!Idle.state = "idle"
    BY SessionBounds DEF S!Idle, Refreshes
  <2> QED BY <1>1, <1>3, <2>1 DEF SessionTyped
<1>7. Waited(s, n)'
  BY <1>6 DEF Waited
<1>8. minted <= minted'
  BY <1>1, <1>3, SessionBounds DEF SessionTyped
<1>9. MovesOn(s, n, "resolving")
  BY <1>4, <1>5 DEF MovesOn
<1>10. Grown
  BY <1>1, <1>3, <1>6, <1>8 DEF SessionTyped, Grown
<1>11. KeepsWaiting(s, n, "resolving")
  BY <1>6, <1>7 DEF KeepsWaiting
<1> QED BY <1>1, <1>9, <1>10, <1>11, AllWork

LEMMA ResolveTransientKeeps ==
  ASSUME S!SessionConstants, SessionInv, NEW s \in Servers, NEW n \in S!Tokens, S!ResolveTransient(s, n)
  PROVE  SessionInv'
<1>1. /\ UNCHANGED <<jar, known, lock, explicit, minted, age, spent, excused, signedOut>>
      /\ flight' = [flight EXCEPT ![s][n] = S!Idle]
      /\ call' = [d \in Calls |-> IF d \in S!Joined(s, n, "resolving") THEN S!Transient(call[d]) ELSE call[d]]
  BY DEF S!ResolveTransient, S!browser, S!provider, S!ghosts
<1>3. SessionTyped
  BY DEF SessionInv
<1>4. /\ call' = [d \in Calls |-> call'[d]]
      /\ \A d \in Calls : d \notin S!Joined(s, n, "resolving") => call'[d] = call[d]
      /\ \A d \in S!Joined(s, n, "resolving") : call'[d] = S!Transient(call[d])
  BY <1>1, JoinedAre
<1>5. \A d \in S!Joined(s, n, "resolving") : Resolved(call[d], call'[d], minted', age)
  BY <1>1, <1>4, JoinedAre, ClosedIs DEF Resolved
<1>6. flight' \in [Servers -> [S!Tokens -> Refreshes]] /\ flight'[s][n].state = "idle"
      /\ \A s2 \in Servers, m \in S!Tokens : s2 # s \/ m # n => flight'[s2][m] = flight[s2][m]
  <2>1. S!Idle \in Refreshes /\ S!Idle.state = "idle"
    BY SessionBounds DEF S!Idle, Refreshes
  <2> QED BY <1>1, <1>3, <2>1 DEF SessionTyped
<1>7. Waited(s, n)'
  BY <1>6 DEF Waited
<1>8. minted <= minted'
  BY <1>1, <1>3, SessionBounds DEF SessionTyped
<1>9. MovesOn(s, n, "resolving")
  BY <1>4, <1>5 DEF MovesOn
<1>10. Grown
  BY <1>1, <1>3, <1>6, <1>8 DEF SessionTyped, Grown
<1>11. KeepsWaiting(s, n, "resolving")
  BY <1>6, <1>7 DEF KeepsWaiting
<1> QED BY <1>1, <1>9, <1>10, <1>11, AllWork

\* The cookie minted when token n is spent, for the first time or again.
LEMMA MintIs ==
  ASSUME S!SessionConstants, SessionInv, NEW n \in S!Tokens, n <= minted,
         spent[n] < 2, spent[n] = 0 => minted < MaxToken, S!Mint(n)
  PROVE  /\ minted' \in S!Tokens /\ minted <= minted' /\ spent' \in [S!Tokens -> 0..2]
         /\ \A m \in S!Tokens : m # n => spent'[m] = spent[m]
         /\ spent[n] = 0 => /\ minted' = minted + 1 /\ spent'[n] = 1 /\ age[minted'] = "fresh"
                            /\ \A c \in Calls : Going(call[c]) => Newer(call[c], minted', minted', age)
         /\ spent[n] # 0 => minted' = minted /\ spent[n] = 1
<1>1. /\ minted \in S!Tokens /\ spent \in [S!Tokens -> 0..2] /\ spent[n] \in 0..2
      /\ minted \in Nat /\ minted <= MaxToken /\ MaxToken \in Nat
  BY SessionBounds DEF SessionInv, SessionTyped
<1>2. spent' = [spent EXCEPT ![n] = @ + 1] /\ minted' = IF spent[n] = 0 THEN minted + 1 ELSE minted
  BY DEF S!Mint
<1>3. minted' \in S!Tokens /\ minted <= minted'
  BY <1>1, <1>2, SessionBounds
<1>4. spent[n] + 1 \in 0..2
  BY <1>1
<1>5. spent' \in [S!Tokens -> 0..2] /\ \A m \in S!Tokens : m # n => spent'[m] = spent[m]
  BY <1>1, <1>2, <1>4
<1>6. ASSUME spent[n] = 0
      PROVE  /\ minted' = minted + 1 /\ spent'[n] = 1 /\ age[minted'] = "fresh"
             /\ \A c \in Calls : Going(call[c]) => Newer(call[c], minted', minted', age)
  <2>1. minted' = minted + 1 /\ spent'[n] = 1
    BY <1>1, <1>2, <1>6
  <2>2. age[minted'] = "fresh"
    BY <1>1, <1>3, <2>1 DEF SessionInv, Sessions
  <2>3. ASSUME NEW c \in Calls, Going(call[c]) PROVE Newer(call[c], minted', minted', age)
    <3>1. call[c].cookie \in Nat /\ call[c].cookie <= minted
      BY <2>3, CallsOf, SessionBounds DEF Carries
    <3> QED BY <1>1, <2>1, <2>2, <3>1 DEF Newer
  <2> QED BY <2>1, <2>2, <2>3
<1> QED BY <1>1, <1>2, <1>3, <1>5, <1>6

LEMMA ResolveRefreshKeeps ==
  ASSUME S!SessionConstants, SessionInv, NEW s \in Servers, NEW n \in S!Tokens, S!ResolveRefresh(s, n)
  PROVE  SessionInv'
<1>1. /\ UNCHANGED <<jar, known, lock, explicit, age, signedOut>>
      /\ flight[s][n].state = "running" /\ age[n] # "fresh"
      /\ spent[n] < 2 /\ (spent[n] = 0 => minted < MaxToken) /\ S!Mint(n)
      /\ flight' = [flight EXCEPT ![s][n] = IF spent[n] = 0 THEN [state |-> "kept", value |-> minted'] ELSE S!Idle]
      /\ excused' = IF \E c \in S!Joined(s, n, "resolving") : c \notin lock THEN excused \cup {n} ELSE excused
  BY DEF S!ResolveRefresh, S!browser
<1>2. call' = [d \in Calls |-> IF d \notin S!Joined(s, n, "resolving") THEN call[d]
                               ELSE IF spent[n] = 0 THEN RotatedTo(call[d], minted') ELSE S!Unauthenticated(call[d])]
  BY Zenon DEF S!ResolveRefresh, RotatedTo
<1>3. SessionTyped
  BY DEF SessionInv
<1>4. /\ call' = [d \in Calls |-> call'[d]]
      /\ \A d \in Calls : d \notin S!Joined(s, n, "resolving") => call'[d] = call[d]
      /\ \A d \in S!Joined(s, n, "resolving") :
           call'[d] = IF spent[n] = 0 THEN RotatedTo(call[d], minted') ELSE S!Unauthenticated(call[d])
  BY <1>2, JoinedAre
<1>5. PICK first : first \in S!Joined(s, n, "resolving")
  BY <1>1 DEF SessionInv, Waited
<1>6. first \in Calls /\ n <= minted /\ call[first].cookie = n /\ call[first].pc = "resolving"
  BY <1>5, JoinedAre
<1>7. /\ minted' \in S!Tokens /\ minted <= minted' /\ spent' \in [S!Tokens -> 0..2]
      /\ \A m \in S!Tokens : m # n => spent'[m] = spent[m]
      /\ spent[n] = 0 => /\ minted' = minted + 1 /\ spent'[n] = 1 /\ age[minted'] = "fresh"
                         /\ \A c \in Calls : Going(call[c]) => Newer(call[c], minted', minted', age)
      /\ spent[n] # 0 => minted' = minted /\ spent[n] = 1
  BY <1>1, <1>6, MintIs
<1>8. minted \in Nat /\ minted' \in Nat /\ MaxToken \in Nat
  BY <1>3, <1>7, SessionBounds DEF SessionTyped
<1>9. ASSUME NEW d \in S!Joined(s, n, "resolving")
      PROVE  Resolved(call[d], call'[d], minted', age) /\ (spent[n] = 0 => call'[d].rotated)
  <2>1. /\ d \in Calls /\ call[d] \in CookieCalls /\ call[d].pc = "resolving" /\ call[d].at = s /\ call[d].cookie = n
        /\ Carries(call[d], minted, age) /\ Going(call[d]) /\ n # 0
    BY <1>9, JoinedAre
  <2>2. Carries(call[d], minted', age)
    BY <1>7, <1>8, <2>1, StillCarries
  <2>3. CASE spent[n] = 0
    <3>1. call'[d] = RotatedTo(call[d], minted')
      BY <1>4, <1>9, <2>3
    <3>2. Newer(call[d], minted', minted', age)
      BY <1>7, <2>1, <2>3
    <3> QED BY <1>7, <2>1, <2>2, <3>1, <3>2, AuthenticatedIs
  <2>4. CASE spent[n] # 0
    <3>1. call'[d] = S!Unauthenticated(call[d])
      BY <1>4, <1>9, <2>4
    <3>2. ~call[d].rotated
      BY <2>1 DEF Carries
    <3> QED BY <2>1, <2>2, <2>4, <3>1, <3>2, ClosedIs DEF Resolved
  <2> QED BY <2>3, <2>4
<1>10. flight' \in [Servers -> [S!Tokens -> Refreshes]]
       /\ flight'[s][n] = (IF spent[n] = 0 THEN [state |-> "kept", value |-> minted'] ELSE S!Idle)
       /\ \A s2 \in Servers, m \in S!Tokens : s2 # s \/ m # n => flight'[s2][m] = flight[s2][m]
  <2>1. PICK f : f = IF spent[n] = 0 THEN [state |-> "kept", value |-> minted'] ELSE S!Idle
    OBVIOUS
  <2>2. f \in Refreshes
    BY <1>7, <2>1, SessionBounds DEF S!Idle, Refreshes
  <2>3. flight' = [flight EXCEPT ![s][n] = f]
    BY <1>1, <2>1
  <2>4. flight \in [Servers -> [S!Tokens -> Refreshes]]
    BY <1>3 DEF SessionTyped
  <2> QED BY <2>1, <2>2, <2>3, <2>4
<1>11. Waited(s, n)'
  <2>1. CASE spent[n] # 0
    <3>1. flight'[s][n].state = "idle"
      BY <1>10, <2>1 DEF S!Idle
    <3> QED BY <3>1 DEF Waited
  <2>2. CASE spent[n] = 0
    <3>1. flight'[s][n].state = "kept" /\ flight'[s][n].value = minted'
      BY <1>10, <2>2
    <3>2. minted' > n /\ age[minted'] = "fresh" /\ n \in Nat
      BY <1>6, <1>7, <1>8, <2>2, SessionBounds
    <3>3. call'[first].rotated /\ Going(call'[first]) /\ call'[first].cookie = n
      BY <1>5, <1>6, <1>9, <2>2 DEF Resolved
    <3>4. Brought(n)'
      BY <1>6, <3>3 DEF Brought
    <3> QED BY <1>1, <1>8, <3>1, <3>2, <3>4 DEF Waited
  <2> QED BY <2>1, <2>2
<1>12. SpentOnce(n)'
  <2>1. SUFFICES ASSUME n \notin excused' PROVE SpentOnce(n)'
    BY DEF SpentOnce
  <2>2. n \notin excused /\ S!Joined(s, n, "resolving") \subseteq lock
    BY <1>1, <2>1
  <2>3. first \in lock
    BY <1>5, <2>2
  <2>4. spent[n] = 0
    <3>1. spent[n] > 0 => \A c \in lock : call[c].cookie = n => call[c].pc \notin {"sent", "resolving"}
      BY <2>2 DEF SessionInv, SpentOnce
    <3>2. spent[n] \in 0..2
      BY <1>3 DEF SessionTyped
    <3> QED BY <1>6, <2>3, <3>1, <3>2
  <2>5. \A c \in lock : c = first
    BY <2>3 DEF SessionInv, OneHolds
  <2>6. call'[first].rotated /\ call'[first].cookie = n /\ call'[first].pc \notin {"sent", "resolving"}
    BY <1>5, <1>6, <1>9, <2>4 DEF Resolved
  <2> QED BY <1>1, <1>7, <2>3, <2>4, <2>5, <2>6 DEF SpentOnce
<1>13. MovesOn(s, n, "resolving")
  BY <1>4, <1>9 DEF MovesOn
<1>14. Grown
  <2>1. excused \subseteq excused' /\ excused' \subseteq S!Tokens
    BY <1>1, <1>3 DEF SessionTyped
  <2>2. explicit' \in [Servers -> [S!Tokens -> Refreshes]]
    BY <1>1, <1>3 DEF SessionTyped
  <2>3. n <= minted'
    BY <1>6, <1>7, <1>8, SessionBounds
  <2> QED BY <1>7, <1>10, <1>12, <2>1, <2>2, <2>3 DEF Grown
<1>15. KeepsWaiting(s, n, "resolving")
  BY <1>10, <1>11 DEF KeepsWaiting
<1> QED BY <1>1, <1>13, <1>14, <1>15, AllWork

LEMMA RefreshTransientKeeps ==
  ASSUME S!SessionConstants, SessionInv, NEW s \in Servers, NEW n \in S!Tokens, S!RefreshTransient(s, n)
  PROVE  SessionInv'
<1>1. /\ UNCHANGED <<jar, known, lock, flight, minted, age, spent, excused, signedOut>>
      /\ explicit' = [explicit EXCEPT ![s][n] = S!Idle]
      /\ call' = [d \in Calls |-> IF d \in S!Joined(s, n, "refreshing") THEN S!Transient(call[d]) ELSE call[d]]
  BY DEF S!RefreshTransient, S!browser, S!provider, S!ghosts
<1>2. SessionTyped
  BY DEF SessionInv
<1>3. /\ call' = [d \in Calls |-> call'[d]]
      /\ \A d \in Calls : d \notin S!Joined(s, n, "refreshing") => call'[d] = call[d]
      /\ \A d \in S!Joined(s, n, "refreshing") : call'[d] = S!Transient(call[d])
  BY <1>1, JoinedAre
<1>4. \A d \in S!Joined(s, n, "refreshing") : Resolved(call[d], call'[d], minted', age)
  BY <1>1, <1>3, JoinedAre, ClosedIs DEF Resolved
<1>5. explicit' \in [Servers -> [S!Tokens -> Refreshes]]
  <2>1. S!Idle \in Refreshes
    BY SessionBounds DEF S!Idle, Refreshes
  <2> QED BY <1>1, <1>2, <2>1 DEF SessionTyped
<1>6. MovesOn(s, n, "refreshing")
  BY <1>3, <1>4 DEF MovesOn
<1>7. Grown
  <2>1. minted <= minted'
    BY <1>1, <1>2, SessionBounds DEF SessionTyped
  <2> QED BY <1>1, <1>2, <1>5, <2>1 DEF SessionTyped, Grown
<1>8. KeepsWaiting(s, n, "refreshing")
  BY <1>1 DEF KeepsWaiting
<1> QED BY <1>1, <1>6, <1>7, <1>8, AllWork

LEMMA RefreshDoneKeeps ==
  ASSUME S!SessionConstants, SessionInv, NEW s \in Servers, NEW n \in S!Tokens, S!RefreshDone(s, n)
  PROVE  SessionInv'
<1>1. /\ UNCHANGED <<jar, known, lock, flight, age, signedOut>>
      /\ spent[n] < 2 /\ (spent[n] = 0 => minted < MaxToken) /\ S!Mint(n)
      /\ explicit' = [explicit EXCEPT ![s][n] = IF spent[n] = 0 THEN [state |-> "kept", value |-> minted'] ELSE S!Idle]
      /\ excused' = excused \cup {n}
  BY DEF S!RefreshDone, S!browser
<1>2. PICK owner \in S!Joined(s, n, "refreshing") :
        call' = [d \in Calls |->
          IF d \notin S!Joined(s, n, "refreshing") THEN call[d]
          ELSE IF spent[n] # 0 THEN S!Answered(call[d], S!None, "401")
          ELSE [call[d] EXCEPT !.pc = "again", !.token = minted', !.rotated = (d = owner)]]
  BY Zenon DEF S!RefreshDone
<1>3. SessionTyped
  BY DEF SessionInv
<1>4. owner \in Calls /\ n <= minted
  BY <1>2, JoinedAre
<1>5. /\ minted' \in S!Tokens /\ minted <= minted' /\ spent' \in [S!Tokens -> 0..2]
      /\ \A m \in S!Tokens : m # n => spent'[m] = spent[m]
      /\ spent[n] = 0 => \A c \in Calls : Going(call[c]) => Newer(call[c], minted', minted', age)
  BY <1>1, <1>4, MintIs
<1>6. minted \in Nat /\ minted' \in Nat /\ MaxToken \in Nat
  BY <1>3, <1>5, SessionBounds DEF SessionTyped
<1>7. ASSUME NEW d \in S!Joined(s, n, "refreshing") PROVE Resolved(call[d], call'[d], minted', age)
  <2>1. /\ d \in Calls /\ call[d] \in CookieCalls /\ call[d].pc = "refreshing" /\ call[d].at = s /\ call[d].cookie = n
        /\ Carries(call[d], minted, age) /\ Going(call[d]) /\ ~call[d].rotated /\ n # 0 /\ ~call[d].logout
    BY <1>7, JoinedAre
  <2>2. Carries(call[d], minted', age)
    BY <1>5, <1>6, <2>1, StillCarries
  <2>3. CASE spent[n] # 0
    <3>1. call'[d] = S!Answered(call[d], 0, "401")
      BY <1>2, <1>7, <2>1, <2>3, SessionBounds
    <3> QED BY <2>1, <2>2, <3>1, ClosedIs DEF Resolved
  <2>4. CASE spent[n] = 0
    <3>1. PICK q : q = call'[d]
      OBVIOUS
    <3>2. q = [call[d] EXCEPT !.pc = "again", !.token = minted', !.rotated = (d = owner)]
      BY <1>2, <1>7, <2>1, <2>4, <3>1
    <3>3. /\ q \in CookieCalls /\ q.pc = "again" /\ q.cookie = n /\ q.logout = call[d].logout /\ q.at = s
          /\ q.token = minted'
      BY <1>5, <2>1, <3>2, SessionBounds DEF CookieCalls
    <3>4. minted' # 0 /\ Newer(q, minted', minted', age)
      BY <1>5, <2>1, <2>4, <3>3, SessionBounds DEF Newer
    <3>5. n <= minted'
      BY <1>4, <1>5, <1>6, SessionBounds
    <3>6. Carries(q, minted', age)
      BY <2>1, <3>3, <3>4, <3>5 DEF Carries, Going
    <3>7. Onward(call[d], q) /\ Going(q)
      BY <2>1, <3>3 DEF Onward, Going
    <3> QED BY <2>1, <3>1, <3>3, <3>6, <3>7 DEF Resolved
  <2> QED BY <2>3, <2>4
<1>8. explicit' \in [Servers -> [S!Tokens -> Refreshes]]
  <2>1. PICK f : f = IF spent[n] = 0 THEN [state |-> "kept", value |-> minted'] ELSE S!Idle
    OBVIOUS
  <2>2. f \in Refreshes
    BY <1>5, <2>1, SessionBounds DEF S!Idle, Refreshes
  <2>3. explicit' = [explicit EXCEPT ![s][n] = f]
    BY <1>1, <2>1
  <2>4. explicit \in [Servers -> [S!Tokens -> Refreshes]]
    BY <1>3 DEF SessionTyped
  <2> QED BY <2>2, <2>3, <2>4
<1>9. MovesOn(s, n, "refreshing")
  <2>1. \A d \in S!Joined(s, n, "refreshing") : d \in Calls
    BY JoinedAre
  <2> QED BY <1>2, <1>7, <2>1 DEF MovesOn
<1>10. Grown
  <2>1. excused \subseteq excused' /\ excused' \subseteq S!Tokens
    BY <1>1, <1>3 DEF SessionTyped
  <2>2. flight' \in [Servers -> [S!Tokens -> Refreshes]]
    BY <1>1, <1>3 DEF SessionTyped
  <2>3. n <= minted'
    BY <1>4, <1>5, <1>6, SessionBounds
  <2>4. SpentOnce(n)'
    BY <1>1 DEF SpentOnce
  <2> QED BY <1>5, <1>8, <2>1, <2>2, <2>3, <2>4 DEF Grown
<1>11. KeepsWaiting(s, n, "refreshing")
  BY <1>1 DEF KeepsWaiting
<1> QED BY <1>1, <1>9, <1>10, <1>11, AllWork

LEMMA ForgetKeeps ==
  ASSUME S!SessionConstants, SessionInv, NEW s \in Servers, NEW n \in S!Tokens, S!Forget(s, n)
  PROVE  SessionInv'
<1>1. /\ UNCHANGED <<jar, known, lock, call, minted, age, spent, signedOut>>
      /\ flight' = IF flight[s][n].state = "kept" THEN [flight EXCEPT ![s][n] = S!Idle] ELSE flight
      /\ explicit' = IF explicit[s][n].state = "kept" THEN [explicit EXCEPT ![s][n] = S!Idle] ELSE explicit
      /\ excused' = excused \/ excused' = excused \cup {n}
  BY DEF S!Forget, S!browser, S!provider
<1>2. SessionTyped
  BY DEF SessionInv
<1>3. S!Idle \in Refreshes /\ S!Idle.state = "idle"
  BY SessionBounds DEF S!Idle, Refreshes
<1>4. /\ flight' \in [Servers -> [S!Tokens -> Refreshes]] /\ explicit' \in [Servers -> [S!Tokens -> Refreshes]]
      /\ \A s2 \in Servers, m \in S!Tokens : flight'[s2][m] = flight[s2][m] \/ flight'[s2][m].state = "idle"
  BY <1>1, <1>2, <1>3 DEF SessionTyped
<1>5. excused \subseteq excused' /\ excused' \subseteq S!Tokens
  BY <1>1, <1>2 DEF SessionTyped
<1>6. minted' \in S!Tokens /\ minted <= minted' /\ call' \in [Calls -> CookieCalls]
  BY <1>1, <1>2, SessionBounds DEF SessionTyped
<1>7. \A c \in Calls : Onward(call[c], call'[c]) /\ Carries(call'[c], minted', age)
  BY <1>1 DEF SessionInv, Onward
<1>8. /\ OneHolds' /\ Ended' /\ \A c \in Calls : Carries(call'[c], minted', age')
      /\ \A m \in S!Tokens : spent'[m] = spent[m] => SpentOnce(m)'
      /\ \A s2 \in Servers, m \in S!Tokens :
           flight'[s2][m] = flight[s2][m] /\ (\A c \in S!Joined(s2, m, "resolving") : call'[c] = call[c])
           => Waited(s2, m)'
  BY <1>1, <1>5, <1>6, <1>7, WorkKeeps
<1>9. \A s2 \in Servers, m \in S!Tokens : flight'[s2][m].state = "idle" => Waited(s2, m)'
  BY DEF Waited
<1>10. SessionTyped' /\ Sessions'
  <2>1. SessionTyped'
    BY <1>1, <1>2, <1>4, <1>5 DEF SessionTyped
  <2>2. Sessions'
    BY <1>1 DEF SessionInv, Sessions
  <2> QED BY <2>1, <2>2
<1>11. \A m \in S!Tokens : SpentOnce(m)'
  BY <1>1, <1>8
<1>12. \A s2 \in Servers, m \in S!Tokens : Waited(s2, m)'
  BY <1>1, <1>4, <1>8, <1>9
<1> QED BY <1>8, <1>10, <1>11, <1>12 DEF SessionInv

-----------------------------------------------------------------------------
(* What the tabs, the clock and the user do. *)

\* A call not yet going queues, or leaves with the jar's cookie: by itself, or
\* when nobody holds the lock, perhaps holding it.
LEMMA LeavesKeeps ==
  ASSUME S!SessionConstants, SessionInv, NEW c \in Calls, ~Going(call[c]), NEW q \in CookieCalls, ~q.rotated,
         q.pc = "queued" \/ (q.pc = "sent" /\ q.cookie = jar), call' = [call EXCEPT ![c] = q],
         \/ lock' = lock
         \/ lock = {} /\ lock' \subseteq {c} /\ q.pc = "sent",
         UNCHANGED <<jar, known, flight, explicit, minted, age, spent, excused, signedOut>>
  PROVE  SessionInv'
<1>1. SessionTyped
  BY DEF SessionInv
<1>2. call' \in [Calls -> CookieCalls] /\ \A d \in Calls : call'[d] = IF d = c THEN q ELSE call[d]
  BY <1>1 DEF SessionTyped
<1>3. SessionTyped' /\ Sessions'
  <2>1. lock' \subseteq Calls
    BY <1>1 DEF SessionTyped
  <2>2. SessionTyped'
    BY <1>1, <1>2, <2>1 DEF SessionTyped
  <2>3. Sessions'
    BY DEF SessionInv, Sessions
  <2> QED BY <2>2, <2>3
<1>4. /\ q.pc \notin {"resolving", "upstream", "again", "refreshing", "answered"}
      /\ Going(q) => q.pc = "sent" /\ q.cookie = jar
  BY DEF Going
<1>5. \A d \in Calls : Carries(call'[d], minted', age')
  <2>1. Carries(q, minted, age)
    BY <1>4 DEF SessionInv, Sessions, Carries, Going
  <2> QED BY <1>2, <2>1 DEF SessionInv
<1>6. c \notin lock /\ \A d \in lock : d \in Calls /\ call'[d] = call[d]
  BY <1>1, <1>2 DEF SessionInv, OneHolds, SessionTyped
<1>7. OneHolds'
  BY <1>2, <1>6 DEF SessionInv, OneHolds, Going
<1>8. Ended'
  BY <1>2, <1>4 DEF SessionInv, Ended
<1>9. ASSUME NEW s \in Servers, NEW n \in S!Tokens PROVE Waited(s, n)'
  <2>1. Waited(s, n)
    BY DEF SessionInv
  <2>2. S!Joined(s, n, "resolving") # {} => S!Joined(s, n, "resolving")' # {}
    <3>1. ASSUME NEW d \in S!Joined(s, n, "resolving") PROVE d \in S!Joined(s, n, "resolving")'
      BY <1>2, <3>1 DEF S!Joined, Going
    <3> QED BY <3>1
  <2>3. (jar # n /\ \A d \in Calls : Going(call[d]) => call[d].cookie # n)
        => \A d \in Calls : Going(call'[d]) => call'[d].cookie # n
    BY <1>2, <1>4
  <2>4. Brought(n) => Brought(n)'
    BY <1>2 DEF Brought
  <2> QED BY <2>1, <2>2, <2>3, <2>4 DEF Waited
<1>10. ASSUME NEW n \in S!Tokens PROVE SpentOnce(n)'
  <2>1. SpentOnce(n)
    BY DEF SessionInv
  <2>2. CASE lock' = lock
    BY <1>6, <2>1, <2>2 DEF SpentOnce
  <2>3. CASE lock = {} /\ lock' \subseteq {c} /\ q.pc = "sent"
    <3>1. spent[n] > 0 /\ n \notin excused => spent[n] = 1 /\ age[n] # "fresh" /\ jar # n
      BY <2>1, <2>3 DEF SpentOnce
    <3>2. \A d \in lock' : call'[d].cookie = jar
      BY <1>2, <1>4, <2>3 DEF Going
    <3> QED BY <3>1, <3>2 DEF SpentOnce
  <2> QED BY <2>2, <2>3
<1> QED BY <1>3, <1>5, <1>7, <1>8, <1>9, <1>10 DEF SessionInv

LEMMA SentIs ==
  ASSUME S!SessionConstants, SessionInv, NEW c, NEW logout \in BOOLEAN, NEW q,
         q = S!Sent(c, logout) \/ q = [S!Rest EXCEPT !.pc = "queued", !.logout = logout]
  PROVE  /\ q \in CookieCalls /\ ~q.rotated
         /\ q = S!Sent(c, logout) => q.pc = "sent" /\ q.cookie = jar
         /\ q.pc = "queued" \/ q = S!Sent(c, logout)
<1>1. jar \in 0..MaxToken
  BY DEF SessionInv, SessionTyped
<1>2. CASE q = S!Sent(c, logout)
  <2>1. q = [pc |-> "sent", logout |-> logout, cookie |-> jar, at |-> 0, token |-> 0, rotated |-> FALSE,
             set |-> MaxToken + 1, status |-> "none"]
    BY <1>2, SessionBounds DEF S!Sent, S!Rest
  <2>2. q \in CookieCalls /\ ~q.rotated /\ q.pc = "sent" /\ q.cookie = jar
    BY <1>1, <2>1, SessionBounds DEF CookieCalls
  <2> QED BY <1>2, <2>2
<1>3. CASE q = [S!Rest EXCEPT !.pc = "queued", !.logout = logout]
  <2>1. q = [pc |-> "queued", logout |-> logout, cookie |-> 0, at |-> 0, token |-> 0, rotated |-> FALSE,
             set |-> MaxToken + 1, status |-> "none"]
    BY <1>3, SessionBounds DEF S!Rest
  <2>2. q \in CookieCalls /\ ~q.rotated /\ q.pc = "queued"
    BY <1>1, <2>1, SessionBounds DEF CookieCalls
  <2>3. S!Sent(c, logout).pc = "sent"
    BY DEF S!Sent, S!Rest
  <2> QED BY <2>2, <2>3
<1> QED BY <1>2, <1>3

LEMMA AskKeeps ==
  ASSUME S!SessionConstants, SessionInv, NEW c \in Calls, NEW logout \in BOOLEAN, S!Ask(c, logout)
  PROVE  SessionInv'
<1>1. /\ call[c].pc = "idle"
      /\ call' = [call EXCEPT ![c] = IF S!Fresh(TabOf[c]) THEN S!Sent(c, logout)
                                     ELSE [S!Rest EXCEPT !.pc = "queued", !.logout = logout]]
      /\ UNCHANGED <<jar, known, lock, flight, explicit, minted, age, spent, excused, signedOut>>
  BY DEF S!Ask, S!browser, S!bff, S!provider, S!ghosts
<1>2. PICK q : /\ call' = [call EXCEPT ![c] = q]
               /\ q = S!Sent(c, logout) \/ q = [S!Rest EXCEPT !.pc = "queued", !.logout = logout]
  BY <1>1
<1>3. q \in CookieCalls /\ ~q.rotated /\ (q.pc = "queued" \/ (q.pc = "sent" /\ q.cookie = jar))
  BY <1>2, SentIs
<1>4. ~Going(call[c])
  BY <1>1 DEF Going
<1> QED BY <1>1, <1>2, <1>3, <1>4, LeavesKeeps

LEMMA TurnKeeps ==
  ASSUME S!SessionConstants, SessionInv, NEW c \in Calls, S!Turn(c)
  PROVE  SessionInv'
<1>1. /\ call[c].pc = "queued" /\ lock = {} /\ lock' \subseteq {c}
      /\ call' = [call EXCEPT ![c] = S!Sent(c, @.logout)]
      /\ UNCHANGED <<jar, known, flight, explicit, minted, age, spent, excused, signedOut>>
  BY DEF S!Turn, S!bff, S!provider, S!ghosts
<1>2. call \in [Calls -> CookieCalls] /\ call[c].logout \in BOOLEAN
  BY CallsOf DEF SessionInv, SessionTyped, CookieCalls
<1>3. PICK q : /\ call' = [call EXCEPT ![c] = q] /\ q = S!Sent(c, call[c].logout)
  BY <1>1, <1>2
<1>4. q \in CookieCalls /\ ~q.rotated /\ q.pc = "sent" /\ q.cookie = jar
  BY <1>2, <1>3, SentIs
<1>5. ~Going(call[c])
  BY <1>1 DEF Going
<1> QED BY <1>1, <1>3, <1>4, <1>5, LeavesKeeps

LEMMA PassKeeps ==
  ASSUME S!SessionConstants, SessionInv, NEW n \in S!Tokens, S!Pass(n)
  PROVE  SessionInv'
<1>1. /\ n <= minted /\ \A c \in Calls : Going(call[c]) => call[c].cookie >= n
      /\ age' = [age EXCEPT ![n] = IF @ = "fresh" THEN "near" ELSE "out"]
      /\ UNCHANGED <<jar, known, lock, call, flight, explicit, minted, spent, excused, signedOut>>
  BY DEF S!Pass, S!InFlight, Going, S!browser, S!bff, S!ghosts
<1>2. SessionTyped
  BY DEF SessionInv
<1>3. age' \in [S!Tokens -> {"fresh", "near", "out"}] /\ age'[n] # "fresh"
      /\ \A m : m # n => age'[m] = age[m]
  BY <1>1, <1>2 DEF SessionTyped
<1>4. SessionTyped'
  BY <1>1, <1>2, <1>3 DEF SessionTyped
<1>5. /\ n \in Nat /\ minted \in Nat /\ \A m \in 0..MaxToken : m \in Nat
      /\ \A c \in Calls : call[c].cookie \in Nat
  BY <1>2, CallsOf, SessionBounds DEF SessionTyped
<1>6. Sessions'
  <2>1. \A m \in S!Tokens : m > minted => m # n
    BY <1>1, <1>5, SessionBounds
  <2> QED BY <1>1, <1>3, <2>1 DEF SessionInv, Sessions
<1>7. ASSUME NEW c \in Calls PROVE Carries(call'[c], minted', age')
  <2>1. Carries(call[c], minted, age) /\ call[c] \in CookieCalls
    BY CallsOf
  <2>2. ASSUME NEW m, Going(call[c]), m \in Nat, Newer(call[c], m, minted, age)
        PROVE  Newer(call[c], m, minted, age')
    <3>1. m \notin {0, MaxToken + 1} => m # n
      BY <1>1, <1>5, <2>2 DEF Newer
    <3> QED BY <1>3, <2>2, <3>1 DEF Newer
  <2>3. /\ call[c].token \in Nat /\ call[c].set \in Nat
        /\ call[c].rotated => Going(call[c])
        /\ call[c].pc = "answered" => Going(call[c])
    BY <2>1, SessionBounds DEF CookieCalls, Carries, Going
  <2> QED BY <1>1, <2>1, <2>2, <2>3 DEF Carries
<1>8. OneHolds' /\ Ended'
  BY <1>1 DEF SessionInv, OneHolds, Ended
<1>9. ASSUME NEW s \in Servers, NEW m \in S!Tokens PROVE Waited(s, m)'
  <2>1. Waited(s, m)
    BY DEF SessionInv
  <2>2. PICK v : v = flight[s][m].value
    OBVIOUS
  <2>3. S!Joined(s, m, "resolving")' = S!Joined(s, m, "resolving") /\ (Brought(m)' <=> Brought(m))
    BY <1>1 DEF S!Joined, Brought
  <2>4. CASE flight[s][m].state # "kept"
    BY <1>1, <2>1, <2>3, <2>4 DEF Waited
  <2>5. CASE flight[s][m].state = "kept"
    <3>1. /\ v > m /\ v <= minted /\ age[m] # "fresh" /\ (jar = m => Brought(m))
          /\ age[v] = "fresh" \/ (jar # m /\ \A c \in Calls : Going(call[c]) => call[c].cookie # m)
      <4> HIDE DEF Brought
      <4> QED BY <2>1, <2>2, <2>5, Zenon DEF Waited
    <3>2. age'[m] # "fresh"
      BY <1>3, <3>1
    <3>3. age'[v] = "fresh" \/ (jar # m /\ \A c \in Calls : Going(call[c]) => call[c].cookie # m)
      <4>1. CASE v = n
        <5>1. \A c \in Calls : Going(call[c]) => call[c].cookie # m
          BY <1>1, <1>5, <3>1, <4>1, SessionBounds
        <5> QED BY <3>1, <5>1 DEF Brought
      <4>2. CASE v # n
        BY <1>3, <3>1, <4>2
      <4> QED BY <4>1, <4>2
    <3> QED BY <1>1, <2>2, <2>3, <2>5, <3>1, <3>2, <3>3 DEF Waited
  <2> QED BY <2>4, <2>5
<1>10. \A m \in S!Tokens : SpentOnce(m)'
  <2>1. \A m \in S!Tokens : age[m] # "fresh" => age'[m] # "fresh"
    BY <1>3
  <2> QED BY <1>1, <2>1 DEF SessionInv, SpentOnce
<1> QED BY <1>4, <1>6, <1>7, <1>8, <1>9, <1>10 DEF SessionInv

LEMMA SignInKeeps == ASSUME S!SessionConstants, SessionInv, S!SignIn PROVE SessionInv'
<1>1. /\ jar = 0 /\ minted < MaxToken /\ minted' = minted + 1 /\ jar' = minted' /\ ~signedOut' /\ signedOut' = FALSE
      /\ UNCHANGED <<known, lock, call, flight, explicit, age, spent, excused>>
  BY SessionBounds DEF S!SignIn, S!bff
<1>2. SessionTyped
  BY DEF SessionInv
<1>3. minted \in Nat /\ minted' \in Nat /\ minted' \in S!Tokens /\ minted' \in 0..MaxToken /\ minted <= minted'
      /\ MaxToken \in Nat
  BY <1>1, <1>2, SessionBounds DEF SessionTyped
<1>4. SessionTyped'
  BY <1>1, <1>2, <1>3 DEF SessionTyped
<1>5. Sessions'
  <2>1. \A m \in S!Tokens : m > minted' => m > minted
    BY <1>3, SessionBounds
  <2> QED BY <1>1, <1>3, <2>1 DEF SessionInv, Sessions
<1>6. \A c \in Calls : Carries(call'[c], minted', age')
  BY <1>1, <1>3, CallsOf, StillCarries
<1>7. OneHolds' /\ Ended'
  BY <1>1 DEF SessionInv, OneHolds, Ended
<1>8. ASSUME NEW s \in Servers, NEW n \in S!Tokens PROVE Waited(s, n)'
  <2>1. Waited(s, n)
    BY DEF SessionInv
  <2>2. S!Joined(s, n, "resolving")' = S!Joined(s, n, "resolving")
    BY <1>1 DEF S!Joined
  <2>3. flight[s][n].value \in Nat /\ n \in Nat
    BY <1>2, SessionBounds DEF SessionTyped, Refreshes
  <2>4. flight[s][n].state = "kept" => jar' # n
    BY <1>1, <1>3, <2>1, <2>3 DEF Waited
  <2> QED BY <1>1, <1>3, <2>1, <2>2, <2>3, <2>4 DEF Waited
<1>9. ASSUME NEW n \in S!Tokens PROVE SpentOnce(n)'
  <2>1. spent[n] > 0 => jar' # n
    <3>1. n > minted => spent[n] = 0
      BY DEF SessionInv, Sessions
    <3> QED BY <1>1, <1>3, <3>1, SessionBounds
  <2> QED BY <1>1, <2>1 DEF SessionInv, SpentOnce
<1> QED BY <1>4, <1>5, <1>6, <1>7, <1>8, <1>9 DEF SessionInv

LEMMA ReceiveKeeps == ASSUME S!SessionConstants, SessionInv, NEW c \in Calls, S!Receive(c) PROVE SessionInv'
<1>1. /\ call[c].pc = "answered"
      /\ jar' = IF call[c].set = S!Keep THEN jar ELSE call[c].set
      /\ known' = [known EXCEPT ![TabOf[c]] = S!Learnt(TabOf[c], c)]
      /\ lock' = lock \ {c} /\ call' = [call EXCEPT ![c] = S!Rest]
      /\ signedOut' = (signedOut \/ (call[c].logout /\ call[c].status = "ok"
                                     /\ \A d \in Calls \ {c} : ~Going(call[d])))
      /\ UNCHANGED <<flight, explicit, minted, age, spent, excused>>
  BY DEF S!Receive, S!InFlight, Going, S!bff, S!provider
<1>2. SessionTyped
  BY DEF SessionInv
<1>3. /\ S!Rest \in CookieCalls /\ S!Rest.pc = "idle" /\ ~S!Rest.rotated
  BY SessionBounds DEF S!Rest, CookieCalls
<1>4. call' \in [Calls -> CookieCalls] /\ \A d \in Calls : call'[d] = IF d = c THEN S!Rest ELSE call[d]
  BY <1>1, <1>2, <1>3 DEF SessionTyped
<1>5. /\ Going(call[c]) /\ call[c].set \in 0..MaxToken + 1 /\ call[c].rotated \in BOOLEAN
      /\ call[c].cookie = 0 => call[c].set \in {0, MaxToken + 1}
      /\ call[c].rotated => call[c].set # MaxToken + 1
      /\ Newer(call[c], call[c].set, minted, age)
      /\ call[c].logout /\ call[c].status = "ok" => call[c].set = 0
  BY <1>1, CallsOf DEF Carries, Going, CookieCalls
<1>6. /\ jar' \in 0..MaxToken /\ jar' <= minted
      /\ \/ jar' = jar /\ ~call[c].rotated
         \/ jar' = 0
         \/ age[jar'] = "fresh" /\ jar' # 0
      /\ call[c].set = 0 => jar' = 0
  <2>1. CASE call[c].set = MaxToken + 1
    BY <1>1, <1>2, <1>5, <2>1, SessionBounds DEF SessionInv, Sessions, SessionTyped
  <2>2. CASE call[c].set = 0
    <3>1. jar' = 0
      BY <1>1, <2>2, SessionBounds
    <3>2. 0 <= minted /\ 0 \in 0..MaxToken
      BY <1>2, SessionBounds DEF SessionTyped
    <3> QED BY <3>1, <3>2
  <2>3. CASE call[c].set # 0 /\ call[c].set # MaxToken + 1
    <3>1. jar' = call[c].set /\ call[c].set \in 0..MaxToken
      BY <1>1, <1>5, <2>3, SessionBounds
    <3> QED BY <1>5, <2>3, <3>1 DEF Newer
  <2> QED BY <2>1, <2>2, <2>3
<1>7. known' \in [Tabs -> 0..MaxToken]
  <2>1. TabOf[c] \in Tabs /\ known \in [Tabs -> 0..MaxToken] /\ call[c].token \in 0..MaxToken
    BY <1>2, CallsOf, SessionBounds DEF SessionTyped
  <2>2. S!Learnt(TabOf[c], c) \in 0..MaxToken
    BY <2>1, SessionBounds DEF S!Learnt
  <2> QED BY <1>1, <2>1, <2>2
<1>8. SessionTyped'
  <2>1. lock' \subseteq Calls /\ signedOut' \in BOOLEAN
    BY <1>1, <1>2 DEF SessionTyped
  <2> QED BY <1>1, <1>2, <1>4, <1>6, <1>7, <2>1 DEF SessionTyped
<1>9. Sessions'
  BY <1>1, <1>6 DEF SessionInv, Sessions
<1>10. OneHolds'
  BY <1>1, <1>2, <1>4 DEF SessionInv, OneHolds, SessionTyped
<1>11. \A d \in Calls : Carries(call'[d], minted', age')
  <2>1. Carries(S!Rest, minted, age)
    BY <1>3 DEF Carries, Going
  <2> QED BY <1>1, <1>4, <2>1 DEF SessionInv
<1>12. \A d \in Calls : Going(call'[d]) => d # c /\ Going(call[d]) /\ call'[d] = call[d]
  BY <1>3, <1>4 DEF Going
<1>13. Ended'
  <2>1. signedOut => jar = 0 /\ call[c].set \in {0, MaxToken + 1}
    BY <1>5 DEF SessionInv, Ended
  <2>2. call[c].set = MaxToken + 1 => jar' = jar
    BY <1>1, SessionBounds
  <2>3. signedOut' => jar' = 0
    BY <1>1, <1>5, <1>6, <2>1, <2>2
  <2>4. signedOut' => \A d \in Calls : Going(call'[d]) => call'[d].cookie = 0
    BY <1>1, <1>12 DEF SessionInv, Ended
  <2> QED BY <2>3, <2>4 DEF Ended
<1>14. ASSUME NEW s \in Servers, NEW n \in S!Tokens PROVE Waited(s, n)'
  <2>1. Waited(s, n)
    BY DEF SessionInv
  <2>2. S!Joined(s, n, "resolving") # {} => S!Joined(s, n, "resolving")' # {}
    <3>1. ASSUME NEW d \in S!Joined(s, n, "resolving") PROVE d \in S!Joined(s, n, "resolving")'
      BY <1>1, <1>4, <3>1 DEF S!Joined
    <3> QED BY <3>1
  <2>3. n # 0
    BY SessionBounds
  <2>4. age[n] # "fresh" /\ jar' = n => jar = n /\ ~call[c].rotated
    BY <1>6, <2>3
  <2>5. Brought(n) /\ ~call[c].rotated => Brought(n)'
    BY <1>4 DEF Brought
  <2>6. (\A d \in Calls : Going(call[d]) => call[d].cookie # n) => \A d \in Calls : Going(call'[d]) => call'[d].cookie # n
    BY <1>12
  <2> QED BY <1>1, <2>1, <2>2, <2>4, <2>5, <2>6 DEF Waited
<1>15. ASSUME NEW n \in S!Tokens PROVE SpentOnce(n)'
  <2>1. SUFFICES ASSUME spent[n] > 0, n \notin excused
        PROVE  /\ spent[n] = 1 /\ age[n] # "fresh"
               /\ \A d \in lock' : call'[d].cookie = n => call'[d].pc \notin {"sent", "resolving"}
               /\ jar' = n => \E d \in lock' : call'[d].cookie = n /\ call'[d].rotated
    BY <1>1 DEF SpentOnce
  <2>2. /\ spent[n] = 1 /\ age[n] # "fresh"
        /\ \A d \in lock : call[d].cookie = n => call[d].pc \notin {"sent", "resolving"}
        /\ jar = n => \E d \in lock : call[d].cookie = n /\ call[d].rotated
    BY <2>1 DEF SessionInv, SpentOnce
  <2>3. \A d \in lock' : d \in lock /\ d # c /\ call'[d] = call[d]
    BY <1>1, <1>2, <1>4 DEF SessionTyped
  <2>4. ASSUME jar' = n PROVE \E d \in lock' : call'[d].cookie = n /\ call'[d].rotated
    <3>1. n # 0
      BY SessionBounds
    <3>2. jar = n /\ ~call[c].rotated
      BY <1>6, <2>2, <2>4, <3>1
    <3>3. PICK d \in lock : call[d].cookie = n /\ call[d].rotated
      BY <2>2, <3>2
    <3>4. d # c
      BY <3>2, <3>3
    <3>5. d \in lock'
      BY <1>1, <3>4
    <3> QED BY <2>3, <3>3, <3>5
  <2> QED BY <2>2, <2>3, <2>4
<1> QED BY <1>8, <1>9, <1>10, <1>11, <1>13, <1>14, <1>15 DEF SessionInv

-----------------------------------------------------------------------------
LEMMA SameSize == \A W : S!Cardinality(W) = Cardinality(W)
BY DEF S!Cardinality, Cardinality

LEMMA SessionHolds == ASSUME S!SessionConstants PROVE S!Spec => []SessionInv
<1>1. S!Init => SessionInv
  BY SessionStart
<1>2. SessionInv /\ [S!Next]_(S!vars) => SessionInv'
  <2>1. SUFFICES ASSUME SessionInv, [S!Next]_(S!vars) PROVE SessionInv'
    OBVIOUS
  <2>2. CASE \E c \in Calls, logout \in BOOLEAN : S!Ask(c, logout)
    BY <2>1, <2>2, AskKeeps
  <2>3. ASSUME NEW c \in Calls, S!Turn(c) \/ S!Receive(c) \/ S!CallStep(c) PROVE SessionInv'
    BY <2>1, <2>3, TurnKeeps, ReceiveKeeps, ArriveKeeps, ForwardedKeeps, SignOutRefusedKeeps, RefusedKeeps
       DEF S!CallStep
  <2>4. ASSUME NEW s \in Servers, NEW n \in S!Tokens, S!ResolveStep(s, n) \/ S!RefreshStep(s, n) \/ S!Forget(s, n)
        PROVE  SessionInv'
    BY <2>1, <2>4, ResolveFreshKeeps, ResolveRefreshKeeps, ResolveTransientKeeps, RefreshDoneKeeps,
       RefreshTransientKeeps, ForgetKeeps DEF S!ResolveStep, S!RefreshStep
  <2>5. CASE \E n \in S!Tokens : S!Pass(n)
    BY <2>1, <2>5, PassKeeps
  <2>6. CASE S!SignIn
    BY <2>1, <2>6, SignInKeeps
  <2>7. CASE UNCHANGED S!vars
    <3>1. UNCHANGED <<jar, known, lock, call, flight, explicit, minted, age, spent, excused, signedOut>>
      BY <2>7 DEF S!vars
    <3>2. /\ SessionTyped' <=> SessionTyped
          /\ Sessions' <=> Sessions
          /\ OneHolds' <=> OneHolds
          /\ Ended' <=> Ended
      BY <3>1 DEF SessionTyped, Sessions, OneHolds, Ended
    <3>3. \A s \in Servers, n \in S!Tokens : (Waited(s, n)' <=> Waited(s, n)) /\ (SpentOnce(n)' <=> SpentOnce(n))
      BY <3>1 DEF Waited, SpentOnce, S!Joined, Brought
    <3>4. \A n \in S!Tokens : SpentOnce(n)' <=> SpentOnce(n)
      BY <3>1 DEF SpentOnce
    <3> QED BY <2>1, <3>1, <3>2, <3>3, <3>4 DEF SessionInv
  <2> QED BY <2>1, <2>2, <2>3, <2>4, <2>5, <2>6, <2>7 DEF S!Next
<1> QED BY <1>1, <1>2, PTL DEF S!Spec

\* A refresh token is spent once, whatever the instances and the order of the
\* answers, unless a call without the lock, a refused token or the end of the
\* grace period excuses it: for any tabs, calls, instances and cookies.
THEOREM TokensHold ==
  ASSUME S!SessionConstants
  PROVE  S!Spec => [](S!TypeOK /\ S!SpentTwiceOnlyExcused)
<1>1. SessionInv => S!SpentTwiceOnlyExcused
  <2>1. SUFFICES ASSUME SessionInv, NEW n \in S!Tokens, spent[n] > 1 PROVE n \in excused
    BY DEF S!SpentTwiceOnlyExcused
  <2>2. spent[n] \in 0..2
    BY <2>1 DEF SessionInv, SessionTyped
  <2> QED BY <2>1, <2>2 DEF SessionInv, SpentOnce
<1>2. SessionInv => S!TypeOK
  <2>1. SUFFICES ASSUME SessionInv PROVE S!TypeOK
    OBVIOUS
  <2>2. S!Tokens \cup {S!None} = 0..MaxToken /\ S!Tokens \cup {S!None, S!Keep} = 0..MaxToken + 1
    BY SessionBounds
  <2>3. S!Cardinality(lock) <= 1
    <3>1. CASE lock = {}
      BY <3>1, SameSize, FS_EmptySet
    <3>2. CASE lock # {}
      <4>1. PICK c : lock = {c}
        BY <2>1, <3>2 DEF SessionInv, OneHolds
      <4> QED BY <4>1, SameSize, FS_Singleton
    <3> QED BY <3>1, <3>2
  <2>4. SessionTyped /\ S!None = 0
    BY <2>1, SessionBounds DEF SessionInv
  <2> QED BY <2>2, <2>3, <2>4 DEF SessionTyped, S!TypeOK, CookieCalls, Refreshes
<1> QED BY <1>1, <1>2, SessionHolds, PTL

\* After a sign-out that no other call raced, no late answer and no rotated
\* cookie gives the browser its session back before the next sign-in.
THEOREM SignOutHolds ==
  ASSUME S!SessionConstants
  PROVE  S!Spec => []S!SignedOutStays
<1>1. SessionInv => S!SignedOutStays
  BY SessionBounds DEF SessionInv, Ended, S!SignedOutStays
<1> QED BY <1>1, SessionHolds, PTL

-----------------------------------------------------------------------------
(* Sign-ins in progress. *)

\* A flow whose cookie has not been set is in no jar and in no request; one
\* away without its cookie is too old or was followed by too many.
Excused(f) == f \in lapsed \/ (IsFiniteSet(later[f]) /\ Cardinality(later[f]) > KEPT_LOGINS)
LoginInv ==
  /\ G!TypeOK
  /\ \A f \in Flows : /\ IsFiniteSet(later[f])
                      /\ f \in cookies => login[f] = "away"
                      /\ login[f] \in {"new", "starting"} => \A g \in Flows : f \notin sentWith[g] /\ f \notin later[g]
                      /\ login[f] = "away" /\ f \notin cookies => Excused(f)
                      /\ login[f] = "lost" => Excused(f)

LEMMA LoginCounts == \A W : G!Cardinality(W) = Cardinality(W)
BY DEF G!Cardinality, Cardinality

LEMMA LoginStart == G!LoginConstants /\ G!Init => LoginInv
<1> SUFFICES ASSUME G!Init PROVE LoginInv
  OBVIOUS
<1>1. G!TypeOK
  BY DEF G!Init, G!TypeOK
<1>2. IsFiniteSet({})
  BY FS_EmptySet
<1> QED BY <1>1, <1>2 DEF G!Init, LoginInv

\* The cookies a start expires were followed by too many.
LEMMA ExpiredAreOld ==
  ASSUME G!LoginConstants, LoginInv, NEW f \in Flows, login[f] = "starting", NEW g \in G!Expired(f), NEW followers,
         followers = later[g] \cup {f}
  PROVE  g \in Flows /\ IsFiniteSet(followers) /\ Cardinality(followers) > KEPT_LOGINS
<1>1. g \in Flows /\ IsFiniteSet(later[g]) /\ f \notin sentWith[f] /\ f \notin later[g]
  BY DEF LoginInv, G!TypeOK, G!Expired, G!Others
<1>2. Cardinality(G!Newer(g, f)) >= KEPT_LOGINS /\ G!Newer(g, f) \subseteq later[g]
  BY LoginCounts DEF G!Expired, G!Newer
<1>3. Cardinality(G!Newer(g, f)) <= Cardinality(later[g]) /\ IsFiniteSet(G!Newer(g, f))
  BY <1>1, <1>2, FS_Subset
<1>4. /\ IsFiniteSet(followers) /\ Cardinality(followers) = Cardinality(later[g]) + 1
      /\ Cardinality(later[g]) \in Nat /\ Cardinality(G!Newer(g, f)) \in Nat
  BY <1>1, <1>3, FS_AddElement, FS_CardinalityType
<1> QED BY <1>1, <1>2, <1>3, <1>4 DEF G!LoginConstants

LEMMA StartedKeeps == ASSUME G!LoginConstants, LoginInv, NEW f \in Flows, G!Started(f) PROVE LoginInv'
<1>1. /\ login[f] = "starting" /\ cookies' = (cookies \ G!Expired(f)) \cup {f} /\ login' = [login EXCEPT ![f] = "away"]
      /\ later' = [g \in Flows |-> IF login[g] = "away" THEN later[g] \cup {f} ELSE later[g]]
      /\ UNCHANGED <<sentWith, lapsed>>
  BY DEF G!Started
<1>2. G!TypeOK'
  BY <1>1 DEF LoginInv, G!TypeOK
<1>3. /\ login'[f] = "away" /\ f \in cookies' /\ later'[f] = later[f]
      /\ \A g \in Flows \ {f} : /\ login'[g] = login[g]
                                /\ later'[g] = IF login[g] = "away" THEN later[g] \cup {f} ELSE later[g]
  BY <1>1 DEF LoginInv, G!TypeOK
<1>4. \A g \in Flows : IsFiniteSet(later'[g])
  <2> SUFFICES ASSUME NEW g \in Flows PROVE IsFiniteSet(later'[g])
    OBVIOUS
  <2>1. IsFiniteSet(later[g]) /\ IsFiniteSet(later[g] \cup {f})
    BY FS_AddElement DEF LoginInv
  <2> QED BY <1>3, <2>1
<1>5. \A g \in Flows : later[g] \subseteq later'[g] /\ (login[g] \in {"new", "starting"} /\ g # f => later'[g] = later[g])
  BY <1>3
<1>6. \A g \in Flows : Excused(g) => Excused(g)'
  <2> SUFFICES ASSUME NEW g \in Flows, Excused(g), g \notin lapsed PROVE Excused(g)'
    BY <1>1 DEF Excused
  <2>1. Cardinality(later[g]) <= Cardinality(later'[g]) /\ Cardinality(later[g]) > KEPT_LOGINS
    BY <1>4, <1>5, FS_Subset DEF Excused
  <2>2. Cardinality(later[g]) \in Nat /\ Cardinality(later'[g]) \in Nat
    BY <1>4, FS_CardinalityType DEF Excused
  <2> QED BY <1>4, <2>1, <2>2 DEF Excused, G!LoginConstants
<1>7. ASSUME NEW g \in Flows, login'[g] = "away", g \notin cookies' PROVE Excused(g)'
  <2>1. g # f /\ login[g] = "away" /\ later'[g] = later[g] \cup {f}
    BY <1>3, <1>7
  <2>2. CASE g \in cookies
    <3>1. g \in G!Expired(f)
      BY <1>1, <1>7, <2>2
    <3>2. IsFiniteSet(later'[g]) /\ Cardinality(later'[g]) > KEPT_LOGINS
      BY <1>1, <2>1, <3>1, ExpiredAreOld
    <3> QED BY <3>2 DEF Excused
  <2>3. CASE g \notin cookies
    BY <1>6, <2>1, <2>3 DEF LoginInv
  <2> QED BY <2>2, <2>3
<1>8. ASSUME NEW g \in Flows, login'[g] \in {"new", "starting"}
      PROVE  \A h \in Flows : g \notin sentWith'[h] /\ g \notin later'[h]
  <2>1. g # f /\ login[g] \in {"new", "starting"}
    BY <1>3, <1>8
  <2> QED BY <1>1, <2>1 DEF LoginInv
<1>9. \A g \in Flows : /\ g \in cookies' => login'[g] = "away"
                       /\ login'[g] = "lost" => Excused(g)'
  BY <1>1, <1>3, <1>6 DEF LoginInv
<1> QED BY <1>2, <1>4, <1>7, <1>8, <1>9 DEF LoginInv

LEMMA OthersKeep ==
  ASSUME G!LoginConstants, LoginInv, NEW f \in Flows,
         G!Start(f) \/ G!Unavailable(f) \/ G!Lapse(f) \/ \E exchanged \in BOOLEAN : G!Callback(f, exchanged)
  PROVE  LoginInv'
<1>1. CASE G!Start(f)
  BY <1>1 DEF G!Start, LoginInv, G!TypeOK, Excused
<1>2. CASE G!Unavailable(f)
  BY <1>2 DEF G!Unavailable, LoginInv, G!TypeOK, Excused
<1>3. CASE G!Lapse(f)
  BY <1>3 DEF G!Lapse, LoginInv, G!TypeOK, Excused
<1>4. ASSUME NEW exchanged \in BOOLEAN, G!Callback(f, exchanged) PROVE LoginInv'
  <2>1. PICK end \in {"lost", "in", "failed"} : login' = [login EXCEPT ![f] = end] /\ (end = "lost" <=> ~G!Transaction(f))
    BY <1>4 DEF G!Callback
  <2>2. login[f] = "away" /\ cookies' = cookies \ {f} /\ UNCHANGED <<sentWith, later, lapsed>>
    BY <1>4 DEF G!Callback
  <2>3. ~G!Transaction(f) => Excused(f)
    BY <2>2 DEF G!Transaction, LoginInv, Excused
  <2> QED BY <2>1, <2>2, <2>3 DEF LoginInv, G!TypeOK, Excused
<1> QED BY <1>1, <1>2, <1>3, <1>4

\* Sign-ins side by side do not collide: a flow loses its transaction only by
\* its own age, or when more than KEPT_LOGINS later ones were answered.
THEOREM LoginsHold ==
  ASSUME G!LoginConstants
  PROVE  G!Spec => [](G!TypeOK /\ G!LostOnlyToMany)
<1>1. LoginInv /\ [G!Next]_(G!loginVars) => LoginInv'
  <2>1. CASE G!Next
    BY <2>1, StartedKeeps, OthersKeep DEF G!Next
  <2>2. CASE UNCHANGED G!loginVars
    BY <2>2 DEF G!loginVars, LoginInv, G!TypeOK, Excused
  <2> QED BY <2>1, <2>2
<1>2. LoginInv => G!TypeOK /\ G!LostOnlyToMany
  BY LoginCounts DEF LoginInv, Excused, G!LostOnlyToMany
<1> QED BY LoginStart, <1>1, <1>2, PTL DEF G!Spec

-----------------------------------------------------------------------------
\* A sequence q without who, as the limiter's Rest computes it.
KeptAt(F, q, who, i) == IF i = 0 THEN <<>> ELSE IF q[i] \in who THEN F[i - 1] ELSE Append(F[i - 1], q[i])
IsRest(F, q, who, m) == F = [i \in 0..m |-> KeptAt(F, q, who, i)]

LEMMA RestExists ==
  ASSUME NEW W, NEW q \in Seq(W), NEW who, NEW n \in Nat
  PROVE  \E F : IsRest(F, q, who, n)
<1> DEFINE Bad == {m \in Nat : ~\E F : IsRest(F, q, who, m)}
<1>1. SUFFICES ASSUME Bad # {} PROVE FALSE
  OBVIOUS
<1>2. PICK m \in Bad : \A k \in Bad : m <= k
  <2>1. Bad \in SUBSET Nat
    OBVIOUS
  <2> HIDE DEF Bad
  <2> QED BY <1>1, <2>1, LeastIndex
<1>3. m \in Nat /\ ~\E F : IsRest(F, q, who, m)
  BY <1>2
<1>4. m # 0
  <2>1. \A i \in 0..0 : KeptAt([j \in 0..0 |-> <<>>], q, who, i) = <<>>
    BY DEF KeptAt
  <2>2. IsRest([j \in 0..0 |-> <<>>], q, who, 0)
    BY <2>1 DEF IsRest
  <2> QED BY <1>3, <2>2
<1>5. m - 1 \in Nat /\ m - 1 \notin Bad
  <2>1. m - 1 \in Nat
    BY <1>3, <1>4
  <2> HIDE DEF Bad
  <2> QED BY <1>2, <1>3, <2>1
<1>6. PICK H : IsRest(H, q, who, m - 1)
  BY <1>5
<1> HIDE DEF Bad
<1> DEFINE last == IF q[m] \in who THEN H[m - 1] ELSE Append(H[m - 1], q[m])
           F == [i \in 0..m |-> IF i = m THEN last ELSE H[i]]
<1>7. /\ \A i \in 0..m - 1 : F[i] = H[i] /\ H[i] = KeptAt(H, q, who, i)
      /\ F[m] = last
  <2>1. \A i \in 0..m - 1 : i \in 0..m /\ i # m
    BY <1>3
  <2>2. \A i \in 0..m - 1 : F[i] = H[i]
    BY <2>1
  <2>3. \A i \in 0..m - 1 : H[i] = KeptAt(H, q, who, i)
    BY <1>6 DEF IsRest
  <2>4. F[m] = last
    BY <1>3
  <2> QED BY <2>2, <2>3, <2>4
<1> HIDE DEF F
<1>8. \A i \in 0..m : F[i] = KeptAt(F, q, who, i)
  <2>1. ASSUME NEW i \in 0..m - 1 PROVE F[i] = KeptAt(F, q, who, i)
    <3>1. i # 0 => i - 1 \in 0..m - 1
      BY <1>3
    <3> QED BY <1>7, <3>1 DEF KeptAt
  <2>2. F[m] = KeptAt(F, q, who, m)
    <3>1. m - 1 \in 0..m - 1
      BY <1>5
    <3> QED BY <1>4, <1>7, <3>1 DEF KeptAt
  <2>3. \A i \in 0..m : i \in 0..m - 1 \/ i = m
    BY <1>3
  <2> QED BY <2>1, <2>2, <2>3
<1>9. F = [i \in 0..m |-> F[i]]
  BY DEF F
<1>10. IsRest(F, q, who, m)
  BY <1>8, <1>9 DEF IsRest
<1> QED BY <1>3, <1>10

Once(q) == \A i, j \in DOMAIN q : q[i] = q[j] => i = j
Members(q) == {q[i] : i \in DOMAIN q}

LEMMA RestKeeps ==
  ASSUME NEW W, NEW q \in Seq(W), Once(q), NEW who, NEW F, IsRest(F, q, who, Len(q)), NEW n \in 0..Len(q)
  PROVE  F[n] \in Seq(W) /\ Once(F[n]) /\ Members(F[n]) = {q[i] : i \in 1..n} \ who
<1> DEFINE Fine(m) == F[m] \in Seq(W) /\ Once(F[m]) /\ Members(F[m]) = {q[i] : i \in 1..m} \ who
           Bad == {m \in 0..Len(q) : ~Fine(m)}
<1>1. SUFFICES ASSUME Bad # {} PROVE FALSE
  OBVIOUS
<1>2. PICK m \in Bad : \A k \in Bad : m <= k
  <2>1. Bad \in SUBSET Nat
    OBVIOUS
  <2> HIDE DEF Bad
  <2> QED BY <1>1, <2>1, LeastIndex
<1>3. m \in 0..Len(q) /\ ~Fine(m)
  BY <1>2
<1>4. \A i \in 0..Len(q) : F[i] = KeptAt(F, q, who, i)
  BY DEF IsRest
<1>5. m # 0
  <2>1. F[0] = <<>>
    BY <1>4 DEF KeptAt
  <2>2. Members(F[0]) = {} /\ Once(F[0]) /\ F[0] \in Seq(W)
    BY <2>1 DEF Members, Once
  <2> QED BY <1>3, <2>2
<1>6. m - 1 \in 0..Len(q) /\ Fine(m - 1)
  <2>1. m - 1 \in 0..Len(q) /\ m \in Nat /\ m - 1 < m
    BY <1>3, <1>5
  <2>2. m - 1 \notin Bad
    <3> HIDE DEF Bad
    <3> QED BY <1>2, <2>1
  <2> QED BY <2>1, <2>2
<1> DEFINE H == F[m - 1]
<1>7. F[m] = IF q[m] \in who THEN H ELSE Append(H, q[m])
  BY <1>3, <1>4, <1>5 DEF KeptAt
<1>8. H \in Seq(W) /\ Once(H) /\ Members(H) = {q[i] : i \in 1..m - 1} \ who
  BY <1>6
<1>9. q[m] \in W /\ {q[i] : i \in 1..m} = {q[i] : i \in 1..m - 1} \cup {q[m]} /\ \A i \in 1..m - 1 : q[i] # q[m]
  BY <1>3, <1>5 DEF Once
<1> HIDE DEF H, Bad
<1>10. CASE q[m] \in who
  BY <1>3, <1>7, <1>8, <1>9, <1>10
<1>11. CASE q[m] \notin who
  <2>1. F[m] = Append(H, q[m]) /\ q[m] \notin Members(H)
    BY <1>7, <1>8, <1>9, <1>11
  <2>2. Len(H) \in Nat /\ DOMAIN H = 1..Len(H)
    BY <1>8
  <2>3. /\ F[m] \in Seq(W) /\ DOMAIN F[m] = 1..Len(H) + 1 /\ F[m][Len(H) + 1] = q[m]
        /\ \A i \in 1..Len(H) : F[m][i] = H[i]
    BY <1>8, <1>9, <2>1, <2>2
  <2>4. Members(F[m]) = Members(H) \cup {q[m]}
    BY <2>2, <2>3 DEF Members
  <2>5. Once(F[m])
    BY <1>8, <2>1, <2>2, <2>3 DEF Once, Members
  <2> QED BY <1>3, <1>8, <1>9, <1>11, <2>3, <2>4, <2>5
<1> QED BY <1>10, <1>11

LEMMA RestIs ==
  ASSUME NEW W, queue \in Seq(W), Once(queue), NEW who
  PROVE  L!Rest(who) \in Seq(W) /\ Once(L!Rest(who)) /\ Members(L!Rest(who)) = Members(queue) \ who
<1>1. Len(queue) \in Nat /\ Len(queue) \in 0..Len(queue)
  OBVIOUS
<1>2. PICK F, n, q : IsRest(F, queue, who, Len(queue)) /\ L!Rest(who) = F[n] /\ n = Len(queue) /\ q = queue
  <2> DEFINE RestF == CHOOSE H : IsRest(H, queue, who, Len(queue))
  <2>1. IsRest(RestF, queue, who, Len(queue))
    BY <1>1, RestExists
  <2>2. L!Rest(who) = RestF[Len(queue)]
    BY DEF L!Rest, IsRest, KeptAt
  <2> HIDE DEF RestF
  <2> QED BY <2>1, <2>2
<1>3. q \in Seq(W) /\ Once(q) /\ IsRest(F, q, who, Len(q)) /\ n \in 0..Len(q)
  BY <1>1, <1>2
<1>4. F[n] \in Seq(W) /\ Once(F[n]) /\ Members(F[n]) = {q[i] : i \in 1..n} \ who
  BY <1>3, RestKeeps
<1>5. {q[i] : i \in 1..n} = Members(queue)
  BY <1>2 DEF Members
<1> QED BY <1>2, <1>4, <1>5

-----------------------------------------------------------------------------
(* The limiter. *)

Recs ==
  [state : {"new", "queued", "going", "backoff", "unwinding", "dropped", "landed"}, kind : L!Kinds,
   generation : Nat, aborted : BOOLEAN, retry : Nat, wait : Nat]
Holders == [L!Keys -> Requests \cup {0}]
Opens == {"queued", "going", "backoff"}

\* The waiters of a queue q are the queued requests among rs, once each; the
\* slots used are the automatic requests in flight.
QueuedOf(rs) == {r \in Requests : rs[r].state = "queued"}
GoingOf(rs) == {r \in Requests : rs[r].state = "going" /\ L!Paced(rs[r].kind)}
Lined(q, rs) ==
  /\ q \in Seq(Requests) /\ Once(q) /\ Members(q) = QueuedOf(rs)
  /\ \A r \in QueuedOf(rs) : L!Paced(rs[r].kind)
SlotsTaken(used, rs) == used \in 0..MaxInFlight /\ used = Cardinality(GoingOf(rs))
Awaited(q, used, armed) == q # <<>> => used = MaxInFlight \/ armed # 0

\* A keyed request not aborted is under way, and is the one its key holds and
\* the one asked last, unless a refresh came since.
Heirs(rs, ks, ns, g) ==
  \A r \in Requests : rs[r].kind \in L!Keys /\ ~rs[r].aborted =>
    /\ rs[r].state \in Opens
    /\ rs[r].generation = g => ks[rs[r].kind] = r /\ ns[rs[r].kind] = r

LimiterInv ==
  /\ tokens \in Int /\ timer \in Nat /\ generation \in Nat
  /\ req \in [Requests -> Recs] /\ keyed \in Holders /\ newest \in Holders
  /\ Lined(queue, req) /\ SlotsTaken(inFlight, req) /\ Awaited(queue, inFlight, timer)
  /\ Heirs(req, keyed, newest, generation)

LEMMA SameCount == \A W : L!Cardinality(W) = Cardinality(W)
BY DEF L!Cardinality, Cardinality

LEMMA GoingAreFinite ==
  ASSUME L!LimiterConstants
  PROVE  \A rs : IsFiniteSet(GoingOf(rs)) /\ Cardinality(GoingOf(rs)) \in Nat
<1>1. IsFiniteSet(Requests)
  BY DEF L!LimiterConstants, L!IsFiniteSet, IsFiniteSet
<1>2. \A rs : GoingOf(rs) \subseteq Requests
  BY DEF GoingOf
<1> QED BY <1>1, <1>2, FS_Subset, FS_CardinalityType

LEMMA LimiterStart == ASSUME L!LimiterConstants, L!LimiterInit PROVE LimiterInv
<1>1. L!New \in Recs /\ L!New.state = "new" /\ L!New.kind = "background"
  BY DEF L!New, Recs, L!Kinds
<1>2. req \in [Requests -> Recs] /\ \A r \in Requests : req[r].state = "new" /\ req[r].kind = "background"
  BY <1>1 DEF L!LimiterInit
<1>3. GoingOf(req) = {} /\ QueuedOf(req) = {}
  BY <1>2 DEF GoingOf, QueuedOf
<1>4. SlotsTaken(inFlight, req)
  <2>1. Cardinality(GoingOf(req)) = 0 /\ inFlight = 0
    BY <1>3, FS_EmptySet DEF L!LimiterInit
  <2> QED BY <2>1 DEF SlotsTaken, L!LimiterConstants
<1>5. Lined(queue, req) /\ Awaited(queue, inFlight, timer)
  BY <1>3 DEF L!LimiterInit, Lined, Once, Members, Awaited
<1>6. Heirs(req, keyed, newest, generation)
  BY <1>2 DEF Heirs, L!Keys
<1>7. keyed \in Holders /\ newest \in Holders /\ tokens \in Int /\ timer \in Nat /\ generation \in Nat
  BY DEF L!LimiterInit, L!LimiterConstants, Holders, L!NoKeys, L!None
<1> QED BY <1>2, <1>4, <1>5, <1>6, <1>7 DEF LimiterInv

\* What pump does to the requests rs, with the waiters q, `used` slots taken
\* and `have` tokens: it moves the first waiters on, no more than there are
\* slots, and leaves none without something that will wake it.
PumpsWell(q, used, have, armed, rs) ==
  /\ have \in Int /\ armed \in Nat /\ rs \in [Requests -> Recs]
  /\ Lined(q, rs) /\ SlotsTaken(used, rs) /\ L!Pump(q, used, have, armed, rs)
HasPumped(rs) ==
  /\ Lined(queue', req') /\ SlotsTaken(inFlight', req') /\ Awaited(queue', inFlight', timer')
  /\ tokens' \in Int /\ timer' \in Nat /\ req' \in [Requests -> Recs]
  /\ \A r \in Requests : req'[r] = rs[r] \/ (rs[r].state = "queued" /\ req'[r] = [rs[r] EXCEPT !.state = "going"])

LEMMA Pumped ==
  ASSUME L!LimiterConstants, NEW q, NEW used, NEW have, NEW armed, NEW rs, PumpsWell(q, used, have, armed, rs)
  PROVE  HasPumped(rs)
<1> SUFFICES ASSUME have \in Int, armed \in Nat, rs \in [Requests -> Recs],
                    Lined(q, rs), SlotsTaken(used, rs), L!Pump(q, used, have, armed, rs)
             PROVE  /\ Lined(queue', req') /\ SlotsTaken(inFlight', req') /\ Awaited(queue', inFlight', timer')
                    /\ tokens' \in Int /\ timer' \in Nat /\ req' \in [Requests -> Recs]
                    /\ \A r \in Requests : req'[r] = rs[r] \/ (rs[r].state = "queued" /\ req'[r] = [rs[r] EXCEPT !.state = "going"])
  BY DEF PumpsWell, HasPumped
<1> DEFINE free == MaxInFlight - used
           most == L!Lesser(free, IF have < 0 THEN 0 ELSE have)
           n == L!Lesser(Len(q), most)
           go == L!Granted(q, free, have)
           left == SubSeq(q, n + 1, Len(q))
<1>1. /\ q \in Seq(Requests) /\ Len(q) \in Nat /\ DOMAIN q = 1..Len(q) /\ used \in 0..MaxInFlight /\ MaxInFlight \in Nat
  BY DEF Lined, SlotsTaken, L!LimiterConstants
<1>2. free \in Nat /\ most \in Nat /\ most <= free /\ n \in Nat /\ n <= most /\ n <= Len(q) /\ n <= free
      /\ (n < Len(q) /\ n < free => have - n < 1)
  BY <1>1 DEF L!Lesser
<1>3. go = SubSeq(q, 1, n)
  BY DEF L!Granted
<1> HIDE DEF n, most, free
<1>4. go \in Seq(Requests) /\ Len(go) = n /\ \A i \in 1..n : go[i] = q[i]
  BY <1>1, <1>2, <1>3
<1>5. left \in Seq(Requests) /\ Len(left) = Len(q) - n /\ \A i \in 1..(Len(q) - n) : left[i] = q[n + i]
  <2>1. n + 1 \in 1..(Len(q) + 1) /\ Len(q) \in (n + 1) - 1..Len(q)
    BY <1>1, <1>2
  <2>2. left = [i \in 1..(Len(q) - n) |-> q[n + i]]
    <3>1. Len(q) - (n + 1) + 1 = Len(q) - n /\ \A i \in 1..(Len(q) - n) : i + (n + 1) - 1 = n + i
      BY <1>1, <1>2
    <3> QED BY <1>1, <1>2, <2>1, <3>1
  <2>3. \A i \in 1..(Len(q) - n) : n + i \in 1..Len(q)
    BY <1>1, <1>2
  <2>4. \A i \in 1..(Len(q) - n) : q[n + i] \in Requests
    BY <1>1, <2>3
  <2>5. Len(q) - n \in Nat
    BY <1>1, <1>2
  <2> HIDE DEF left
  <2> QED BY <2>2, <2>4, <2>5
<1> HIDE DEF go, left
<1>6. /\ queue' = left /\ inFlight' = used + n /\ tokens' = have - n
      /\ timer' = IF left # <<>> /\ used + n < MaxInFlight /\ have - n < 1 /\ armed = 0 THEN 2 - (have - n) ELSE armed
      /\ req' = [r \in Requests |-> IF r \in L!Range(go) THEN [rs[r] EXCEPT !.state = "going"] ELSE rs[r]]
  BY <1>4 DEF L!Pump, L!None, go, left, free
<1> DEFINE gone == Members(go)
<1>7. L!Range(go) = gone /\ gone = {q[i] : i \in 1..n} /\ gone \subseteq QueuedOf(rs) /\ Members(left) = QueuedOf(rs) \ gone
  <2>1. L!Range(go) = gone
    BY DEF L!Range, Members
  <2>2. gone = {q[i] : i \in 1..n}
    BY <1>2, <1>4 DEF Members
  <2>3. QueuedOf(rs) = {q[i] : i \in 1..Len(q)}
    BY <1>1 DEF Lined, Members
  <2>4. 1..n \subseteq 1..Len(q)
    BY <1>1, <1>2
  <2>5. Members(left) = {q[n + i] : i \in 1..(Len(q) - n)}
    <3>1. DOMAIN left = 1..(Len(q) - n)
      BY <1>5
    <3> QED BY <1>5, <3>1 DEF Members
  <2>6. Members(left) = {q[j] : j \in (n + 1)..Len(q)}
    <3>1. \A i \in 1..(Len(q) - n) : n + i \in (n + 1)..Len(q)
      BY <1>1, <1>2
    <3>2. \A j \in (n + 1)..Len(q) : j - n \in 1..(Len(q) - n) /\ n + (j - n) = j
      BY <1>1, <1>2
    <3> QED BY <2>5, <3>1, <3>2
  <2>7. \A i \in 1..n, j \in (n + 1)..Len(q) : q[i] # q[j]
    <3>1. \A i \in 1..n, j \in (n + 1)..Len(q) : i \in 1..Len(q) /\ j \in 1..Len(q) /\ i # j
      BY <1>1, <1>2
    <3> QED BY <1>1, <3>1 DEF Lined, Once
  <2>8. \A j \in 1..Len(q) : j \in 1..n \/ j \in (n + 1)..Len(q)
    BY <1>1, <1>2
  <2>9. (n + 1)..Len(q) \subseteq 1..Len(q)
    BY <1>1, <1>2
  <2> HIDE DEF gone
  <2> QED BY <2>1, <2>2, <2>3, <2>4, <2>6, <2>7, <2>8, <2>9
<1>8. /\ req' \in [Requests -> Recs]
      /\ \A r \in Requests : req'[r] = IF r \in gone THEN [rs[r] EXCEPT !.state = "going"] ELSE rs[r]
  <2>1. \A r \in Requests : [rs[r] EXCEPT !.state = "going"] \in Recs
    BY DEF Recs
  <2> HIDE DEF gone
  <2> QED BY <1>6, <1>7, <2>1
<1>9. \A r \in Requests : /\ req'[r].kind = rs[r].kind
                          /\ req'[r].state = IF r \in gone THEN "going" ELSE rs[r].state
  <2> HIDE DEF gone
  <2> QED BY <1>8 DEF Recs
<1>10. QueuedOf(req') = QueuedOf(rs) \ gone /\ GoingOf(req') = GoingOf(rs) \cup gone /\ GoingOf(rs) \cap gone = {}
  <2>1. gone \subseteq Requests /\ \A r \in gone : L!Paced(rs[r].kind) /\ rs[r].state = "queued"
    BY <1>7 DEF Lined, QueuedOf
  <2> HIDE DEF gone
  <2> QED BY <1>9, <2>1 DEF QueuedOf, GoingOf
<1>11. Lined(queue', req')
  <2>1. Once(left)
    <3>1. ASSUME NEW i \in 1..(Len(q) - n), NEW j \in 1..(Len(q) - n), left[i] = left[j] PROVE i = j
      <4>1. n + i \in 1..Len(q) /\ n + j \in 1..Len(q) /\ q[n + i] = q[n + j]
        BY <1>1, <1>2, <1>5, <3>1
      <4> QED BY <1>1, <1>2, <4>1 DEF Lined, Once
    <3>2. DOMAIN left = 1..(Len(q) - n)
      BY <1>5
    <3> QED BY <3>1, <3>2 DEF Once
  <2>2. \A r \in QueuedOf(req') : L!Paced(req'[r].kind)
    BY <1>9, <1>10 DEF Lined, QueuedOf
  <2> QED BY <1>5, <1>6, <1>7, <1>10, <2>1, <2>2 DEF Lined
<1>12. SlotsTaken(inFlight', req')
  <2>1. IsFiniteSet(GoingOf(rs)) /\ Cardinality(GoingOf(rs)) = used
    BY GoingAreFinite DEF SlotsTaken
  <2>2. IsFiniteSet(gone) /\ Cardinality(gone) = n
    <3> DEFINE at == [i \in 1..n |-> q[i]]
    <3>1. at \in [1..n -> gone]
      BY <1>7
    <3>2. \A i, j \in 1..n : at[i] = at[j] => i = j
      <4>1. \A i \in 1..n : i \in DOMAIN q
        BY <1>1, <1>2
      <4> QED BY <4>1 DEF Lined, Once
    <3>3. \A x \in gone : \E i \in 1..n : at[i] = x
      BY <1>7
    <3> HIDE DEF at, gone
    <3>4. at \in Bijection(1..n, gone)
      BY <3>1, <3>2, <3>3 DEF Bijection, Injection, Surjection, IsInjective
    <3>5. IsFiniteSet(1..n) /\ Cardinality(1..n) = n
      <4>1. n \in Int /\ 1 \in Int /\ (1 > n => n = 0) /\ n - 1 + 1 = n
        BY <1>2
      <4> QED BY <4>1, FS_Interval
    <3>6. ExistsBijection(1..n, gone)
      BY <3>4 DEF ExistsBijection
    <3> QED BY <3>5, <3>6, FS_Bijection
  <2>3. Cardinality(GoingOf(req')) = used + n
    <3>1. Cardinality(GoingOf(rs) \cap gone) = 0
      BY <1>10, FS_EmptySet
    <3> HIDE DEF gone
    <3>2. Cardinality(GoingOf(rs) \cup gone) = Cardinality(GoingOf(rs)) + Cardinality(gone) - Cardinality(GoingOf(rs) \cap gone)
      BY <2>1, <2>2, FS_Union
    <3> QED BY <1>1, <1>2, <1>10, <2>1, <2>2, <3>1, <3>2
  <2>4. used + n \in 0..MaxInFlight
    BY <1>1, <1>2 DEF free
  <2> QED BY <1>6, <2>3, <2>4 DEF SlotsTaken
<1>13. Awaited(queue', inFlight', timer') /\ tokens' \in Int /\ timer' \in Nat
  <2>1. tokens' \in Int /\ timer' \in Nat
    BY <1>2, <1>6
  <2>2. left # <<>> /\ used + n # MaxInFlight => timer' # 0
    <3>1. left # <<>> => n < Len(q)
      BY <1>1, <1>2, <1>5
    <3>2. used + n # MaxInFlight => n < free /\ used + n < MaxInFlight
      BY <1>1, <1>2 DEF free
    <3> QED BY <1>1, <1>2, <1>6, <3>1, <3>2
  <2> QED BY <1>6, <2>1, <2>2 DEF Awaited
<1> QED BY <1>7, <1>8, <1>11, <1>12, <1>13 DEF QueuedOf

\* A request goes to the limiter: rec, as it is described, for r among rs.
LEMMA Acquired ==
  ASSUME L!LimiterConstants, LimiterInv, NEW r \in Requests, NEW q, NEW rs \in [Requests -> Recs], NEW rec \in Recs,
         Lined(q, rs), SlotsTaken(inFlight, rs), Awaited(q, inFlight, timer),
         r \notin QueuedOf(rs), r \notin GoingOf(rs), L!Acquire(r, rec, q, rs)
  PROVE  /\ Lined(queue', req') /\ SlotsTaken(inFlight', req') /\ Awaited(queue', inFlight', timer')
         /\ tokens' \in Int /\ timer' \in Nat /\ req' \in [Requests -> Recs]
         /\ req'[r].state \in {"queued", "going"} /\ req'[r].kind = rec.kind
         /\ req'[r].aborted = rec.aborted /\ req'[r].generation = rec.generation
         /\ \A p \in Requests \ {r} : req'[p] = rs[p] \/ (rs[p].state = "queued" /\ req'[p] = [rs[p] EXCEPT !.state = "going"])
<1>1. tokens \in Int /\ timer \in Nat /\ inFlight \in 0..MaxInFlight /\ q \in Seq(Requests)
  BY DEF LimiterInv, Lined, SlotsTaken
<1>2. CASE L!Paced(rec.kind)
  <2> DEFINE line == Append(q, r)
             waits == [rec EXCEPT !.state = "queued"]
             rs2 == [rs EXCEPT ![r] = waits]
  <2>1. L!Pump(line, inFlight, tokens, timer, rs2)
    BY <1>2 DEF L!Acquire
  <2>2. /\ waits \in Recs /\ waits.state = "queued" /\ waits.kind = rec.kind /\ waits.aborted = rec.aborted
        /\ waits.generation = rec.generation
    BY DEF Recs
  <2> HIDE DEF waits
  <2>3. rs2 \in [Requests -> Recs] /\ rs2[r] = waits /\ \A p \in Requests \ {r} : rs2[p] = rs[p]
    BY <2>2
  <2>4. /\ line \in Seq(Requests) /\ DOMAIN line = 1..(Len(q) + 1) /\ line[Len(q) + 1] = r /\ Len(q) \in Nat
        /\ DOMAIN q = 1..Len(q) /\ \A i \in 1..Len(q) : line[i] = q[i]
    BY <1>1
  <2> HIDE DEF line, rs2
  <2>5. QueuedOf(rs2) = QueuedOf(rs) \cup {r} /\ GoingOf(rs2) = GoingOf(rs)
    BY <2>2, <2>3 DEF QueuedOf, GoingOf
  <2>6. Members(line) = Members(q) \cup {r}
    BY <2>4 DEF Members
  <2>7. Once(line)
    <3>1. \A i \in 1..Len(q) : q[i] # r
      BY <2>4 DEF Lined, Members
    <3> QED BY <2>4, <3>1 DEF Lined, Once
  <2>8. \A p \in QueuedOf(rs2) : L!Paced(rs2[p].kind)
    BY <1>2, <2>2, <2>3, <2>5 DEF Lined, QueuedOf
  <2>9. Lined(line, rs2) /\ SlotsTaken(inFlight, rs2)
    BY <2>4, <2>5, <2>6, <2>7, <2>8 DEF Lined, SlotsTaken
  <2>10. /\ Lined(queue', req') /\ SlotsTaken(inFlight', req') /\ Awaited(queue', inFlight', timer')
         /\ tokens' \in Int /\ timer' \in Nat /\ req' \in [Requests -> Recs]
         /\ \A p \in Requests : req'[p] = rs2[p] \/ (rs2[p].state = "queued" /\ req'[p] = [rs2[p] EXCEPT !.state = "going"])
    <3>1. tokens \in Int /\ timer \in Nat /\ rs2 \in [Requests -> Recs]
      BY <1>1, <2>3
    <3>2. PumpsWell(line, inFlight, tokens, timer, rs2)
      BY <2>1, <2>9, <3>1 DEF PumpsWell
    <3> QED BY <3>2, Pumped DEF HasPumped
  <2>11. /\ req'[r].state \in {"queued", "going"} /\ req'[r].kind = rec.kind
         /\ req'[r].aborted = rec.aborted /\ req'[r].generation = rec.generation
    <3>1. req'[r] = waits \/ req'[r] = [waits EXCEPT !.state = "going"]
      BY <2>3, <2>10
    <3> QED BY <2>2, <3>1 DEF Recs
  <2> QED BY <2>3, <2>10, <2>11
<1>3. CASE ~L!Paced(rec.kind)
  <2> DEFINE goes == [rec EXCEPT !.state = "going"]
  <2>1. /\ tokens' = IF tokens - 1 < -Burst THEN -Burst ELSE tokens - 1
        /\ req' = [rs EXCEPT ![r] = goes] /\ queue' = q /\ inFlight' = inFlight /\ timer' = timer
    BY <1>3 DEF L!Acquire
  <2>2. /\ goes \in Recs /\ goes.state = "going" /\ goes.kind = rec.kind /\ goes.aborted = rec.aborted
        /\ goes.generation = rec.generation
    BY DEF Recs
  <2> HIDE DEF goes
  <2>3. req' \in [Requests -> Recs] /\ req'[r] = goes /\ \A p \in Requests \ {r} : req'[p] = rs[p]
    BY <2>1, <2>2
  <2>4. tokens' \in Int
    BY <1>1, <2>1 DEF L!LimiterConstants
  <2>5. QueuedOf(req') = QueuedOf(rs) /\ GoingOf(req') = GoingOf(rs)
    BY <1>3, <2>2, <2>3 DEF QueuedOf, GoingOf
  <2>6. Lined(queue', req')
    <3>1. \A p \in QueuedOf(rs) : req'[p] = rs[p]
      BY <2>3 DEF QueuedOf
    <3> QED BY <2>1, <2>5, <3>1 DEF Lined
  <2> QED BY <1>1, <2>1, <2>2, <2>3, <2>4, <2>5, <2>6 DEF SlotsTaken, Awaited
<1> QED BY <1>2, <1>3

\* Requests aborted: the waiters among them leave the queue, and the rest is
\* as it was.
LEMMA AbortKeeps ==
  ASSUME L!LimiterConstants, LimiterInv, NEW who
  PROVE  LET rs == L!Aborted(req, who) IN
         /\ rs \in [Requests -> Recs] /\ Lined(L!Rest(who), rs) /\ SlotsTaken(inFlight, rs)
         /\ Awaited(L!Rest(who), inFlight, timer)
         /\ \A r \in Requests : /\ rs[r].kind = req[r].kind /\ rs[r].generation = req[r].generation
                                /\ r \notin who => rs[r] = req[r]
                                /\ rs[r].aborted = (req[r].aborted \/ (r \in who /\ req[r].state \in Opens))
                                /\ req[r].state \notin Opens => rs[r] = req[r]
                                /\ rs[r].state = IF r \in who /\ req[r].state \in {"queued", "backoff"}
                                                 THEN "unwinding" ELSE req[r].state
<1> DEFINE rs == L!Aborted(req, who)
           after(r) == [req[r] EXCEPT !.aborted = TRUE, !.wait = 0, !.state = IF @ = "going" THEN "going" ELSE "unwinding"]
<1>1. req \in [Requests -> Recs] /\ Lined(queue, req) /\ SlotsTaken(inFlight, req) /\ Awaited(queue, inFlight, timer)
  BY DEF LimiterInv
<1>2. \A r \in Requests : /\ after(r) \in Recs /\ after(r).aborted /\ after(r).kind = req[r].kind
                          /\ after(r).generation = req[r].generation
                          /\ after(r).state = IF req[r].state = "going" THEN "going" ELSE "unwinding"
  BY <1>1 DEF Recs
<1>3. rs = [r \in Requests |-> IF r \in who /\ L!Open(r) THEN after(r) ELSE req[r]]
  BY DEF L!Aborted
<1>4. \A r \in Requests : L!Open(r) <=> req[r].state \in Opens
  BY DEF L!Open, Opens
<1> HIDE DEF rs, after
<1>5. rs \in [Requests -> Recs] /\ \A r \in Requests : rs[r] = IF r \in who /\ req[r].state \in Opens THEN after(r) ELSE req[r]
  BY <1>1, <1>2, <1>3, <1>4
<1>6. \A r \in Requests : /\ rs[r].kind = req[r].kind /\ rs[r].generation = req[r].generation
                          /\ r \notin who => rs[r] = req[r]
                          /\ rs[r].aborted = (req[r].aborted \/ (r \in who /\ req[r].state \in Opens))
                          /\ req[r].state \notin Opens => rs[r] = req[r]
                          /\ rs[r].state = IF r \in who /\ req[r].state \in {"queued", "backoff"}
                                           THEN "unwinding" ELSE req[r].state
  BY <1>1, <1>2, <1>5 DEF Opens, Recs
<1>7. QueuedOf(rs) = QueuedOf(req) \ who /\ GoingOf(rs) = GoingOf(req)
  BY <1>6 DEF QueuedOf, GoingOf
<1>8. L!Rest(who) \in Seq(Requests) /\ Once(L!Rest(who)) /\ Members(L!Rest(who)) = Members(queue) \ who
  BY <1>1, RestIs DEF Lined
<1>9. Lined(L!Rest(who), rs) /\ SlotsTaken(inFlight, rs)
  <2>1. \A r \in QueuedOf(rs) : L!Paced(rs[r].kind)
    <3>1. ASSUME NEW r \in QueuedOf(rs) PROVE L!Paced(rs[r].kind)
      <4>1. r \in Requests /\ r \in QueuedOf(req)
        BY <1>7 DEF QueuedOf
      <4>2. L!Paced(req[r].kind)
        BY <1>1, <4>1 DEF Lined
      <4>3. rs[r].kind = req[r].kind
        BY <1>6, <4>1
      <4> QED BY <4>2, <4>3
    <3> QED BY <3>1
  <2>2. Lined(L!Rest(who), rs)
    BY <1>1, <1>7, <1>8, <2>1 DEF Lined
  <2>3. SlotsTaken(inFlight, rs)
    BY <1>1, <1>7 DEF SlotsTaken
  <2> QED BY <2>2, <2>3
<1>10. Awaited(L!Rest(who), inFlight, timer)
  <2>1. queue = <<>> => Members(queue) = {}
    BY DEF Members
  <2>2. \A s \in Seq(Requests) : Members(s) = {} => s = <<>>
    <3>1. \A s \in Seq(Requests) : s # <<>> => 1 \in DOMAIN s
      OBVIOUS
    <3> QED BY <3>1 DEF Members
  <2> QED BY <1>1, <1>8, <2>1, <2>2 DEF Awaited
<1> QED BY <1>5, <1>6, <1>9, <1>10 DEF rs

\* Moving waiters on disturbs no heir, and lands nothing.
GoesOn(rs, rs2) ==
  \A r \in Requests : rs2[r] = rs[r] \/ (rs[r].state = "queued" /\ rs2[r] = [rs[r] EXCEPT !.state = "going"])
LEMMA HeirsGoOn ==
  ASSUME NEW rs \in [Requests -> Recs], NEW rs2, GoesOn(rs, rs2), NEW r \in Requests
  PROVE  /\ rs2[r].kind = rs[r].kind /\ rs2[r].aborted = rs[r].aborted /\ rs2[r].generation = rs[r].generation
         /\ rs[r].state \in Opens => rs2[r].state \in Opens
         /\ rs2[r].state = "landed" => rs[r].state = "landed"
<1>1. CASE rs2[r] = rs[r]
  BY <1>1
<1>2. CASE rs[r].state = "queued" /\ rs2[r] = [rs[r] EXCEPT !.state = "going"]
  BY <1>2 DEF Recs, Opens
<1> QED BY <1>1, <1>2 DEF GoesOn

\* No request lands in the step.
NoneLands == \A r \in Requests : req'[r].state = "landed" => req[r].state = "landed"

LEMMA RunKeeps ==
  ASSUME L!LimiterConstants, LimiterInv, NEW r \in Requests, NEW kind \in L!Kinds, L!Run(r, kind)
  PROVE  LimiterInv' /\ NoneLands
<1> DEFINE rec == [req[r] EXCEPT !.kind = kind, !.generation = generation]
           before == IF kind \in L!Keys THEN {keyed[kind]} \ {0} ELSE {}
           rs == L!Aborted(req, before)
<1>1. /\ req[r].state = "new" /\ L!Acquire(r, rec, L!Rest(before), rs) /\ generation' = generation
      /\ keyed' = (IF kind \in L!Keys THEN [keyed EXCEPT ![kind] = r] ELSE keyed)
      /\ newest' = (IF kind \in L!Keys THEN [newest EXCEPT ![kind] = r] ELSE newest)
  BY DEF L!Run, L!None
<1>2. /\ req \in [Requests -> Recs] /\ keyed \in Holders /\ newest \in Holders /\ generation \in Nat
      /\ Heirs(req, keyed, newest, generation) /\ 0 \notin Requests
  BY DEF LimiterInv, L!LimiterConstants
<1>3. rec \in Recs /\ rec.kind = kind /\ rec.generation = generation
  BY <1>2 DEF Recs
<1>4. /\ rs \in [Requests -> Recs] /\ Lined(L!Rest(before), rs) /\ SlotsTaken(inFlight, rs)
      /\ Awaited(L!Rest(before), inFlight, timer)
      /\ \A p \in Requests : /\ rs[p].kind = req[p].kind /\ rs[p].generation = req[p].generation
                             /\ p \notin before => rs[p] = req[p]
                             /\ rs[p].aborted = (req[p].aborted \/ (p \in before /\ req[p].state \in Opens))
                             /\ req[p].state \notin Opens => rs[p] = req[p]
                             /\ rs[p].state = IF p \in before /\ req[p].state \in {"queued", "backoff"}
                                              THEN "unwinding" ELSE req[p].state
  BY AbortKeeps
<1>5. kind \in L!Keys => \A p \in Requests : keyed[kind] = p => p \in before
  BY <1>2
<1> HIDE DEF rs, rec, before
<1>6. r \notin QueuedOf(rs) /\ r \notin GoingOf(rs)
  <2>1. rs[r].state = "new"
    BY <1>1, <1>4 DEF Opens
  <2> QED BY <2>1 DEF QueuedOf, GoingOf
<1>7. /\ Lined(queue', req') /\ SlotsTaken(inFlight', req') /\ Awaited(queue', inFlight', timer')
      /\ tokens' \in Int /\ timer' \in Nat /\ req' \in [Requests -> Recs]
      /\ req'[r].state \in {"queued", "going"} /\ req'[r].kind = kind /\ req'[r].generation = generation
      /\ \A p \in Requests \ {r} : req'[p] = rs[p] \/ (rs[p].state = "queued" /\ req'[p] = [rs[p] EXCEPT !.state = "going"])
  BY <1>1, <1>3, <1>4, <1>6, Acquired
<1>8. /\ keyed' \in Holders /\ newest' \in Holders
      /\ kind \in L!Keys => keyed'[kind] = r /\ newest'[kind] = r
      /\ \A key \in L!Keys \ {kind} : keyed'[key] = keyed[key] /\ newest'[key] = newest[key]
  BY <1>1, <1>2 DEF Holders
<1>9. ASSUME NEW p \in Requests \ {r}
      PROVE  /\ req'[p].kind = req[p].kind /\ req'[p].aborted = rs[p].aborted /\ req'[p].generation = req[p].generation
             /\ rs[p].state \in Opens => req'[p].state \in Opens
             /\ req'[p].state = "landed" => req[p].state = "landed"
  <2>1. /\ req'[p].kind = rs[p].kind /\ req'[p].aborted = rs[p].aborted /\ req'[p].generation = rs[p].generation
        /\ rs[p].state \in Opens => req'[p].state \in Opens
        /\ req'[p].state = "landed" => rs[p].state = "landed"
    <3>1. CASE req'[p] = rs[p]
      BY <3>1
    <3>2. CASE rs[p].state = "queued" /\ req'[p] = [rs[p] EXCEPT !.state = "going"]
      BY <1>4, <3>2 DEF Recs, Opens
    <3> QED BY <1>7, <3>1, <3>2
  <2> QED BY <1>4, <2>1
<1>10. ASSUME NEW p \in Requests, req'[p].kind \in L!Keys, ~req'[p].aborted
       PROVE  /\ req'[p].state \in Opens
              /\ req'[p].generation = generation' => keyed'[req'[p].kind] = p /\ newest'[req'[p].kind] = p
  <2>1. CASE p = r
    BY <1>7, <1>8, <1>10, <2>1 DEF Opens
  <2>2. CASE p # r
    <3>1. req'[p].kind = req[p].kind /\ req'[p].generation = req[p].generation /\ ~rs[p].aborted
      BY <1>9, <1>10, <2>2
    <3>2. ~req[p].aborted /\ (req[p].state \in Opens => p \notin before)
      BY <1>4, <3>1
    <3>3. /\ req[p].state \in Opens
          /\ req[p].generation = generation => keyed[req[p].kind] = p /\ newest[req[p].kind] = p
      BY <1>2, <1>10, <3>1, <3>2 DEF Heirs
    <3>4. rs[p].state \in Opens
      BY <1>4, <3>2, <3>3
    <3>5. req[p].generation = generation => req[p].kind # kind
      BY <1>5, <1>10, <3>1, <3>2, <3>3
    <3> QED BY <1>1, <1>8, <1>9, <1>10, <2>2, <3>1, <3>3, <3>4, <3>5
  <2> QED BY <2>1, <2>2
<1>11. NoneLands
  BY <1>7, <1>9 DEF NoneLands
<1>12. generation' \in Nat /\ Heirs(req', keyed', newest', generation')
  BY <1>1, <1>2, <1>10 DEF Heirs
<1> QED BY <1>7, <1>8, <1>11, <1>12 DEF LimiterInv

LEMMA TriedAgainKeeps ==
  ASSUME L!LimiterConstants, LimiterInv, NEW r \in Requests, L!TriedAgain(r)
  PROVE  LimiterInv' /\ NoneLands
<1>1. /\ req \in [Requests -> Recs] /\ keyed \in Holders /\ newest \in Holders /\ generation \in Nat
      /\ Heirs(req, keyed, newest, generation) /\ Lined(queue, req) /\ SlotsTaken(inFlight, req)
      /\ Awaited(queue, inFlight, timer) /\ req[r] \in Recs
  BY DEF LimiterInv
<1>2. /\ req[r].state = "backoff" /\ L!Acquire(r, req[r], queue, req)
      /\ keyed' = keyed /\ newest' = newest /\ generation' = generation
  BY DEF L!TriedAgain
<1>3. r \notin QueuedOf(req) /\ r \notin GoingOf(req)
  BY <1>2 DEF QueuedOf, GoingOf
<1>4. /\ Lined(queue', req') /\ SlotsTaken(inFlight', req') /\ Awaited(queue', inFlight', timer')
      /\ tokens' \in Int /\ timer' \in Nat /\ req' \in [Requests -> Recs]
      /\ req'[r].state \in {"queued", "going"} /\ req'[r].kind = req[r].kind
      /\ req'[r].aborted = req[r].aborted /\ req'[r].generation = req[r].generation
      /\ \A p \in Requests \ {r} : req'[p] = req[p] \/ (req[p].state = "queued" /\ req'[p] = [req[p] EXCEPT !.state = "going"])
  BY <1>1, <1>2, <1>3, Acquired
<1>5. ASSUME NEW p \in Requests
      PROVE  /\ req'[p].kind = req[p].kind /\ req'[p].aborted = req[p].aborted /\ req'[p].generation = req[p].generation
             /\ req[p].state \in Opens => req'[p].state \in Opens
             /\ req'[p].state = "landed" => req[p].state = "landed"
  <2>1. CASE p = r
    BY <1>4, <2>1 DEF Opens
  <2>2. CASE p # r /\ req'[p] = req[p]
    BY <2>2
  <2>3. CASE p # r /\ req[p].state = "queued" /\ req'[p] = [req[p] EXCEPT !.state = "going"]
    BY <1>1, <2>3 DEF Recs, Opens
  <2> QED BY <1>4, <2>1, <2>2, <2>3
<1>6. NoneLands
  BY <1>5 DEF NoneLands
<1>7. Heirs(req', keyed', newest', generation')
  BY <1>1, <1>2, <1>5 DEF Heirs
<1> QED BY <1>1, <1>2, <1>4, <1>6, <1>7 DEF LimiterInv

LEMMA WakeKeeps ==
  ASSUME L!LimiterConstants, LimiterInv, L!Wake
  PROVE  LimiterInv' /\ NoneLands
<1>1. /\ req \in [Requests -> Recs] /\ keyed \in Holders /\ newest \in Holders /\ generation \in Nat /\ tokens \in Int
      /\ Heirs(req, keyed, newest, generation) /\ Lined(queue, req) /\ SlotsTaken(inFlight, req)
  BY DEF LimiterInv
<1>2. /\ L!Pump(queue, inFlight, tokens, 0, req) /\ keyed' = keyed /\ newest' = newest /\ generation' = generation
  BY DEF L!Wake, L!None
<1>3. /\ Lined(queue', req') /\ SlotsTaken(inFlight', req') /\ Awaited(queue', inFlight', timer')
      /\ tokens' \in Int /\ timer' \in Nat /\ req' \in [Requests -> Recs]
      /\ \A r \in Requests : req'[r] = req[r] \/ (req[r].state = "queued" /\ req'[r] = [req[r] EXCEPT !.state = "going"])
  <2>1. PICK armed \in Nat : armed = 0
    OBVIOUS
  <2>2. L!Pump(queue, inFlight, tokens, armed, req)
    BY <1>2, <2>1
  <2>3. PumpsWell(queue, inFlight, tokens, armed, req)
    BY <1>1, <2>2 DEF PumpsWell
  <2> QED BY <2>3, Pumped DEF HasPumped
<1>4. GoesOn(req, req')
  BY <1>3 DEF GoesOn
<1>5. \A r \in Requests : /\ req'[r].kind = req[r].kind /\ req'[r].aborted = req[r].aborted
                          /\ req'[r].generation = req[r].generation
                          /\ req[r].state \in Opens => req'[r].state \in Opens
                          /\ req'[r].state = "landed" => req[r].state = "landed"
  BY <1>1, <1>4, HeirsGoOn
<1> QED BY <1>1, <1>2, <1>3, <1>5 DEF LimiterInv, NoneLands, Heirs

LEMMA TickKeeps ==
  ASSUME L!LimiterConstants, LimiterInv, L!Tick
  PROVE  LimiterInv' /\ NoneLands
<1>1. /\ req \in [Requests -> Recs] /\ tokens \in Int /\ timer \in Nat
      /\ Lined(queue, req) /\ SlotsTaken(inFlight, req) /\ Awaited(queue, inFlight, timer)
      /\ Heirs(req, keyed, newest, generation)
  BY DEF LimiterInv
<1>2. /\ tokens' = L!Lesser(Burst, tokens + 1) /\ timer' = IF timer > 1 THEN timer - 1 ELSE timer
      /\ req' = [r \in Requests |-> [req[r] EXCEPT !.wait = IF @ > 0 THEN @ - 1 ELSE 0]]
      /\ UNCHANGED <<inFlight, queue, keyed, generation, newest>>
  BY DEF L!Tick
<1>3. tokens' \in Int /\ timer' \in Nat /\ (timer # 0 => timer' # 0)
  BY <1>1, <1>2 DEF L!Lesser, L!LimiterConstants
<1>4. ASSUME NEW r \in Requests
      PROVE  /\ req'[r] \in Recs /\ req'[r].state = req[r].state /\ req'[r].kind = req[r].kind
             /\ req'[r].aborted = req[r].aborted /\ req'[r].generation = req[r].generation
  BY <1>1, <1>2 DEF Recs
<1>5. req' \in [Requests -> Recs]
  BY <1>2, <1>4
<1>6. QueuedOf(req') = QueuedOf(req) /\ GoingOf(req') = GoingOf(req)
  BY <1>4 DEF QueuedOf, GoingOf
<1>7. Lined(queue', req')
  <2>1. \A r \in QueuedOf(req') : L!Paced(req'[r].kind)
    <3>1. ASSUME NEW r \in QueuedOf(req) PROVE L!Paced(req'[r].kind)
      <4>1. r \in Requests /\ L!Paced(req[r].kind)
        BY <1>1 DEF Lined, QueuedOf
      <4> QED BY <1>4, <4>1
    <3> QED BY <1>6, <3>1
  <2> QED BY <1>1, <1>2, <1>6, <2>1 DEF Lined
<1>8. SlotsTaken(inFlight', req') /\ Awaited(queue', inFlight', timer')
  BY <1>1, <1>2, <1>3, <1>6 DEF SlotsTaken, Awaited
<1>9. Heirs(req', keyed', newest', generation')
  BY <1>1, <1>2, <1>4 DEF Heirs
<1>10. keyed' \in Holders /\ newest' \in Holders /\ generation' \in Nat
  BY <1>2 DEF LimiterInv
<1>11. NoneLands
  BY <1>4 DEF NoneLands
<1> QED BY <1>3, <1>5, <1>7, <1>8, <1>9, <1>10, <1>11 DEF LimiterInv

\* Clear, a refresh and Cancel.
LEMMA DroppedKeeps ==
  ASSUME L!LimiterConstants, LimiterInv, NEW who, L!Dropped(who), NEW ks, NEW g \in Nat,
         (ks = keyed /\ g = generation) \/ (\A r \in Requests : req[r].kind \in L!Keys /\ req[r].state \in Opens => r \in who),
         ks \in Holders, keyed' = ks, generation' = g
  PROVE  LimiterInv' /\ NoneLands
<1> DEFINE rs == L!Aborted(req, who)
<1>1. req' = rs /\ queue' = L!Rest(who) /\ UNCHANGED <<tokens, inFlight, timer, newest>>
  BY DEF L!Dropped
<1>2. /\ rs \in [Requests -> Recs] /\ Lined(L!Rest(who), rs) /\ SlotsTaken(inFlight, rs)
      /\ Awaited(L!Rest(who), inFlight, timer)
      /\ \A r \in Requests : /\ rs[r].kind = req[r].kind /\ rs[r].generation = req[r].generation
                             /\ r \notin who => rs[r] = req[r]
                             /\ rs[r].aborted = (req[r].aborted \/ (r \in who /\ req[r].state \in Opens))
                             /\ req[r].state \notin Opens => rs[r] = req[r]
                             /\ rs[r].state = IF r \in who /\ req[r].state \in {"queued", "backoff"}
                                              THEN "unwinding" ELSE req[r].state
  BY AbortKeeps
<1> HIDE DEF rs
<1>3. Heirs(req, keyed, newest, generation)
  BY DEF LimiterInv
<1>4. ASSUME NEW r \in Requests, rs[r].kind \in L!Keys, ~rs[r].aborted
      PROVE  rs[r].state \in Opens /\ (rs[r].generation = g => ks[rs[r].kind] = r /\ newest[rs[r].kind] = r)
  <2>1. req[r].kind \in L!Keys /\ ~req[r].aborted /\ (req[r].state \in Opens => r \notin who)
    BY <1>2, <1>4
  <2>2. req[r].state \in Opens /\ (req[r].generation = generation => keyed[req[r].kind] = r /\ newest[req[r].kind] = r)
    BY <1>3, <2>1 DEF Heirs
  <2>3. rs[r] = req[r] /\ ks = keyed /\ g = generation
    BY <1>2, <2>1, <2>2
  <2> QED BY <2>2, <2>3
<1>5. Heirs(req', keyed', newest', generation')
  BY <1>1, <1>4 DEF Heirs
<1>6. NoneLands
  BY <1>1, <1>2 DEF NoneLands
<1>7. tokens' \in Int /\ timer' \in Nat /\ generation' \in Nat /\ keyed' \in Holders /\ newest' \in Holders
  BY <1>1 DEF LimiterInv
<1> QED BY <1>1, <1>2, <1>5, <1>6, <1>7 DEF LimiterInv

\* Request r, no waiter, becomes rec: it ends, and forgets itself, or it is to
\* be tried again.
LEMMA Replaced ==
  ASSUME LimiterInv, NEW r \in Requests, NEW rec \in Recs, NEW ks,
         req[r].state # "queued", rec.state \notin {"queued", "going"},
         \/ rec.kind = "background" /\ ks = [key \in L!Keys |-> IF keyed[key] = r THEN 0 ELSE keyed[key]]
         \/ /\ ks = keyed /\ rec.state = "backoff" /\ rec.kind = req[r].kind
            /\ rec.generation = req[r].generation /\ (rec.aborted <=> req[r].aborted)
  PROVE  LET rs == [req EXCEPT ![r] = rec] IN
         /\ rs \in [Requests -> Recs] /\ rs[r] = rec /\ \A p \in Requests \ {r} : rs[p] = req[p]
         /\ Lined(queue, rs) /\ GoingOf(rs) = GoingOf(req) \ {r}
         /\ ks \in Holders /\ Heirs(rs, ks, newest, generation)
<1> DEFINE rs == [req EXCEPT ![r] = rec]
<1>1. /\ req \in [Requests -> Recs] /\ keyed \in Holders /\ Lined(queue, req) /\ Heirs(req, keyed, newest, generation)
  BY DEF LimiterInv
<1>2. rs \in [Requests -> Recs] /\ rs[r] = rec /\ \A p \in Requests \ {r} : rs[p] = req[p]
  BY <1>1
<1> HIDE DEF rs
<1>3. QueuedOf(rs) = QueuedOf(req) /\ r \notin QueuedOf(req) /\ GoingOf(rs) = GoingOf(req) \ {r}
  BY <1>2 DEF QueuedOf, GoingOf
<1>4. Lined(queue, rs)
  <2>1. ASSUME NEW p \in QueuedOf(req) PROVE L!Paced(rs[p].kind)
    <3>1. p \in Requests \ {r} /\ L!Paced(req[p].kind)
      BY <1>1, <1>3 DEF Lined, QueuedOf
    <3> QED BY <1>2, <3>1
  <2> QED BY <1>1, <1>3, <2>1 DEF Lined
<1>5. ks \in Holders /\ \A key \in L!Keys : keyed[key] # r => ks[key] = keyed[key]
  BY <1>1 DEF Holders
<1>6. ASSUME NEW p \in Requests, rs[p].kind \in L!Keys, ~rs[p].aborted
      PROVE  rs[p].state \in Opens /\ (rs[p].generation = generation => ks[rs[p].kind] = p /\ newest[rs[p].kind] = p)
  <2>1. CASE p # r
    <3>1. rs[p] = req[p]
      BY <1>2, <2>1
    <3>2. req[p].state \in Opens /\ (req[p].generation = generation => keyed[req[p].kind] = p /\ newest[req[p].kind] = p)
      BY <1>1, <1>6, <3>1 DEF Heirs
    <3> QED BY <1>5, <1>6, <2>1, <3>1, <3>2
  <2>2. CASE p = r
    <3>1. "background" \notin L!Keys
      BY DEF L!Keys
    <3>2. /\ ks = keyed /\ rec.state = "backoff" /\ rec.kind = req[r].kind
          /\ rec.generation = req[r].generation /\ ~req[r].aborted
      BY <1>2, <1>6, <2>2, <3>1
    <3>3. req[r].generation = generation => keyed[req[r].kind] = r /\ newest[req[r].kind] = r
      BY <1>1, <1>2, <1>6, <2>2, <3>2 DEF Heirs
    <3> QED BY <1>2, <2>2, <3>2, <3>3 DEF Opens
  <2> QED BY <2>1, <2>2
<1>7. Heirs(rs, ks, newest, generation)
  BY <1>6 DEF Heirs
<1> QED BY <1>2, <1>3, <1>4, <1>5, <1>7 DEF rs

LEMMA EndedIs ==
  ASSUME NEW outcome \in {"dropped", "landed"}
  PROVE  L!Ended(outcome) \in Recs /\ L!Ended(outcome).state = outcome /\ L!Ended(outcome).kind = "background"
BY DEF L!Ended, L!New, Recs, L!Kinds

LEMMA UnwoundKeeps ==
  ASSUME L!LimiterConstants, LimiterInv, NEW r \in Requests, L!Unwound(r)
  PROVE  LimiterInv' /\ NoneLands
<1> DEFINE rec == L!Ended("dropped")
           rs == [req EXCEPT ![r] = rec]
<1>1. /\ req[r].state = "unwinding" /\ req' = rs
      /\ keyed' = [key \in L!Keys |-> IF keyed[key] = r THEN 0 ELSE keyed[key]]
      /\ UNCHANGED <<tokens, inFlight, queue, timer, generation, newest>>
  BY DEF L!Unwound, L!Forgets, L!limiter, L!None
<1>2. rec \in Recs /\ rec.state = "dropped" /\ rec.kind = "background"
  BY EndedIs
<1> HIDE DEF rec
<1>3. /\ rs \in [Requests -> Recs] /\ rs[r] = rec /\ \A p \in Requests \ {r} : rs[p] = req[p]
      /\ Lined(queue, rs) /\ GoingOf(rs) = GoingOf(req) \ {r}
      /\ keyed' \in Holders /\ Heirs(rs, keyed', newest, generation)
  BY <1>1, <1>2, Replaced
<1> HIDE DEF rs
<1>4. r \notin GoingOf(req)
  BY <1>1 DEF GoingOf
<1>5. SlotsTaken(inFlight', req') /\ Awaited(queue', inFlight', timer')
  BY <1>1, <1>3, <1>4 DEF LimiterInv, SlotsTaken, Awaited
<1>6. NoneLands
  BY <1>1, <1>2, <1>3 DEF NoneLands
<1>7. tokens' \in Int /\ timer' \in Nat /\ generation' \in Nat /\ newest' \in Holders
  BY <1>1 DEF LimiterInv
<1> QED BY <1>1, <1>3, <1>5, <1>6, <1>7 DEF LimiterInv

\* What lands was not aborted, and unless it is the query dock's it is of
\* this generation.
LandsNow ==
  \A r \in Requests : req[r].state # "landed" /\ req'[r].state = "landed" =>
    ~req[r].aborted /\ (req[r].kind # "dock" => req[r].generation = generation)

LEMMA AnsweredKeeps ==
  ASSUME L!LimiterConstants, LimiterInv, NEW r \in Requests, L!Answered(r)
  PROVE  LimiterInv' /\ LandsNow
<1>1. PICK limited \in BOOLEAN :
        LET again == limited /\ req[r].retry < Len(Delays) /\ ~req[r].aborted
            rec == IF again THEN [req[r] EXCEPT !.state = "backoff", !.wait = Delays[req[r].retry + 1], !.retry = @ + 1]
                   ELSE L!Ended(L!Outcome(r))
            rs == [req EXCEPT ![r] = rec]
        IN /\ IF again THEN UNCHANGED <<keyed, busy>> ELSE L!Forgets(r)
           /\ IF L!Paced(req[r].kind) THEN L!Pump(queue, inFlight - 1, tokens, timer, rs)
              ELSE req' = rs /\ UNCHANGED L!limiter
  BY DEF L!Answered
<1> DEFINE again == limited /\ req[r].retry < Len(Delays) /\ ~req[r].aborted
           waits == [req[r] EXCEPT !.state = "backoff", !.wait = Delays[req[r].retry + 1], !.retry = @ + 1]
           ends == L!Ended(L!Outcome(r))
           rec == IF again THEN waits ELSE ends
           rs == [req EXCEPT ![r] = rec]
<1>2. /\ req[r].state = "going" /\ generation' = generation /\ newest' = newest
      /\ IF again THEN keyed' = keyed ELSE keyed' = [key \in L!Keys |-> IF keyed[key] = r THEN 0 ELSE keyed[key]]
      /\ IF L!Paced(req[r].kind) THEN L!Pump(queue, inFlight - 1, tokens, timer, rs)
         ELSE req' = rs /\ UNCHANGED <<tokens, inFlight, queue, timer>>
  BY <1>1 DEF L!Answered, L!Forgets, L!None, L!limiter
<1>3. /\ req[r] \in Recs /\ tokens \in Int /\ timer \in Nat /\ generation \in Nat /\ newest \in Holders
      /\ SlotsTaken(inFlight, req) /\ Awaited(queue, inFlight, timer) /\ req \in [Requests -> Recs]
  BY DEF LimiterInv
<1>4. again => /\ waits \in Recs /\ waits.state = "backoff" /\ waits.kind = req[r].kind
               /\ waits.generation = req[r].generation /\ (waits.aborted <=> req[r].aborted)
  <2>1. SUFFICES ASSUME again
                 PROVE  /\ waits \in Recs /\ waits.state = "backoff" /\ waits.kind = req[r].kind
                        /\ waits.generation = req[r].generation /\ (waits.aborted <=> req[r].aborted)
    OBVIOUS
  <2>2. Delays[req[r].retry + 1] \in Nat
    <3>1. req[r].retry \in Nat
      BY <1>3 DEF Recs
    <3>2. Delays \in Seq(Nat)
      BY DEF L!LimiterConstants
    <3> QED BY <2>1, <3>1, <3>2
  <2>3. req[r].retry + 1 \in Nat
    BY <1>3 DEF Recs
  <2> QED BY <1>3, <2>2, <2>3 DEF Recs
<1>5. /\ ends \in Recs /\ ends.state \in {"dropped", "landed"} /\ ends.kind = "background"
      /\ ends.state = "landed" => ~req[r].aborted /\ (req[r].kind # "dock" => req[r].generation = generation)
  <2>1. /\ L!Outcome(r) \in {"dropped", "landed"}
        /\ L!Outcome(r) = "landed" => ~req[r].aborted /\ (req[r].kind # "dock" => req[r].generation = generation)
    BY DEF L!Outcome
  <2> QED BY <2>1, EndedIs
<1> HIDE DEF waits, ends
<1>6. /\ rec \in Recs /\ rec.state \notin {"queued", "going"}
      /\ rec.state = "landed" => ~req[r].aborted /\ (req[r].kind # "dock" => req[r].generation = generation)
      /\ \/ rec.kind = "background" /\ keyed' = [key \in L!Keys |-> IF keyed[key] = r THEN 0 ELSE keyed[key]]
         \/ /\ keyed' = keyed /\ rec.state = "backoff" /\ rec.kind = req[r].kind
            /\ rec.generation = req[r].generation /\ (rec.aborted <=> req[r].aborted)
  <2>1. CASE again
    BY <1>2, <1>4, <2>1
  <2>2. CASE ~again
    BY <1>2, <1>5, <2>2
  <2> QED BY <2>1, <2>2
<1> HIDE DEF again, rec
<1>7. /\ rs \in [Requests -> Recs] /\ rs[r] = rec /\ \A p \in Requests \ {r} : rs[p] = req[p]
      /\ Lined(queue, rs) /\ GoingOf(rs) = GoingOf(req) \ {r}
      /\ keyed' \in Holders /\ Heirs(rs, keyed', newest, generation)
  BY <1>2, <1>6, Replaced
<1> HIDE DEF rs
<1>8. \A p \in Requests : rs[p].state = "landed" /\ req[p].state # "landed" =>
        ~req[p].aborted /\ (req[p].kind # "dock" => req[p].generation = generation)
  BY <1>6, <1>7
<1>9. CASE L!Paced(req[r].kind)
  <2>1. SlotsTaken(inFlight - 1, rs)
    <3>1. r \in GoingOf(req) /\ IsFiniteSet(GoingOf(req))
      BY <1>2, <1>9, GoingAreFinite DEF GoingOf
    <3>2. Cardinality(GoingOf(req) \ {r}) = Cardinality(GoingOf(req)) - 1 /\ Cardinality(GoingOf(req) \ {r}) \in Nat
      BY <3>1, FS_RemoveElement, FS_CardinalityType
    <3>3. /\ inFlight \in 0..MaxInFlight /\ inFlight = Cardinality(GoingOf(req)) /\ MaxInFlight \in Nat
          /\ GoingOf(rs) = GoingOf(req) \ {r}
      BY <1>3, <1>7 DEF SlotsTaken, L!LimiterConstants
    <3>4. inFlight - 1 = Cardinality(GoingOf(rs)) /\ inFlight - 1 \in Nat
      BY <3>2, <3>3
    <3>5. inFlight - 1 \in 0..MaxInFlight
      BY <3>3, <3>4
    <3> QED BY <3>4, <3>5 DEF SlotsTaken
  <2>2. /\ Lined(queue', req') /\ SlotsTaken(inFlight', req') /\ Awaited(queue', inFlight', timer')
        /\ tokens' \in Int /\ timer' \in Nat /\ req' \in [Requests -> Recs]
        /\ \A p \in Requests : req'[p] = rs[p] \/ (rs[p].state = "queued" /\ req'[p] = [rs[p] EXCEPT !.state = "going"])
    <3>1. L!Pump(queue, inFlight - 1, tokens, timer, rs)
      BY <1>2, <1>9
    <3>2. PICK used : used = inFlight - 1
      OBVIOUS
    <3>3. SlotsTaken(used, rs) /\ L!Pump(queue, used, tokens, timer, rs)
      BY <2>1, <3>1, <3>2
    <3>4. tokens \in Int /\ timer \in Nat /\ rs \in [Requests -> Recs] /\ Lined(queue, rs)
      BY <1>3, <1>7
    <3>5. PumpsWell(queue, used, tokens, timer, rs)
      BY <3>3, <3>4 DEF PumpsWell
    <3> QED BY <3>5, Pumped DEF HasPumped
  <2>3. GoesOn(rs, req')
    BY <2>2 DEF GoesOn
  <2>4. \A p \in Requests : /\ req'[p].kind = rs[p].kind /\ req'[p].aborted = rs[p].aborted
                            /\ req'[p].generation = rs[p].generation
                            /\ rs[p].state \in Opens => req'[p].state \in Opens
                            /\ req'[p].state = "landed" => rs[p].state = "landed"
    BY <1>7, <2>3, HeirsGoOn
  <2>5. Heirs(req', keyed', newest', generation')
    BY <1>2, <1>7, <2>4 DEF Heirs
  <2>6. LandsNow
    BY <1>8, <2>4 DEF LandsNow
  <2> QED BY <1>2, <1>3, <1>7, <2>2, <2>5, <2>6 DEF LimiterInv
<1>10. CASE ~L!Paced(req[r].kind)
  <2>1. req' = rs /\ UNCHANGED <<tokens, inFlight, queue, timer>>
    BY <1>2, <1>10
  <2>2. GoingOf(rs) = GoingOf(req)
    BY <1>7, <1>10 DEF GoingOf
  <2>3. SlotsTaken(inFlight', req') /\ Awaited(queue', inFlight', timer')
    BY <1>3, <2>1, <2>2 DEF SlotsTaken, Awaited
  <2>4. LandsNow
    BY <1>8, <2>1 DEF LandsNow
  <2> QED BY <1>2, <1>3, <1>7, <2>1, <2>3, <2>4 DEF LimiterInv
<1> QED BY <1>9, <1>10

LEMMA AbortsKeep ==
  ASSUME L!LimiterConstants, LimiterInv,
         L!ClearAborts \/ L!RefreshAborts \/ \E r \in Requests : L!Cancel(r)
  PROVE  LimiterInv' /\ NoneLands
<1>1. keyed \in Holders /\ generation \in Nat
  BY DEF LimiterInv
<1>2. CASE L!ClearAborts
  <2>1. L!Dropped(L!Explorers) /\ keyed' = keyed /\ generation' = generation
    BY <1>2 DEF L!ClearAborts
  <2> QED BY <1>1, <2>1, DroppedKeeps
<1>3. CASE L!RefreshAborts
  <2>1. L!Dropped(L!Explorers) /\ keyed' = L!NoKeys /\ generation' = generation + 1
    BY <1>3 DEF L!RefreshAborts
  <2>2. L!NoKeys \in Holders /\ generation + 1 \in Nat
    BY <1>1 DEF L!NoKeys, L!None, Holders
  <2>3. \A r \in Requests : req[r].kind \in L!Keys /\ req[r].state \in Opens => r \in L!Explorers
    BY DEF L!Explorers, L!Open, Opens, L!Keys
  <2> QED BY <2>1, <2>2, <2>3, DroppedKeeps
<1>4. CASE \E r \in Requests : L!Cancel(r)
  <2>1. PICK r \in Requests : L!Dropped({r}) /\ keyed' = keyed /\ generation' = generation
    BY <1>4 DEF L!Cancel
  <2> QED BY <1>1, <2>1, DroppedKeeps
<1> QED BY <1>2, <1>3, <1>4

LEMMA LimiterSteps ==
  ASSUME L!LimiterConstants, LimiterInv, L!LimiterNext
  PROVE  LimiterInv' /\ LandsNow
<1>1. NoneLands => LandsNow
  BY DEF NoneLands, LandsNow
<1>2. CASE L!Tick
  BY <1>1, <1>2, TickKeeps
<1>3. CASE L!Wake
  BY <1>1, <1>3, WakeKeeps
<1>4. CASE L!ClearAborts \/ L!RefreshAborts \/ \E r \in Requests : L!Cancel(r)
  BY <1>1, <1>4, AbortsKeep
<1>5. ASSUME NEW r \in Requests, NEW kind \in L!Kinds, L!Run(r, kind) PROVE LimiterInv' /\ LandsNow
  BY <1>1, <1>5, RunKeeps
<1>6. ASSUME NEW r \in Requests, L!Answered(r) PROVE LimiterInv' /\ LandsNow
  BY <1>6, AnsweredKeeps
<1>7. ASSUME NEW r \in Requests, L!TriedAgain(r) PROVE LimiterInv' /\ LandsNow
  BY <1>1, <1>7, TriedAgainKeeps
<1>8. ASSUME NEW r \in Requests, L!Unwound(r) PROVE LimiterInv' /\ LandsNow
  BY <1>1, <1>8, UnwoundKeeps
<1> QED BY <1>2, <1>3, <1>4, <1>5, <1>6, <1>7, <1>8 DEF L!LimiterNext

LEMMA LimiterHolds == ASSUME L!LimiterConstants PROVE L!LimiterSpec => []LimiterInv
<1>1. L!LimiterInit => LimiterInv
  BY LimiterStart
<1>2. LimiterInv /\ [L!LimiterNext]_(L!limiterVars) => LimiterInv'
  <2>1. CASE L!LimiterNext
    BY <2>1, LimiterSteps
  <2>2. CASE UNCHANGED L!limiterVars
    BY <2>2 DEF L!limiterVars, LimiterInv, Lined, SlotsTaken, Awaited, Heirs, Once, Members, QueuedOf, GoingOf
  <2> QED BY <2>1, <2>2
<1> QED BY <1>1, <1>2, PTL DEF L!LimiterSpec

\* Each slot taken is one automatic request in flight: none is leaked by an
\* abort, a retry or a failure.  The queue holds the waiters, and while there
\* is one the slots are all taken or the wake-up is armed.
THEOREM WakeupsHold == ASSUME L!LimiterConstants PROVE L!LimiterSpec => []L!NoLostWakeup
<1>1. LimiterInv => L!NoLostWakeup
  <2>1. \A W : L!Cardinality(W) = Cardinality(W)
    BY SameCount
  <2>2. L!Range(queue) = Members(queue)
    BY DEF L!Range, Members
  <2> QED BY <2>1, <2>2 DEF LimiterInv, Lined, SlotsTaken, Awaited, L!NoLostWakeup, QueuedOf, GoingOf, L!None
<1> QED BY LimiterHolds, <1>1, PTL

\* An answer lands only for the refresh it was asked in, and of a search or a
\* node's degrees only the one asked last, in whatever order answers come.
THEOREM LandingsHold == ASSUME L!LimiterConstants PROVE L!LimiterSpec => [][L!LandsNewest]_(L!limiterVars)
<1>1. LimiterInv /\ L!LimiterNext => L!LandsNewest
  <2>1. SUFFICES ASSUME LimiterInv, L!LimiterNext, NEW r \in Requests, L!Landing(r)
                 PROVE  req[r].generation = generation /\ (req[r].kind \in L!Keys => r = newest[req[r].kind])
    BY DEF L!LandsNewest
  <2>2. ~req[r].aborted /\ req[r].generation = generation
    BY <2>1, LimiterSteps DEF L!Landing, LandsNow
  <2> QED BY <2>1, <2>2 DEF LimiterInv, Heirs
<1>2. LimiterInv /\ [L!LimiterNext]_(L!limiterVars) => [L!LandsNewest]_(L!limiterVars)
  BY <1>1
<1> QED BY LimiterHolds, <1>2, PTL DEF L!LimiterSpec

-----------------------------------------------------------------------------
(* The limiter's bounds: the tokens, the wake-up and the retries. *)

Retries(rs) == \A r \in Requests : rs[r].retry \in 0..Len(Delays)
Metered(have, armed) == have \in (-Burst)..Burst /\ armed \in 0..(Burst + 2)
LimiterBounds ==
  /\ Metered(tokens, timer) /\ Retries(req)
  /\ generation \in 0..MaxRefreshes /\ busy \in Requests \cup {0}

\* A pump grants no token it has not, and arms the wake-up for the debt.
LEMMA PumpMeters ==
  ASSUME L!LimiterConstants, NEW q, NEW used \in Int, NEW have, NEW armed, NEW rs, Metered(have, armed),
         Len(q) \in Nat, used <= MaxInFlight, rs \in [Requests -> Recs], Retries(rs), L!Pump(q, used, have, armed, rs)
  PROVE  Metered(tokens', timer') /\ Retries(req')
<1> DEFINE free == MaxInFlight - used
           n == L!Lesser(Len(q), L!Lesser(free, IF have < 0 THEN 0 ELSE have))
           go == L!Granted(q, free, have)
<1>1. Burst \in Nat /\ MaxInFlight \in Nat /\ have \in Int /\ -Burst <= have /\ have <= Burst /\ armed \in 0..(Burst + 2)
  BY DEF L!LimiterConstants, Metered
<1>2. n \in Nat /\ (have < 0 => n = 0) /\ (have >= 0 => n <= have) /\ n <= Len(q)
  BY <1>1 DEF L!Lesser
<1>3. go = SubSeq(q, 1, n)
  BY DEF L!Granted
<1> HIDE DEF n, free
<1>4. Len(go) = n
  BY <1>2, <1>3
<1> HIDE DEF go
<1>5. /\ tokens' = have - n
      /\ timer' = armed \/ (have - n < 1 /\ timer' = 2 - (have - n))
      /\ req' = [r \in Requests |-> IF r \in L!Range(go) THEN [rs[r] EXCEPT !.state = "going"] ELSE rs[r]]
  BY <1>4 DEF L!Pump, go, free
<1>6. have - n \in Int /\ -Burst <= have - n /\ have - n <= Burst
  BY <1>1, <1>2
<1>7. timer' \in 0..(Burst + 2)
  <2>1. have - n < 1 => 2 - (have - n) \in 0..(Burst + 2)
    BY <1>1, <1>6
  <2> QED BY <1>1, <1>5, <2>1
<1>8. Retries(req')
  <2>1. \A r \in Requests : req'[r].retry = rs[r].retry
    BY <1>5 DEF Recs
  <2> QED BY <2>1 DEF Retries
<1> QED BY <1>1, <1>5, <1>6, <1>7, <1>8 DEF Metered

\* A request that goes at once may leave a debt, of Burst tokens at most.
LEMMA AcquireMeters ==
  ASSUME L!LimiterConstants, LimiterInv, LimiterBounds, NEW r \in Requests, NEW q \in Seq(Requests), NEW rs \in [Requests -> Recs],
         NEW rec \in Recs, Retries(rs), rec.retry \in 0..Len(Delays), L!Acquire(r, rec, q, rs)
  PROVE  Metered(tokens', timer') /\ Retries(req')
<1>1. /\ tokens \in (-Burst)..Burst /\ timer \in 0..(Burst + 2) /\ Burst \in Nat /\ MaxInFlight \in Nat
      /\ inFlight \in Int /\ inFlight <= MaxInFlight /\ Metered(tokens, timer)
  BY DEF LimiterInv, LimiterBounds, Metered, SlotsTaken, L!LimiterConstants
<1>2. CASE L!Paced(rec.kind)
  <2> DEFINE line == Append(q, r)
             waits == [rec EXCEPT !.state = "queued"]
             rs2 == [rs EXCEPT ![r] = waits]
  <2>1. L!Pump(line, inFlight, tokens, timer, rs2)
    BY <1>2 DEF L!Acquire
  <2>2. waits \in Recs /\ waits.retry = rec.retry
    BY DEF Recs
  <2>3. Len(line) \in Nat
    OBVIOUS
  <2> HIDE DEF waits, line
  <2>4. rs2 \in [Requests -> Recs] /\ Retries(rs2)
    BY <2>2 DEF Retries
  <2> HIDE DEF rs2
  <2> QED BY <1>1, <2>1, <2>3, <2>4, PumpMeters
<1>3. CASE ~L!Paced(rec.kind)
  <2> DEFINE goes == [rec EXCEPT !.state = "going"]
  <2>1. /\ tokens' = IF tokens - 1 < -Burst THEN -Burst ELSE tokens - 1
        /\ req' = [rs EXCEPT ![r] = goes] /\ timer' = timer
    BY <1>3 DEF L!Acquire
  <2>2. goes.retry = rec.retry
    BY DEF Recs
  <2> HIDE DEF goes
  <2>3. Retries(req')
    BY <2>1, <2>2 DEF Retries
  <2>4. tokens' \in (-Burst)..Burst
    BY <1>1, <2>1
  <2> QED BY <1>1, <2>1, <2>3, <2>4 DEF Metered
<1> QED BY <1>2, <1>3

LEMMA AbortRetries ==
  ASSUME LimiterInv, LimiterBounds, NEW who PROVE Retries(L!Aborted(req, who))
<1>1. req \in [Requests -> Recs] /\ Retries(req)
  BY DEF LimiterInv, LimiterBounds
<1>2. \A r \in Requests : L!Aborted(req, who)[r].retry = req[r].retry
  BY <1>1 DEF L!Aborted, Recs
<1> QED BY <1>1, <1>2 DEF Retries

LEMMA RunBounds ==
  ASSUME L!LimiterConstants, LimiterInv, LimiterBounds, NEW r \in Requests, NEW kind \in L!Kinds, L!Run(r, kind)
  PROVE  LimiterBounds'
<1> DEFINE rec == [req[r] EXCEPT !.kind = kind, !.generation = generation]
           before == IF kind \in L!Keys THEN {keyed[kind]} \ {0} ELSE {}
           rs == L!Aborted(req, before)
           q == L!Rest(before)
<1>1. L!Acquire(r, rec, q, rs) /\ generation' = generation /\ busy' \in {busy, r}
  BY DEF L!Run, L!None
<1>2. req \in [Requests -> Recs] /\ generation \in Nat /\ Retries(req)
  BY DEF LimiterInv, LimiterBounds
<1>3. rec \in Recs /\ rec.retry = req[r].retry
  BY <1>2 DEF Recs
<1>4. rec.retry \in 0..Len(Delays)
  BY <1>2, <1>3 DEF Retries
<1> HIDE DEF rec, before
<1>5. rs \in [Requests -> Recs] /\ q \in Seq(Requests)
  BY AbortKeeps DEF Lined
<1>6. Retries(rs)
  BY AbortRetries
<1> HIDE DEF rs, q
<1>7. Metered(tokens', timer') /\ Retries(req')
  BY <1>1, <1>3, <1>4, <1>5, <1>6, AcquireMeters
<1> QED BY <1>1, <1>7 DEF LimiterBounds

LEMMA TriedAgainBounds ==
  ASSUME L!LimiterConstants, LimiterInv, LimiterBounds, NEW r \in Requests, L!TriedAgain(r)
  PROVE  LimiterBounds'
<1>1. L!Acquire(r, req[r], queue, req) /\ generation' = generation /\ busy' = busy
  BY DEF L!TriedAgain
<1>2. req \in [Requests -> Recs] /\ req[r] \in Recs /\ Retries(req) /\ queue \in Seq(Requests)
  BY DEF LimiterInv, LimiterBounds, Lined
<1>3. req[r].retry \in 0..Len(Delays)
  BY <1>2 DEF Retries
<1>4. Metered(tokens', timer') /\ Retries(req')
  BY <1>1, <1>2, <1>3, AcquireMeters
<1> QED BY <1>1, <1>4 DEF LimiterBounds

LEMMA AnsweredBounds ==
  ASSUME L!LimiterConstants, LimiterInv, LimiterBounds, NEW r \in Requests, L!Answered(r)
  PROVE  LimiterBounds'
<1> DEFINE again(limited) == limited /\ req[r].retry < Len(Delays) /\ ~req[r].aborted
           waits == [req[r] EXCEPT !.state = "backoff", !.wait = Delays[req[r].retry + 1], !.retry = @ + 1]
           ends == L!Ended(L!Outcome(r))
           recOf(limited) == IF again(limited) THEN waits ELSE ends
<1>1. PICK limited \in BOOLEAN :
        /\ IF again(limited) THEN UNCHANGED <<keyed, busy>> ELSE L!Forgets(r)
        /\ IF L!Paced(req[r].kind) THEN L!Pump(queue, inFlight - 1, tokens, timer, [req EXCEPT ![r] = recOf(limited)])
           ELSE req' = [req EXCEPT ![r] = recOf(limited)] /\ UNCHANGED L!limiter
  BY DEF L!Answered
<1>2. PICK rec : rec = recOf(limited)
  OBVIOUS
<1>3. PICK rs : rs = [req EXCEPT ![r] = rec]
  OBVIOUS
<1>4. /\ IF L!Paced(req[r].kind) THEN L!Pump(queue, inFlight - 1, tokens, timer, rs)
         ELSE req' = rs /\ UNCHANGED <<tokens, timer>>
      /\ busy' \in {busy, 0} /\ generation' = generation
  BY <1>1, <1>2, <1>3 DEF L!Answered, L!Forgets, L!limiter, L!None
<1>5. /\ req \in [Requests -> Recs] /\ req[r] \in Recs /\ Retries(req) /\ queue \in Seq(Requests)
      /\ inFlight \in Int /\ inFlight <= MaxInFlight /\ MaxInFlight \in Nat /\ Metered(tokens, timer)
  BY DEF LimiterInv, LimiterBounds, Lined, SlotsTaken, L!LimiterConstants
<1>6. req[r].retry \in 0..Len(Delays) /\ Delays \in Seq(Nat)
  BY <1>5 DEF Retries, L!LimiterConstants
<1>7. rec \in Recs /\ rec.retry \in 0..Len(Delays)
  <2>1. CASE again(limited)
    <3>1. PICK k : k = req[r].retry
      OBVIOUS
    <3>2. k \in Nat /\ k < Len(Delays) /\ Len(Delays) \in Nat /\ DOMAIN Delays = 1..Len(Delays)
      BY <1>6, <2>1, <3>1
    <3>3. k + 1 \in 1..Len(Delays) /\ k + 1 \in 0..Len(Delays)
      BY <3>2
    <3>4. Delays[k + 1] \in Nat
      BY <1>6, <3>3
    <3>5. PICK w : w = Delays[k + 1]
      OBVIOUS
    <3>6. PICK old, n : old = req[r] /\ n = k + 1
      OBVIOUS
    <3>7. rec = [old EXCEPT !.state = "backoff", !.wait = w, !.retry = n]
      BY <1>2, <2>1, <3>1, <3>5, <3>6
    <3>8. old \in Recs /\ w \in Nat /\ n \in Nat /\ n \in 0..Len(Delays)
      BY <1>5, <3>3, <3>4, <3>5, <3>6
    <3> HIDE DEF waits, ends
    <3> QED BY <3>7, <3>8 DEF Recs
  <2>2. CASE ~again(limited)
    <3>1. ends \in Recs /\ ends.retry = 0
      <4>1. L!Outcome(r) \in {"dropped", "landed"}
        BY DEF L!Outcome
      <4> QED BY <4>1, EndedIs DEF L!Ended, L!New
    <3>2. 0 \in 0..Len(Delays)
      BY <1>6
    <3> HIDE DEF ends
    <3> QED BY <1>2, <2>2, <3>1, <3>2
  <2> QED BY <2>1, <2>2
<1>8. rs \in [Requests -> Recs] /\ Retries(rs)
  BY <1>3, <1>5, <1>7 DEF Retries
<1>9. Metered(tokens', timer') /\ Retries(req')
  <2>1. CASE L!Paced(req[r].kind)
    <3>1. PICK used : used = inFlight - 1
      OBVIOUS
    <3>2. /\ L!Pump(queue, used, tokens, timer, rs) /\ used \in Int /\ used <= MaxInFlight /\ Len(queue) \in Nat
      BY <1>4, <1>5, <2>1, <3>1
    <3> QED BY <1>5, <1>8, <3>2, PumpMeters
  <2>2. CASE ~L!Paced(req[r].kind)
    <3>1. req' = rs /\ tokens' = tokens /\ timer' = timer
      BY <1>4, <2>2
    <3> QED BY <1>5, <1>8, <3>1
  <2> QED BY <2>1, <2>2
<1> QED BY <1>4, <1>9 DEF LimiterBounds

LEMMA QuietBounds ==
  ASSUME L!LimiterConstants, LimiterInv, LimiterBounds,
         L!ClearAborts \/ L!RefreshAborts \/ (\E r \in Requests : L!Cancel(r) \/ L!Unwound(r)) \/ L!Tick \/ L!Wake
  PROVE  LimiterBounds'
<1>1. /\ req \in [Requests -> Recs] /\ Retries(req) /\ Metered(tokens, timer) /\ queue \in Seq(Requests)
      /\ inFlight \in Int /\ inFlight <= MaxInFlight /\ Burst \in Nat /\ MaxRefreshes \in Nat
      /\ generation \in 0..MaxRefreshes /\ busy \in Requests \cup {0}
  BY DEF LimiterInv, LimiterBounds, Lined, SlotsTaken, L!LimiterConstants
<1>2. ASSUME NEW who, L!Dropped(who) PROVE Metered(tokens', timer') /\ Retries(req')
  BY <1>1, <1>2, AbortRetries DEF L!Dropped
<1>3. CASE L!ClearAborts
  BY <1>1, <1>2, <1>3 DEF L!ClearAborts, LimiterBounds
<1>4. CASE L!RefreshAborts
  <2>1. Metered(tokens', timer') /\ Retries(req')
    BY <1>2, <1>4 DEF L!RefreshAborts
  <2>2. generation' \in 0..MaxRefreshes /\ busy' = 0
    BY <1>1, <1>4 DEF L!RefreshAborts, L!None
  <2> QED BY <2>1, <2>2 DEF LimiterBounds
<1>5. ASSUME NEW r \in Requests, L!Cancel(r) PROVE LimiterBounds'
  BY <1>1, <1>2, <1>5 DEF L!Cancel, LimiterBounds
<1>6. ASSUME NEW r \in Requests, L!Unwound(r) PROVE LimiterBounds'
  <2>1. /\ req' = [req EXCEPT ![r] = L!Ended("dropped")] /\ busy' \in {busy, 0}
        /\ UNCHANGED <<tokens, timer, generation>>
    BY <1>6 DEF L!Unwound, L!Forgets, L!limiter, L!None
  <2>2. L!Ended("dropped").retry = 0 /\ 0 \in 0..Len(Delays)
    BY DEF L!Ended, L!New, L!LimiterConstants
  <2>3. Retries(req')
    BY <1>1, <2>1, <2>2 DEF Retries
  <2> QED BY <1>1, <2>1, <2>3 DEF LimiterBounds, Metered
<1>7. CASE L!Tick
  <2>1. /\ tokens' = L!Lesser(Burst, tokens + 1) /\ timer' = IF timer > 1 THEN timer - 1 ELSE timer
        /\ req' = [r \in Requests |-> [req[r] EXCEPT !.wait = IF @ > 0 THEN @ - 1 ELSE 0]]
        /\ UNCHANGED <<busy, generation>>
    BY <1>7 DEF L!Tick
  <2>2. \A r \in Requests : req'[r].retry = req[r].retry
    BY <1>1, <2>1 DEF Recs
  <2>3. Retries(req')
    BY <1>1, <2>2 DEF Retries
  <2>4. tokens \in (-Burst)..Burst /\ timer \in 0..(Burst + 2)
    BY <1>1 DEF Metered
  <2>5. timer' \in 0..(Burst + 2)
    BY <1>1, <2>1, <2>4
  <2>6. PICK have : have = tokens
    OBVIOUS
  <2>7. have \in Int /\ -Burst <= have /\ have <= Burst
    BY <1>1, <2>4, <2>6
  <2>8. tokens' = IF Burst < have + 1 THEN Burst ELSE have + 1
    BY <2>1, <2>6 DEF L!Lesser
  <2>9. tokens' \in (-Burst)..Burst
    BY <1>1, <2>7, <2>8
  <2> QED BY <1>1, <2>1, <2>3, <2>5, <2>9 DEF LimiterBounds, Metered
<1>8. CASE L!Wake
  <2>1. L!Pump(queue, inFlight, tokens, 0, req) /\ UNCHANGED <<busy, generation>>
    BY <1>8 DEF L!Wake, L!None
  <2>2. PICK armed : armed = 0
    OBVIOUS
  <2>3. L!Pump(queue, inFlight, tokens, armed, req) /\ Metered(tokens, armed) /\ Len(queue) \in Nat
    BY <1>1, <2>1, <2>2 DEF Metered
  <2>4. Metered(tokens', timer') /\ Retries(req')
    BY <1>1, <2>3, PumpMeters
  <2> QED BY <1>1, <2>1, <2>4 DEF LimiterBounds
<1> QED BY <1>3, <1>4, <1>5, <1>6, <1>7, <1>8

LEMMA LimiterTyped == ASSUME L!LimiterConstants PROVE L!LimiterSpec => []L!LimiterTypeOK
<1>1. L!LimiterInit => LimiterBounds
  <2>1. SUFFICES ASSUME L!LimiterInit PROVE LimiterBounds
    OBVIOUS
  <2>2. \A r \in Requests : req[r].retry = 0
    BY <2>1 DEF L!LimiterInit, L!New
  <2>3. Delays \in Seq(Nat) /\ Burst \in Nat /\ MaxRefreshes \in Nat
    BY DEF L!LimiterConstants
  <2>4. Metered(tokens, timer)
    BY <2>1, <2>3 DEF L!LimiterInit, L!None, Metered
  <2> QED BY <2>1, <2>2, <2>3, <2>4 DEF L!LimiterInit, L!None, LimiterBounds, Retries
<1>2. LimiterInv /\ LimiterBounds /\ [L!LimiterNext]_(L!limiterVars) => LimiterBounds'
  <2>1. CASE UNCHANGED L!limiterVars
    BY <2>1 DEF L!limiterVars, LimiterBounds, Metered, Retries
  <2>2. ASSUME LimiterInv, LimiterBounds, L!LimiterNext PROVE LimiterBounds'
    <3>1. ASSUME NEW r \in Requests, NEW kind \in L!Kinds, L!Run(r, kind) PROVE LimiterBounds'
      BY <2>2, <3>1, RunBounds
    <3>2. ASSUME NEW r \in Requests, L!Answered(r) PROVE LimiterBounds'
      BY <2>2, <3>2, AnsweredBounds
    <3>3. ASSUME NEW r \in Requests, L!TriedAgain(r) PROVE LimiterBounds'
      BY <2>2, <3>3, TriedAgainBounds
    <3>4. ASSUME L!ClearAborts \/ L!RefreshAborts \/ (\E r \in Requests : L!Cancel(r) \/ L!Unwound(r)) \/ L!Tick \/ L!Wake
          PROVE  LimiterBounds'
      BY <2>2, <3>4, QuietBounds
    <3> QED BY <2>2, <3>1, <3>2, <3>3, <3>4, Zenon DEF L!LimiterNext
  <2> QED BY <2>1, <2>2
<1>3. LimiterInv /\ LimiterBounds => L!LimiterTypeOK
  <2>1. SUFFICES ASSUME LimiterInv, LimiterBounds PROVE L!LimiterTypeOK
    OBVIOUS
  <2>2. L!Range(queue) \subseteq Requests
    BY <2>1 DEF LimiterInv, Lined, L!Range
  <2>3. \A r \in Requests : req[r].kind \in L!Kinds
    BY <2>1 DEF LimiterInv, Recs
  <2> QED BY <2>1, <2>2, <2>3 DEF LimiterInv, LimiterBounds, Metered, Retries, SlotsTaken, Holders, L!LimiterTypeOK, L!None
<1> QED BY <1>1, <1>2, <1>3, LimiterHolds, PTL DEF L!LimiterSpec

-----------------------------------------------------------------------------
(* The console: a behaviour is of the part that it starts with, so what holds *)
(* of a part holds of it.                                                    *)

LEMMA CallsBegin ==
  Init => /\ part = "csrf" => K!Init
          /\ part = "session" => S!Init
          /\ part = "logins" => G!Init
          /\ part = "limiter" => L!LimiterInit
BY DEF Init, Starts

LEMMA CallsGoOn ==
  [Next]_vars => /\ (part = "csrf")' <=> part = "csrf"
                 /\ part = "csrf" => [K!Next]_(K!csrfVars)
                 /\ (part = "session")' <=> part = "session"
                 /\ part = "session" => [S!Next]_(S!vars)
                 /\ (part = "logins")' <=> part = "logins"
                 /\ part = "logins" => [G!Next]_(G!loginVars)
                 /\ (part = "limiter")' <=> part = "limiter"
                 /\ part = "limiter" => [L!LimiterNext]_(L!limiterVars)
<1>1. CASE UNCHANGED vars
  BY <1>1 DEF vars, after5, after6, after9, after11, after12, K!csrfVars, S!vars, G!loginVars, L!limiterVars
<1>2. CASE Next
  BY <1>2 DEF Next, Is
<1> QED BY <1>1, <1>2

\* A call is refused after its one renewal only if someone replaced its token
\* or its session since.
THEOREM RenewedOnce ==
  ASSUME K!CsrfConstants
  PROVE  Spec => []RejectedOnlyWhenUpset
<1>1. RejectedOnlyWhenUpset <=> (part = "csrf" => K!RejectedOnlyWhenUpset)
  BY DEF RejectedOnlyWhenUpset
<1> QED BY CallsBegin, CallsGoOn, CsrfHolds, <1>1, PTL DEF Spec, K!Spec

\* Over any number of tabs, instances and calls, a refresh token is presented
\* twice only for the reasons the code gives up on.
THEOREM SpentOnceUnlessExcused ==
  ASSUME S!SessionConstants
  PROVE  Spec => []SpentTwiceOnlyExcused
<1>1. SpentTwiceOnlyExcused <=> (part = "session" => S!SpentTwiceOnlyExcused)
  BY DEF SpentTwiceOnlyExcused
<1> QED BY CallsBegin, CallsGoOn, TokensHold, <1>1, PTL DEF Spec, S!Spec

\* No answer that comes late brings back a session that was signed out.
THEOREM SignedOutForGood ==
  ASSUME S!SessionConstants
  PROVE  Spec => []SignedOutStays
<1>1. SignedOutStays <=> (part = "session" => S!SignedOutStays)
  BY DEF SignedOutStays
<1> QED BY CallsBegin, CallsGoOn, SignOutHolds, <1>1, PTL DEF Spec, S!Spec

\* Of any number of sign-ins side by side, one loses its transaction only to
\* its age or to more than KEPT_LOGINS later ones.
THEOREM SignInsStandApart ==
  ASSUME G!LoginConstants
  PROVE  Spec => []LostOnlyToMany
<1>1. LostOnlyToMany <=> (part = "logins" => G!LostOnlyToMany)
  BY DEF LostOnlyToMany
<1> QED BY CallsBegin, CallsGoOn, LoginsHold, <1>1, PTL DEF Spec, G!Spec

\* A request that waits has something that will wake it, and no slot leaks.
THEOREM NoWakeupLost ==
  ASSUME L!LimiterConstants
  PROVE  Spec => []NoLostWakeup
<1>1. NoLostWakeup <=> (part = "limiter" => L!NoLostWakeup)
  BY DEF NoLostWakeup
<1> QED BY CallsBegin, CallsGoOn, WakeupsHold, <1>1, PTL DEF Spec, L!LimiterSpec

\* Of searches and of a node's degrees only what was asked last lands, and
\* nothing asked before a refresh.
THEOREM OnlyTheNewestLands ==
  ASSUME L!LimiterConstants
  PROVE  Spec => NewestLands
<1>1. UNCHANGED L!limiterVars => L!LandsNewest
  BY DEF L!limiterVars, L!LandsNewest, L!Landing
<1>2. [L!LandsNewest]_(L!limiterVars) => L!LandsNewest
  BY <1>1
<1>3. Is("limiter") => part = "limiter"
  BY DEF Is
<1> QED BY CallsBegin, CallsGoOn, LandingsHold, <1>2, <1>3, PTL DEF Spec, L!LimiterSpec, NewestLands

\* The types of the calls' parts: the limiter never owes more than Burst
\* tokens, its wake-up is never further away than the debt, nothing is tried
\* again more often than there are delays, and the CSRF tokens, the session's
\* cookies and the sign-ins stay what their parts say.
THEOREM CallsAreTyped ==
  ASSUME K!CsrfConstants, S!SessionConstants, G!LoginConstants, L!LimiterConstants
  PROVE  Spec => [](part \in {"csrf", "session", "logins", "limiter"} => TypesOK)
<1>1. part = "csrf" /\ K!TypeOK => TypesOK
  BY DEF TypesOK
<1>2. part = "session" /\ S!TypeOK => TypesOK
  BY DEF TypesOK
<1>3. part = "logins" /\ G!TypeOK => TypesOK
  BY DEF TypesOK
<1>4. part = "limiter" /\ L!LimiterTypeOK => TypesOK
  BY DEF TypesOK
<1>5. /\ (part = "csrf" => K!TypeOK) /\ (part = "session" => S!TypeOK)
      /\ (part = "logins" => G!TypeOK) /\ (part = "limiter" => L!LimiterTypeOK)
      => (part \in {"csrf", "session", "logins", "limiter"} => TypesOK)
  BY <1>1, <1>2, <1>3, <1>4, Zenon
<1> QED
  BY CallsBegin, CallsGoOn, CsrfHolds, TokensHold, LoginsHold, LimiterTyped, <1>5, PTL
  DEF Spec, K!Spec, S!Spec, G!Spec, L!LimiterSpec
=============================================================================

------------------------------- MODULE Logins -------------------------------
(* Sign-ins in progress: each start leaves a signed cookie named after its  *)
(* OAuth state, so that tabs signing in side by side do not collide; a new  *)
(* start expires all but the newest few of the others it was sent with.     *)
EXTENDS Naturals, FiniteSets

CONSTANTS Flows,        \* sign-ins, by their OAuth state
          KEPT_LOGINS   \* earlier sign-ins a new one keeps

LoginConstants == KEPT_LOGINS \in Nat \ {0}

VARIABLES
  cookies,   \* the flows whose login cookie the browser has
  login,     \* per flow: new, starting, away (at the provider), in, failed
  sentWith,  \* per flow: the login cookies its start was sent with
  later,     \* per flow: the flows whose cookie came after its own, the browser's order
  lapsed     \* flows older than LOGIN_TRANSACTION_TTL_SECONDS

loginVars == <<cookies, login, sentWith, later, lapsed>>

Init ==
  /\ cookies = {}
  /\ login = [f \in Flows |-> "new"]
  /\ sentWith = [f \in Flows |-> {}]
  /\ later = [f \in Flows |-> {}]
  /\ lapsed = {}

\* GET /auth/login goes out with the cookies of now.
Start(f) ==
  /\ login[f] = "new"
  /\ login' = [login EXCEPT ![f] = "starting"]
  /\ sentWith' = [sentWith EXCEPT ![f] = cookies]
  /\ UNCHANGED <<cookies, later, lapsed>>

\* The sign-ins sent along with f's, and those of them newer than g's.
Others(f) == sentWith[f] \ {f}
Newer(g, f) == later[g] \cap Others(f)
\* Mutant: one too many expires.
ExpiredFault(f) == {g \in Others(f) : Cardinality(Newer(g, f)) + 1 >= KEPT_LOGINS}
\* All but the newest KEPT_LOGINS of the others; browsers send the oldest first.
Expired(f) == {g \in Others(f) : Cardinality(Newer(g, f)) >= KEPT_LOGINS}

\* The API named an authorize URL: the cookie is set, old ones expire, and the
\* browser leaves for the provider.
Started(f) ==
  /\ login[f] = "starting"
  /\ cookies' = (cookies \ Expired(f)) \cup {f}
  /\ login' = [login EXCEPT ![f] = "away"]
  /\ later' = [g \in Flows |-> IF login[g] = "away" THEN later[g] \cup {f} ELSE later[g]]
  /\ UNCHANGED <<sentWith, lapsed>>

\* It did not, or it is not one to trust: back to sign-in with ?error=.
Unavailable(f) ==
  /\ login[f] = "starting"
  /\ login' = [login EXCEPT ![f] = "failed"]
  /\ UNCHANGED <<cookies, sentWith, later, lapsed>>

\* openLoginTransaction: the flow's own cookie, signed and not too old.
Transaction(f) == f \in cookies /\ f \notin lapsed

\* The callback: the code is exchanged for the sign-in it started; whatever
\* the outcome the flow's cookie goes.
Callback(f, exchanged) ==
  /\ login[f] = "away"
  /\ login' = [login EXCEPT ![f] = IF ~Transaction(f) THEN "lost"
                                   ELSE IF exchanged THEN "in" ELSE "failed"]
  /\ cookies' = cookies \ {f}
  /\ UNCHANGED <<sentWith, later, lapsed>>

\* Ten minutes pass for one that never came back.
Lapse(f) ==
  /\ login[f] = "away" /\ f \notin lapsed
  /\ lapsed' = lapsed \cup {f}
  /\ cookies' = cookies \ {f}
  /\ UNCHANGED <<login, sentWith, later>>

Next == \E f \in Flows :
  \/ Start(f) \/ Started(f) \/ Unavailable(f) \/ Lapse(f)
  \/ \E exchanged \in BOOLEAN : Callback(f, exchanged)

Spec == Init /\ [][Next]_loginVars

-----------------------------------------------------------------------------
TypeOK ==
  /\ cookies \subseteq Flows /\ lapsed \subseteq Flows
  /\ sentWith \in [Flows -> SUBSET Flows] /\ later \in [Flows -> SUBSET Flows]
  /\ login \in [Flows -> {"new", "starting", "away", "in", "failed", "lost"}]

\* Sign-ins side by side do not collide: one loses its transaction only by its
\* own age, or when more than KEPT_LOGINS later sign-ins were answered.
LostOnlyToMany ==
  \A f \in Flows : login[f] = "lost" => f \in lapsed \/ Cardinality(later[f]) > KEPT_LOGINS

=============================================================================

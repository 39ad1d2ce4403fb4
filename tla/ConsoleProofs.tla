---------------------------- MODULE ConsoleProofs ----------------------------
(* Of the console as a whole, from what is proved of each of its parts.     *)
EXTENDS CallProofs, FormProofs, ExplorerProofs, TreeProofs

LEMMA PartsAreKnown ==
  Spec => [](part \in {"csrf", "session", "logins", "limiter", "uploads", "revision", "tour",
                       "composer", "stream", "counts", "explorer", "tree"})
<1> DEFINE InPart == part \in {"csrf", "session", "logins", "limiter", "uploads", "revision", "tour",
                               "composer", "stream", "counts", "explorer", "tree"}
<1>1. Init => InPart
  BY DEF Init, Starts
<1>2. InPart /\ [Next]_vars => InPart'
  BY DEF Next, Is, vars
<1> QED BY <1>1, <1>2, PTL DEF Spec

\* Every part's types, and the bounds they hold: no token, wait, try, revision,
\* canvas or stream goes past what its part counts.
THEOREM ConsoleIsTyped ==
  ASSUME K!CsrfConstants, S!SessionConstants, G!LoginConstants, L!LimiterConstants,
         U!UploadConstants, R!RevisionConstants, T!TourConstants, C!ChatConstants, Q!ChatConstants,
         N!LateConstants, X!ExplorerConstants, D!DataTreeConstants
  PROVE  Spec => []TypesOK
<1>1. /\ part \in {"csrf", "session", "logins", "limiter", "uploads", "revision", "tour",
                    "composer", "stream", "counts", "explorer", "tree"}
      /\ part \in {"csrf", "session", "logins", "limiter"} => TypesOK
      /\ part \in {"uploads", "revision", "tour", "composer", "stream"} => TypesOK
      /\ part \in {"counts", "explorer"} => TypesOK
      /\ part = "tree" => TypesOK
      => TypesOK
  BY Zenon
<1> QED BY PartsAreKnown, CallsAreTyped, FormsAreTyped, ReadsAreTyped, TreeIsTyped, <1>1, PTL
=============================================================================

----------------------------- MODULE ChatProofs -----------------------------
(* The types of a thread of Analyst, for any number of questions, events and *)
(* submissions: a token is used up by a question made, no question is shown  *)
(* that the service has not, and no stream runs ahead of its log's bound.    *)
EXTENDS Chat, FiniteSetTheorems, WellFoundedInduction, TLAPS

Events == {"started", "call", "result"}
Callers == [text : Texts, token : Nat, at : {"sent", "made", "refused", "reads"}, no : Nat]
ChatRows == [text : Texts, token : Nat, status : Statuses, log : Seq(Events)]
Listings == {None, [at |-> "sent"]} \cup [at : {"read"}, statuses : Seq(Statuses)]
Pagings ==
  {None, [at |-> "sent"]} \cup [at : {"half"}, status : Statuses, lastSeq : Nat]
  \cup [at : {"read"}, status : Statuses, lastSeq : Nat, from : Nat, events : Seq(Events)]

\* The calls whose token is not used up: each was submitted.
Waiting == {a \in asking : a.at # "reads"}
AsksFit ==
  /\ text \in Texts \cup {NoText} /\ token \in Nat \ {0} /\ pending \in BOOLEAN /\ asking \subseteq Callers
  /\ IsFiniteSet(Waiting) /\ token + Cardinality(Waiting) <= submits + 1
  /\ submits \in 0..MaxSubmits /\ asks \in 0..submits
RowsFit ==
  /\ rows \in Seq(ChatRows) /\ Len(rows) <= MaxQuestions
  /\ \A n \in DOMAIN rows : Len(rows[n].log) <= MaxEvents
ListFits ==
  /\ list \in Seq(Statuses) /\ Len(list) <= Len(rows) /\ listing \in Listings
  /\ listing.at = "read" => Len(listing.statuses) <= Len(rows)
StreamFits(st) == DOMAIN st = {"last", "steps", "complete", "read"} /\ st.last \in 0..MaxEvents
PageFits(pg) == pg \in Pagings /\ (pg.at = "read" => pg.from + Len(pg.events) <= MaxEvents)
PagesFit ==
  /\ stream \in [Questions -> {stream[q] : q \in Questions}] /\ paging \in [Questions -> Pagings]
  /\ \A q \in Questions : StreamFits(stream[q]) /\ PageFits(paging[q])
  /\ \A q \in Questions : paging[q] # None => q \in DOMAIN rows
ChatInv == AsksFit /\ RowsFit /\ ListFits /\ PagesFit

LEMMA ChatStart == ASSUME ChatConstants, ChatInit PROVE ChatInv
<1>1. {MaxQuestions, MaxSubmits, MaxEvents} \subseteq Nat
  BY DEF ChatConstants
<1>2. AsksFit
  <2>1. Waiting = {}
    BY DEF Waiting, ChatInit
  <2>2. IsFiniteSet(Waiting) /\ Cardinality(Waiting) = 0
    BY <2>1, FS_EmptySet
  <2>3. token + Cardinality(Waiting) <= submits + 1
    BY <2>2 DEF ChatInit
  <2>4. submits \in 0..MaxSubmits /\ asks \in 0..submits /\ token \in Nat \ {0}
    BY <1>1 DEF ChatInit
  <2>5. text \in Texts \cup {NoText} /\ pending \in BOOLEAN /\ asking \subseteq Callers
    BY DEF ChatInit
  <2> QED BY <2>2, <2>3, <2>4, <2>5 DEF AsksFit
<1>3. RowsFit /\ ListFits
  BY <1>1 DEF ChatInit, RowsFit, ListFits, Listings, None
<1>4. StreamFits(EMPTY_STREAM) /\ PageFits(None)
  BY <1>1 DEF StreamFits, PageFits, EMPTY_STREAM, Pagings, None
<1>5. PagesFit
  BY <1>4 DEF ChatInit, PagesFit, PageFits
<1> QED BY <1>2, <1>3, <1>5 DEF ChatInv

-----------------------------------------------------------------------------
(* The composer. *)

\* A call leaves, or becomes another that waits no more than it did.
LEMMA WaitingIs ==
  ASSUME ChatInv, NEW a \in asking, NEW b \in Callers, b.at # "reads" => a.at # "reads",
         asking' = (asking \ {a}) \cup {b} \/ asking' = asking \ {a}
  PROVE  /\ asking' \subseteq Callers /\ IsFiniteSet(Waiting') /\ Cardinality(Waiting') \in Nat /\ Cardinality(Waiting) \in Nat
         /\ Cardinality(Waiting') <= Cardinality(Waiting)
         /\ a.at # "reads" /\ b.at = "reads" => Cardinality(Waiting') + 1 <= Cardinality(Waiting)
<1>1. asking \subseteq Callers /\ IsFiniteSet(Waiting)
  BY DEF ChatInv, AsksFit
<1>2. PICK w, rest : w = Waiting /\ rest = w \ {a}
  OBVIOUS
<1>3. PICK x, more : x = b /\ more = rest \cup {x}
  OBVIOUS
<1>4. IsFiniteSet(rest) /\ Cardinality(rest) \in Nat /\ Cardinality(w) \in Nat
      /\ Cardinality(rest) = IF a \in w THEN Cardinality(w) - 1 ELSE Cardinality(w)
  <2>1. /\ IsFiniteSet(w \ {a})
        /\ Cardinality(w \ {a}) = IF a \in w THEN Cardinality(w) - 1 ELSE Cardinality(w)
    BY <1>1, <1>2, FS_RemoveElement, Zenon
  <2> QED BY <1>1, <1>2, <2>1, FS_CardinalityType
<1>5. IsFiniteSet(more) /\ Cardinality(more) \in Nat /\ Cardinality(more) <= Cardinality(rest) + 1
  <2>1. /\ IsFiniteSet(rest \cup {x})
        /\ Cardinality(rest \cup {x}) = IF x \in rest THEN Cardinality(rest) ELSE Cardinality(rest) + 1
    BY <1>4, FS_AddElement, Zenon
  <2> QED BY <1>3, <1>4, <2>1
<1>6. a \in w <=> a.at # "reads"
  BY <1>2 DEF Waiting
<1>7. CASE b.at = "reads" \/ asking' = asking \ {a}
  <2>1. Waiting' \subseteq rest
    BY <1>2, <1>7 DEF Waiting
  <2>2. IsFiniteSet(Waiting') /\ Cardinality(Waiting') <= Cardinality(rest) /\ Cardinality(Waiting') \in Nat
    BY <1>4, <2>1, FS_Subset, FS_CardinalityType
  <2> QED BY <1>1, <1>2, <1>4, <1>6, <2>2
<1>8. CASE b.at # "reads"
  <2>1. Waiting' \subseteq more
    BY <1>2, <1>3 DEF Waiting
  <2>2. IsFiniteSet(Waiting') /\ Cardinality(Waiting') <= Cardinality(more) /\ Cardinality(Waiting') \in Nat
    BY <1>5, <2>1, FS_Subset, FS_CardinalityType
  <2>3. Cardinality(more) <= Cardinality(w)
    BY <1>4, <1>5, <1>6, <1>8
  <2> QED BY <1>1, <1>2, <1>4, <1>5, <1>8, <2>2, <2>3
<1> QED BY <1>7, <1>8

\* What the composer changes leaves what the reads show.
LEMMA ReadsStay ==
  ASSUME ChatInv, UNCHANGED <<rows, list, listing, stream, paging>>
  PROVE  RowsFit' /\ ListFits' /\ PagesFit'
BY DEF ChatInv, RowsFit, ListFits, PagesFit

LEMMA SubmitFits == ASSUME ChatConstants, ChatInv, NEW b \in BOOLEAN, Submit(b) PROVE ChatInv'
<1>1. PICK a : a = [text |-> text, token |-> token, at |-> "sent", no |-> submits]
  OBVIOUS
<1>2. /\ asking' = asking \cup {a} /\ pending' = TRUE /\ submits' = submits + 1 /\ submits < MaxSubmits /\ text # NoText
      /\ asks' \in {asks, asks + 1} /\ UNCHANGED <<text, token, rows, list, listing, stream, paging>>
  BY <1>1 DEF Submit, reads
<1>3. AsksFit
  BY DEF ChatInv
<1>4. a \in Callers /\ a.at = "sent"
  BY <1>1, <1>2, <1>3 DEF AsksFit, Callers
<1>5. /\ IsFiniteSet(Waiting') /\ Cardinality(Waiting') <= Cardinality(Waiting) + 1
      /\ Cardinality(Waiting') \in Nat /\ Cardinality(Waiting) \in Nat
  <2>1. PICK w, more : w = Waiting /\ more = w \cup {a}
    OBVIOUS
  <2>2. IsFiniteSet(w) /\ Cardinality(w) \in Nat
    BY <1>3, <2>1, FS_CardinalityType DEF AsksFit
  <2>3. /\ IsFiniteSet(w \cup {a})
        /\ Cardinality(w \cup {a}) = IF a \in w THEN Cardinality(w) ELSE Cardinality(w) + 1
    BY <2>2, FS_AddElement, Zenon
  <2>4. Waiting' = more
    BY <1>2, <1>4, <2>1 DEF Waiting
  <2> QED BY <2>1, <2>2, <2>3, <2>4
<1>6. submits \in Nat /\ MaxSubmits \in Nat /\ token \in Nat /\ asks \in Nat /\ asks <= submits
      /\ token + Cardinality(Waiting) <= submits + 1
  BY <1>3 DEF AsksFit, ChatConstants
<1>7. submits' \in 0..MaxSubmits /\ asks' \in 0..submits' /\ token' + Cardinality(Waiting') <= submits' + 1
  BY <1>2, <1>5, <1>6
<1>8. AsksFit'
  BY <1>2, <1>3, <1>4, <1>5, <1>7 DEF AsksFit
<1> QED BY <1>2, <1>8, ReadsStay DEF ChatInv

\* A question is made under the bound, of what its call asks.
LEMMA CreateFits == ASSUME ChatConstants, ChatInv, NEW a \in asking, Create(a) PROVE ChatInv'
<1>1. AsksFit /\ RowsFit /\ ListFits /\ PagesFit /\ a \in Callers
  BY DEF ChatInv, AsksFit
<1>2. a.at = "sent" /\ UNCHANGED <<text, token, pending, submits, asks, list, listing, stream, paging>>
  BY DEF Create, reads
<1>3. PICK b : b \in {[a EXCEPT !.at = "made"], [a EXCEPT !.at = "refused"]} /\ asking' = (asking \ {a}) \cup {b}
  BY DEF Create
<1>4. b \in Callers
  BY <1>1, <1>3 DEF Callers
<1>5. /\ asking' \subseteq Callers /\ IsFiniteSet(Waiting') /\ Cardinality(Waiting') \in Nat /\ Cardinality(Waiting) \in Nat
      /\ Cardinality(Waiting') <= Cardinality(Waiting)
  <2>1. a.at # "reads"
    BY <1>2
  <2> QED BY <1>3, <1>4, <2>1, WaitingIs
<1>6. AsksFit'
  <2>1. token \in Nat /\ submits \in Int /\ token + Cardinality(Waiting) <= submits + 1
    BY <1>1 DEF AsksFit
  <2>2. token' + Cardinality(Waiting') <= submits' + 1
    BY <1>2, <1>5, <2>1
  <2> QED BY <1>1, <1>2, <1>5, <2>2 DEF AsksFit
<1>7. CASE rows' = rows
  BY <1>2, <1>6, <1>7, ReadsStay DEF ChatInv
<1>8. PICK row : row = [text |-> a.text, token |-> a.token, status |-> "queued", log |-> <<>>]
  OBVIOUS
<1>9. CASE Len(rows) < MaxQuestions /\ rows' = Append(rows, row)
  <2>1. row \in ChatRows /\ Len(row.log) = 0 /\ 0 <= MaxEvents
    BY <1>1, <1>8 DEF ChatRows, Callers, Statuses, ChatConstants
  <2>2. PICK n : n = Len(rows) /\ n \in Nat /\ n < MaxQuestions
    BY <1>1, <1>9 DEF RowsFit
  <2>3. /\ rows' \in Seq(ChatRows) /\ Len(rows') = n + 1 /\ DOMAIN rows = 1..n /\ DOMAIN rows' = 1..(n + 1)
        /\ rows'[n + 1] = row /\ \A i \in 1..n : rows'[i] = rows[i]
    BY <1>1, <1>9, <2>1, <2>2 DEF RowsFit
  <2>4. RowsFit'
    <3>1. \A i \in 1..(n + 1) : i = n + 1 \/ i \in 1..n
      BY <2>2
    <3>2. \A i \in DOMAIN rows' : Len(rows'[i].log) <= MaxEvents
      BY <1>1, <2>1, <2>3, <3>1 DEF RowsFit
    <3>3. Len(rows') <= MaxQuestions
      BY <2>2, <2>3 DEF ChatConstants
    <3> QED BY <2>3, <3>2, <3>3 DEF RowsFit
  <2>5. ListFits'
    <3>1. \A k \in Nat : k <= n => k <= n + 1
      BY <2>2
    <3>2. Len(list) \in Nat /\ (listing.at = "read" => Len(listing.statuses) \in Nat)
      BY <1>1 DEF ListFits, Listings, None
    <3> QED BY <1>1, <1>2, <2>2, <2>3, <3>1, <3>2 DEF ListFits
  <2>6. PagesFit'
    <3>1. DOMAIN rows \subseteq DOMAIN rows'
      BY <2>2, <2>3
    <3> QED BY <1>1, <1>2, <3>1 DEF PagesFit
  <2> QED BY <1>6, <2>4, <2>5, <2>6 DEF ChatInv
<1> QED BY <1>7, <1>8, <1>9 DEF Create

\* The reads start again; those of questions shown are of questions made.
LEMMA InvalidatedFits ==
  ASSUME ChatInv, Invalidated, UNCHANGED rows
  PROVE  RowsFit' /\ ListFits' /\ PagesFit'
<1>1. RowsFit /\ ListFits /\ PagesFit
  BY DEF ChatInv
<1>2. PICK s : s = [at |-> "sent"]
  OBVIOUS
<1>3. /\ listing' = s /\ UNCHANGED <<list, stream>>
      /\ paging' = [q \in Questions |-> IF q \in DOMAIN list /\ (paging[q] = None \/ stream[q].read) THEN s ELSE paging[q]]
  BY <1>2 DEF Invalidated
<1>4. s \in Pagings /\ PageFits(s) /\ s \in Listings /\ s.at = "sent"
  BY <1>2 DEF PageFits, Pagings, Listings
<1>5. RowsFit' /\ ListFits'
  BY <1>1, <1>3, <1>4 DEF RowsFit, ListFits
<1>6. DOMAIN list \subseteq DOMAIN rows
  BY <1>1 DEF ListFits, RowsFit
<1>7. PagesFit'
  BY <1>1, <1>3, <1>4, <1>6 DEF PagesFit
<1> QED BY <1>5, <1>7

LEMMA AnswersFit ==
  ASSUME ChatConstants, ChatInv, NEW a \in asking, Made(a) \/ NotMade(a) \/ Asked(a)
  PROVE  ChatInv'
<1>1. AsksFit /\ a \in Callers
  BY DEF ChatInv, AsksFit
<1>2. PICK b : b = [a EXCEPT !.at = "reads"]
  OBVIOUS
<1>3. b \in Callers /\ b.at = "reads"
  BY <1>1, <1>2 DEF Callers
<1>4. token \in Nat \ {0} /\ submits \in Int /\ token + Cardinality(Waiting) <= submits + 1
  BY <1>1 DEF AsksFit
<1>5. CASE Made(a)
  <2>1. /\ a.at = "made" /\ text' = NoText /\ token' = token + 1 /\ asking' = (asking \ {a}) \cup {b} /\ Invalidated
        /\ UNCHANGED <<pending, rows, submits, asks>>
    BY <1>2, <1>5 DEF Made
  <2>2. /\ asking' \subseteq Callers /\ IsFiniteSet(Waiting') /\ Cardinality(Waiting') \in Nat /\ Cardinality(Waiting) \in Nat
        /\ Cardinality(Waiting') + 1 <= Cardinality(Waiting)
    <3>1. a.at # "reads"
      BY <2>1
    <3> QED BY <1>3, <2>1, <3>1, WaitingIs
  <2>3. token' \in Nat \ {0} /\ token' + Cardinality(Waiting') <= submits' + 1
    BY <1>4, <2>1, <2>2
  <2>4. AsksFit'
    BY <1>1, <2>1, <2>2, <2>3 DEF AsksFit
  <2> QED BY <2>1, <2>4, InvalidatedFits DEF ChatInv
<1>6. CASE NotMade(a) \/ Asked(a)
  <2>1. /\ asking' = asking \ {a} /\ pending' = FALSE
        /\ UNCHANGED <<text, token, rows, submits, asks, list, listing, stream, paging>>
    BY <1>6 DEF NotMade, Asked, reads
  <2>2. /\ asking' \subseteq Callers /\ IsFiniteSet(Waiting') /\ Cardinality(Waiting') \in Nat /\ Cardinality(Waiting) \in Nat
        /\ Cardinality(Waiting') <= Cardinality(Waiting)
    <3>1. a.at # "reads" => a.at # "reads"
      OBVIOUS
    <3> QED BY <1>3, <2>1, WaitingIs
  <2>3. token' + Cardinality(Waiting') <= submits' + 1
    BY <1>4, <2>1, <2>2
  <2>4. AsksFit'
    BY <1>1, <2>1, <2>2, <2>3 DEF AsksFit
  <2> QED BY <2>1, <2>4, ReadsStay DEF ChatInv
<1> QED BY <1>5, <1>6

-----------------------------------------------------------------------------
(* The service and the agent. *)

LEMMA RowFits ==
  ASSUME ChatInv, NEW n \in DOMAIN rows, NEW row \in ChatRows, Len(row.log) <= MaxEvents, rows' = [rows EXCEPT ![n] = row]
  PROVE  /\ RowsFit' /\ Len(rows') = Len(rows) /\ DOMAIN rows' = DOMAIN rows
         /\ UNCHANGED <<list, listing>> => ListFits'
         /\ UNCHANGED <<stream, paging>> => PagesFit'
<1>1. RowsFit /\ ListFits /\ PagesFit
  BY DEF ChatInv
<1>2. /\ rows' \in Seq(ChatRows) /\ Len(rows') = Len(rows) /\ DOMAIN rows' = DOMAIN rows
      /\ \A i \in DOMAIN rows : rows'[i] = IF i = n THEN row ELSE rows[i]
  BY <1>1 DEF RowsFit
<1>3. RowsFit'
  BY <1>1, <1>2 DEF RowsFit
<1>4. UNCHANGED <<list, listing>> => ListFits'
  BY <1>1, <1>2 DEF ListFits
<1>5. UNCHANGED <<stream, paging>> => PagesFit'
  BY <1>1, <1>2 DEF PagesFit
<1> QED BY <1>2, <1>3, <1>4, <1>5

LEMMA CancelFits == ASSUME ChatConstants, ChatInv, NEW n \in DOMAIN rows, Cancel(n) PROVE ChatInv'
<1>1. AsksFit /\ RowsFit /\ ListFits /\ PagesFit
  BY DEF ChatInv
<1>2. /\ Invalidated /\ UNCHANGED <<text, token, pending, asking, submits, asks>>
      /\ rows' = [rows EXCEPT ![n].status = "cancelled"]
  BY DEF Cancel, composer
<1>3. PICK row : row = [rows[n] EXCEPT !.status = "cancelled"]
  OBVIOUS
<1>4. rows[n] \in ChatRows /\ Len(rows[n].log) <= MaxEvents
  BY <1>1 DEF RowsFit
<1>5. row \in ChatRows /\ row.log = rows[n].log
  BY <1>3, <1>4 DEF ChatRows, Statuses
<1>6. rows' = [rows EXCEPT ![n] = row]
  BY <1>2, <1>3
<1>7. RowsFit' /\ Len(rows') = Len(rows) /\ DOMAIN rows' = DOMAIN rows
  BY <1>4, <1>5, <1>6, RowFits
<1>8. PICK s : s = [at |-> "sent"]
  OBVIOUS
<1>9. /\ listing' = s /\ UNCHANGED <<list, stream>>
      /\ paging' = [q \in Questions |-> IF q \in DOMAIN list /\ (paging[q] = None \/ stream[q].read) THEN s ELSE paging[q]]
  BY <1>2, <1>8 DEF Invalidated
<1>10. s \in Pagings /\ PageFits(s) /\ s \in Listings /\ s.at = "sent"
  BY <1>8 DEF PageFits, Pagings, Listings
<1>11. ListFits'
  BY <1>1, <1>7, <1>9, <1>10 DEF ListFits
<1>12. DOMAIN list \subseteq DOMAIN rows
  BY <1>1 DEF ListFits, RowsFit
<1>13. PagesFit'
  BY <1>1, <1>7, <1>9, <1>10, <1>12 DEF PagesFit
<1>14. AsksFit'
  BY <1>1, <1>2 DEF AsksFit, Waiting
<1> QED BY <1>7, <1>11, <1>13, <1>14 DEF ChatInv

LEMMA AgentFits == ASSUME ChatConstants, ChatInv, NEW n \in DOMAIN rows, Agent(n) PROVE ChatInv'
<1>1. AsksFit /\ RowsFit /\ ListFits /\ PagesFit
  BY DEF ChatInv
<1>2. UNCHANGED <<text, token, pending, asking, submits, asks, list, listing, stream, paging>>
  BY DEF Agent, composer, reads
<1>3. rows[n] \in ChatRows /\ Len(rows[n].log) <= MaxEvents /\ Len(rows[n].log) \in Nat /\ MaxEvents \in Nat
  <2>1. PICK old : old = rows[n]
    OBVIOUS
  <2>2. old \in ChatRows /\ Len(old.log) <= MaxEvents
    BY <1>1, <2>1 DEF RowsFit
  <2>3. Len(old.log) \in Nat
    BY <2>2 DEF ChatRows
  <2>4. MaxEvents \in Nat
    BY DEF ChatConstants
  <2> QED BY <2>1, <2>2, <2>3, <2>4
<1>4. \E status \in Statuses, log \in Seq(Events) :
        Len(log) <= MaxEvents /\ rows' = [rows EXCEPT ![n] = [rows[n] EXCEPT !.status = status, !.log = log]]
  <2>1. PICK old : old = rows[n] /\ old \in ChatRows
    BY <1>3
  <2>2. old.log \in Seq(Events) /\ old.status \in Statuses
    BY <2>1 DEF ChatRows
  <2>3. ASSUME NEW status \in Statuses, rows' = [rows EXCEPT ![n].status = status]
        PROVE  rows' = [rows EXCEPT ![n] = [old EXCEPT !.status = status, !.log = old.log]]
    BY <2>1, <2>3 DEF ChatRows
  <2>4. ASSUME NEW e \in Events, Logs(n, e)
        PROVE  rows' = [rows EXCEPT ![n] = [old EXCEPT !.status = old.status, !.log = Append(old.log, e)]]
    BY <2>1, <2>4 DEF ChatRows, Logs
  <2>5. ASSUME rows' = [rows EXCEPT ![n].status = "running", ![n].log = Append(@, "started")]
        PROVE  rows' = [rows EXCEPT ![n] = [old EXCEPT !.status = "running", !.log = Append(old.log, "started")]]
    BY <2>1, <2>5 DEF ChatRows
  <2>6. ASSUME NEW e \in Events, Len(old.log) < MaxEvents
        PROVE  Append(old.log, e) \in Seq(Events) /\ Len(Append(old.log, e)) <= MaxEvents
    BY <1>3, <2>1, <2>2, <2>6
  <2>7. \/ Len(old.log) < MaxEvents /\ rows' = [rows EXCEPT ![n].status = "running", ![n].log = Append(@, "started")]
        \/ Len(old.log) < MaxEvents /\ \E e \in Events : Logs(n, e)
        \/ \E status \in Statuses : rows' = [rows EXCEPT ![n].status = status]
    BY <2>1 DEF Agent, Statuses, Events
  <2>8. "running" \in Statuses /\ "started" \in Events
    BY DEF Statuses, Events
  <2>9. ASSUME NEW status \in Statuses, NEW log \in Seq(Events), Len(log) <= MaxEvents,
               rows' = [rows EXCEPT ![n] = [old EXCEPT !.status = status, !.log = log]]
        PROVE  \E st \in Statuses, lg \in Seq(Events) :
                 Len(lg) <= MaxEvents /\ rows' = [rows EXCEPT ![n] = [rows[n] EXCEPT !.status = st, !.log = lg]]
    BY <2>1, <2>9
  <2>10. CASE Len(old.log) < MaxEvents /\ rows' = [rows EXCEPT ![n].status = "running", ![n].log = Append(@, "started")]
    BY <2>5, <2>6, <2>8, <2>9, <2>10
  <2>11. CASE Len(old.log) < MaxEvents /\ \E e \in Events : Logs(n, e)
    BY <2>2, <2>4, <2>6, <2>9, <2>11
  <2>12. CASE \E status \in Statuses : rows' = [rows EXCEPT ![n].status = status]
    BY <1>3, <2>1, <2>2, <2>3, <2>9, <2>12
  <2> QED BY <2>7, <2>10, <2>11, <2>12
<1> PICK status \in Statuses, log \in Seq(Events) :
        Len(log) <= MaxEvents /\ rows' = [rows EXCEPT ![n] = [rows[n] EXCEPT !.status = status, !.log = log]]
  BY <1>4
<1>5. PICK row : row = [rows[n] EXCEPT !.status = status, !.log = log]
  OBVIOUS
<1>6. row \in ChatRows /\ row.log = log
  BY <1>3, <1>5 DEF ChatRows
<1>7. rows' = [rows EXCEPT ![n] = row] /\ Len(row.log) <= MaxEvents
  BY <1>5, <1>6
<1>8. RowsFit' /\ ListFits' /\ PagesFit'
  BY <1>2, <1>6, <1>7, RowFits
<1>9. AsksFit'
  BY <1>1, <1>2 DEF AsksFit, Waiting
<1> QED BY <1>8, <1>9 DEF ChatInv

-----------------------------------------------------------------------------
(* The reads. *)

LEMMA ListReadFits ==
  ASSUME ChatConstants, ChatInv, PollList \/ ListRead \/ ListLands \/ ListFails
  PROVE  ChatInv'
<1>1. AsksFit /\ RowsFit /\ ListFits /\ PagesFit
  BY DEF ChatInv
<1>2. UNCHANGED <<text, token, pending, asking, submits, asks, rows, stream, paging>>
  BY DEF PollList, ListRead, ListLands, ListFails, composer
<1>3. AsksFit' /\ RowsFit' /\ PagesFit'
  BY <1>1, <1>2 DEF AsksFit, Waiting, RowsFit, PagesFit
<1>4. CASE PollList \/ ListFails
  <2>1. list' = list /\ listing' \in {None, [at |-> "sent"]}
    BY <1>4 DEF PollList, ListFails
  <2>2. listing' \in Listings /\ listing'.at # "read"
    BY <2>1 DEF Listings, None
  <2>3. ListFits'
    BY <1>1, <1>2, <2>1, <2>2 DEF ListFits
  <2> QED BY <1>3, <2>3 DEF ChatInv
<1>5. CASE ListRead
  <2>1. PICK s : s = [n \in DOMAIN rows |-> rows[n].status]
    OBVIOUS
  <2>2. list' = list /\ listing' = [at |-> "read", statuses |-> s]
    BY <1>5, <2>1 DEF ListRead
  <2>3. PICK n : n = Len(rows) /\ n \in Nat /\ DOMAIN rows = 1..n
    BY <1>1 DEF RowsFit
  <2>4. \A i \in 1..n : rows[i].status \in Statuses
    <3>1. \A i \in 1..n : rows[i] \in ChatRows
      BY <1>1, <2>3 DEF RowsFit
    <3> QED BY <3>1 DEF ChatRows
  <2>5. s \in Seq(Statuses) /\ Len(s) = n
    BY <2>1, <2>3, <2>4
  <2>6. listing' \in Listings /\ listing'.statuses = s
    BY <2>2, <2>5 DEF Listings
  <2>7. ListFits'
    BY <1>1, <1>2, <2>2, <2>3, <2>5, <2>6 DEF ListFits
  <2> QED BY <1>3, <2>7 DEF ChatInv
<1>6. CASE ListLands
  <2>1. listing.at = "read" /\ list' = listing.statuses /\ listing' = None
    BY <1>6 DEF ListLands
  <2>2. listing.statuses \in Seq(Statuses)
    BY <1>1, <2>1 DEF ListFits, Listings, None
  <2>3. listing' \in Listings /\ listing'.at # "read"
    BY <2>1 DEF Listings, None
  <2>4. ListFits'
    BY <1>1, <1>2, <2>1, <2>2, <2>3 DEF ListFits
  <2> QED BY <1>3, <2>4 DEF ChatInv
<1> QED BY <1>4, <1>5, <1>6

LEMMA LeastNat ==
  ASSUME NEW V \in SUBSET Nat, V # {}
  PROVE  \E n \in V : \A m \in V : n <= m
<1> DEFINE Less == {ss \in Nat \X Nat : ss[1] < ss[2]}
<1>1. IsWellFoundedOn(Less, Nat)
  <2>1. Less = OpToRel(<, Nat)
    BY DEF OpToRel
  <2> QED BY <2>1, NatLessThanWellFounded
<1>2. PICK n \in V : \A m \in V : <<m, n>> \notin Less
  BY <1>1, WFMin
<1>3. \A i, j \in Nat : i < j => <<i, j>> \in Less
  OBVIOUS
<1> HIDE DEF Less
<1>4. n \in Nat /\ \A m \in V : m \in Nat /\ ~(m < n)
  BY <1>2, <1>3
<1> QED BY <1>4

\* The stream after event i of the page, from x before it.
Turned(page, i, x) == IF page.from + i > x.last THEN Fold(x, page.events[i], page.from + i) ELSE x
Unfolds(st, page, n, f) == f = [i \in 0..n |-> IF i = 0 THEN st ELSE Turned(page, i, f[i - 1])]

LEMMA FoldsExist ==
  ASSUME NEW st, NEW page, NEW len \in Nat
  PROVE  \E f : Unfolds(st, page, len, f)
<1> DEFINE Bad == {n \in Nat : ~\E f : Unfolds(st, page, n, f)}
<1>1. SUFFICES ASSUME Bad # {} PROVE FALSE
  OBVIOUS
<1>2. PICK n \in Bad : \A m \in Bad : n <= m
  <2>1. Bad \in SUBSET Nat
    OBVIOUS
  <2> HIDE DEF Bad
  <2> QED BY <1>1, <2>1, LeastNat
<1>3. n \in Nat /\ ~\E f : Unfolds(st, page, n, f)
  BY <1>2
<1>4. n # 0
  <2>1. SUFFICES ASSUME n = 0 PROVE FALSE
    OBVIOUS
  <2>2. Unfolds(st, page, 0, [i \in 0..0 |-> st])
    BY DEF Unfolds
  <2> QED BY <1>3, <2>1, <2>2
<1>5. PICK m \in Nat : n = m + 1
  BY <1>3, <1>4
<1>6. m \notin Bad
  <2> HIDE DEF Bad
  <2> QED BY <1>2, <1>3, <1>5
<1>7. PICK f : Unfolds(st, page, m, f)
  BY <1>6
<1>8. PICK x : x = Turned(page, n, f[m])
  OBVIOUS
<1>9. PICK g : g = [i \in 0..n |-> IF i = n THEN x ELSE f[i]]
  OBVIOUS
<1>10. g = [i \in 0..n |-> IF i = 0 THEN st ELSE Turned(page, i, g[i - 1])]
  <2>1. \A i \in 0..n : g[i] = IF i = 0 THEN st ELSE Turned(page, i, g[i - 1])
    <3> SUFFICES ASSUME NEW i \in 0..n PROVE g[i] = IF i = 0 THEN st ELSE Turned(page, i, g[i - 1])
      OBVIOUS
    <3>1. CASE i = n
      <4>1. g[i] = x /\ g[i - 1] = f[m] /\ i # 0
        BY <1>3, <1>4, <1>5, <1>9, <3>1
      <4> QED BY <1>8, <3>1, <4>1
    <3>2. CASE i # n
      <4>1. i \in 0..m /\ g[i] = f[i] /\ (i # 0 => g[i - 1] = f[i - 1])
        BY <1>3, <1>5, <1>9, <3>2
      <4>2. f[i] = IF i = 0 THEN st ELSE Turned(page, i, f[i - 1])
        BY <1>7, <4>1 DEF Unfolds
      <4> QED BY <4>1, <4>2
    <3> QED BY <3>1, <3>2
  <2> QED BY <1>9, <2>1
<1> QED BY <1>3, <1>10 DEF Unfolds

LEMMA FoldFits ==
  ASSUME NEW st, StreamFits(st), NEW e, NEW n \in 0..MaxEvents
  PROVE  StreamFits(Fold(st, e, n))
<1> DEFINE next == [st EXCEPT !.last = n]
<1>1. DOMAIN next = DOMAIN st /\ next.last = n
  BY DEF StreamFits
<1>2. \E s : Fold(st, e, n) = [next EXCEPT !.steps = s]
  BY DEF Fold
<1> HIDE DEF next
<1>3. PICK s : Fold(st, e, n) = [next EXCEPT !.steps = s]
  BY <1>2
<1>4. PICK to : to = [next EXCEPT !.steps = s]
  OBVIOUS
<1>5. DOMAIN to = DOMAIN next /\ to.last = next.last
  BY <1>1, <1>4 DEF StreamFits
<1> QED BY <1>1, <1>3, <1>4, <1>5 DEF StreamFits

\* Folding a page's events keeps the stream within its log's bound.
LEMMA FoldsFit ==
  ASSUME ChatConstants, NEW st, StreamFits(st), NEW page, page.from \in Nat, NEW len \in Nat,
         page.from + len <= MaxEvents, NEW f, Unfolds(st, page, len, f)
  PROVE  \A i \in 0..len : StreamFits(f[i])
<1> DEFINE Bad == {i \in 0..len : ~StreamFits(f[i])}
<1>1. SUFFICES ASSUME Bad # {} PROVE FALSE
  OBVIOUS
<1>2. PICK n \in Bad : \A m \in Bad : n <= m
  <2>1. Bad \in SUBSET Nat
    OBVIOUS
  <2> HIDE DEF Bad
  <2> QED BY <1>1, <2>1, LeastNat
<1>3. n \in 0..len /\ ~StreamFits(f[n])
  BY <1>2
<1>4. f[n] = IF n = 0 THEN st ELSE Turned(page, n, f[n - 1])
  BY <1>3 DEF Unfolds
<1>5. n # 0
  BY <1>3, <1>4
<1>6. PICK m : m = n - 1
  OBVIOUS
<1>7. m \in 0..len /\ n \in Nat /\ ~(n <= m)
  BY <1>3, <1>5, <1>6
<1>8. StreamFits(f[m])
  <2>1. m \notin Bad
    <3> HIDE DEF Bad
    <3> QED BY <1>2, <1>7
  <2> QED BY <1>7, <2>1
<1>9. PICK x, e, k : x = f[m] /\ e = page.events[n] /\ k = page.from + n
  OBVIOUS
<1>10. k \in 0..MaxEvents
  BY <1>3, <1>9 DEF ChatConstants
<1>11. StreamFits(x) /\ f[n] \in {x, Fold(x, e, k)}
  BY <1>4, <1>5, <1>6, <1>8, <1>9 DEF Turned
<1>12. StreamFits(Fold(x, e, k))
  BY <1>10, <1>11, FoldFits
<1> QED BY <1>3, <1>11, <1>12

LEMMA ReduceFits ==
  ASSUME ChatConstants, NEW st, StreamFits(st), NEW page, page.from \in Nat, page.events \in Seq(Events),
         page.from + Len(page.events) <= MaxEvents
  PROVE  StreamFits(reduceEvents(st, page))
<1>1. PICK len : len = Len(page.events)
  OBVIOUS
<1>2. len \in Nat /\ page.from + len <= MaxEvents
  BY <1>1
<1>3. PICK f : f = CHOOSE g : Unfolds(st, page, len, g)
  OBVIOUS
<1>4. Unfolds(st, page, len, f)
  BY <1>2, <1>3, FoldsExist
<1>5. PICK all : all = f[len]
  OBVIOUS
<1>6. StreamFits(all)
  <2>1. len \in 0..len
    BY <1>2
  <2> QED BY <1>2, <1>4, <1>5, <2>1, FoldsFit
<1>7. PICK to : to = reduceEvents(st, page)
  OBVIOUS
<1>8. to = [all EXCEPT !.read = TRUE, !.complete = ~isLiveQuestion(page.status) /\ all.last >= page.lastSeq]
  BY <1>1, <1>3, <1>5, <1>7 DEF reduceEvents, Unfolds, Turned
<1>9. DOMAIN to = DOMAIN all /\ to.last = all.last
  BY <1>6, <1>8 DEF StreamFits
<1> QED BY <1>6, <1>7, <1>9 DEF StreamFits

\* One question's read moves, or lands.
LEMMA OnePage ==
  ASSUME ChatInv, NEW q \in Questions, NEW pg, PageFits(pg), NEW st, StreamFits(st),
         pg # None => q \in DOMAIN rows,
         paging' = [paging EXCEPT ![q] = pg], stream' = [stream EXCEPT ![q] = st],
         UNCHANGED rows
  PROVE  PagesFit'
<1>1. PagesFit
  BY DEF ChatInv
<1>2. /\ \A i \in Questions : stream'[i] = IF i = q THEN st ELSE stream[i]
      /\ \A i \in Questions : paging'[i] = IF i = q THEN pg ELSE paging[i]
      /\ DOMAIN stream' = Questions /\ stream' = [i \in Questions |-> stream'[i]]
      /\ paging' \in [Questions -> Pagings]
  BY <1>1 DEF PagesFit, PageFits
<1>3. stream' \in [Questions -> {stream'[i] : i \in Questions}]
  BY <1>2
<1> QED BY <1>1, <1>2, <1>3 DEF PagesFit

LEMMA PageReadFits ==
  ASSUME ChatConstants, ChatInv, NEW q \in Questions,
         PollEvents(q) \/ EventsStatus(q) \/ EventsPage(q) \/ EventsLand(q) \/ EventsFail(q)
  PROVE  ChatInv'
<1>1. AsksFit /\ RowsFit /\ ListFits /\ PagesFit
  BY DEF ChatInv
<1>2. UNCHANGED <<text, token, pending, asking, submits, asks, rows, list, listing>>
  BY DEF PollEvents, EventsStatus, EventsPage, EventsLand, EventsFail, composer
<1>3. AsksFit' /\ RowsFit' /\ ListFits'
  BY <1>1, <1>2 DEF AsksFit, Waiting, RowsFit, ListFits
<1>4. PICK old, pg : old = stream[q] /\ pg = paging[q]
  OBVIOUS
<1>5. StreamFits(old) /\ PageFits(pg) /\ (pg # None => q \in DOMAIN rows) /\ stream = [stream EXCEPT ![q] = old]
  BY <1>1, <1>4 DEF PagesFit
<1>6. ASSUME NEW next, NEW st, paging' = [paging EXCEPT ![q] = next], stream' = [stream EXCEPT ![q] = st],
             PageFits(next), StreamFits(st), next # None => q \in DOMAIN rows
      PROVE  ChatInv'
  BY <1>2, <1>3, <1>6, OnePage DEF ChatInv
<1>7. PICK none, sent : none = None /\ sent = [at |-> "sent"]
  OBVIOUS
<1>8. PageFits(none) /\ PageFits(sent)
  BY <1>7 DEF PageFits, Pagings, None
<1>9. DOMAIN list \subseteq DOMAIN rows
  BY <1>1 DEF ListFits, RowsFit
<1>10. CASE PollEvents(q)
  <2>1. q \in DOMAIN list /\ paging' = [paging EXCEPT ![q] = sent] /\ stream' = [stream EXCEPT ![q] = old]
    BY <1>5, <1>7, <1>10 DEF PollEvents
  <2> QED BY <1>5, <1>6, <1>8, <1>9, <2>1
<1>11. CASE EventsFail(q)
  <2>1. paging' = [paging EXCEPT ![q] = none] /\ stream' = [stream EXCEPT ![q] = old]
    BY <1>5, <1>7, <1>11 DEF EventsFail
  <2> QED BY <1>5, <1>6, <1>7, <1>8, <2>1
<1>12. ASSUME pg.at # "none" PROVE /\ q \in DOMAIN rows /\ rows[q].status \in Statuses /\ rows[q].log \in Seq(Events)
                                   /\ Len(rows[q].log) <= MaxEvents
  <2>1. q \in DOMAIN rows
    BY <1>5, <1>12 DEF None
  <2>2. rows[q] \in ChatRows /\ Len(rows[q].log) <= MaxEvents
    BY <1>1, <2>1 DEF RowsFit
  <2> QED BY <2>1, <2>2 DEF ChatRows
<1>13. CASE EventsStatus(q)
  <2>1. PICK status, log : status = rows[q].status /\ log = rows[q].log
    OBVIOUS
  <2>2. PICK last : last = Len(log)
    OBVIOUS
  <2>3. PICK next : next = [at |-> "half", status |-> status, lastSeq |-> last]
    OBVIOUS
  <2>4. pg.at = "sent" /\ paging' = [paging EXCEPT ![q] = next] /\ stream' = [stream EXCEPT ![q] = old]
    BY <1>4, <1>5, <1>13, <2>1, <2>2, <2>3 DEF EventsStatus
  <2>5. q \in DOMAIN rows /\ status \in Statuses /\ last \in Nat
    BY <1>12, <2>1, <2>2, <2>4
  <2>6. PageFits(next)
    BY <2>3, <2>5 DEF PageFits, Pagings
  <2> QED BY <1>5, <1>6, <2>4, <2>5, <2>6
<1>14. CASE EventsPage(q)
  <2>1. PICK from, log : from = old.last /\ log = rows[q].log
    OBVIOUS
  <2>2. PICK upTo : upTo = IF from + PageSize < Len(log) THEN from + PageSize ELSE Len(log)
    OBVIOUS
  <2>3. PICK events : events = SubSeq(log, from + 1, upTo)
    OBVIOUS
  <2>4. PICK next : next = [at |-> "read", status |-> pg.status, lastSeq |-> pg.lastSeq, from |-> from, events |-> events]
    OBVIOUS
  <2>5. pg.at = "half" /\ paging' = [paging EXCEPT ![q] = next] /\ stream' = [stream EXCEPT ![q] = old]
    BY <1>1, <1>4, <1>5, <1>14, <2>1, <2>2, <2>3, <2>4 DEF EventsPage, PagesFit
  <2>6. q \in DOMAIN rows /\ log \in Seq(Events) /\ Len(log) <= MaxEvents /\ Len(log) \in Nat
    BY <1>12, <2>1, <2>5
  <2>7. from \in Nat /\ from <= MaxEvents /\ MaxEvents \in Nat /\ PageSize \in Nat
    BY <1>5, <2>1 DEF StreamFits, ChatConstants
  <2>8. upTo \in Nat /\ upTo <= Len(log)
    BY <2>2, <2>6, <2>7
  <2>9. events \in Seq(Events) /\ from + Len(events) <= MaxEvents
    <3>1. CASE from + 1 <= upTo
      <4>1. events \in Seq(Events) /\ Len(events) = upTo - from
        BY <2>3, <2>6, <2>7, <2>8, <3>1
      <4> QED BY <2>6, <2>7, <2>8, <4>1
    <3>2. CASE ~(from + 1 <= upTo)
      <4>1. events = <<>>
        BY <2>3, <2>6, <2>7, <2>8, <3>2
      <4> QED BY <2>7, <4>1
    <3> QED BY <3>1, <3>2
  <2>10. pg.status \in Statuses /\ pg.lastSeq \in Nat
    BY <1>5, <2>5 DEF PageFits, Pagings, None
  <2>11. next \in Pagings /\ next.from = from /\ next.events = events
    BY <2>4, <2>7, <2>9, <2>10 DEF Pagings
  <2>12. PageFits(next)
    BY <2>9, <2>11 DEF PageFits
  <2> QED BY <1>5, <1>6, <2>5, <2>6, <2>12
<1>15. CASE EventsLand(q)
  <2>1. PICK st : st = reduceEvents(old, pg)
    OBVIOUS
  <2>2. pg.at = "read" /\ paging' = [paging EXCEPT ![q] = none] /\ stream' = [stream EXCEPT ![q] = st]
    BY <1>1, <1>4, <1>7, <1>15, <2>1 DEF EventsLand, PagesFit
  <2>3. pg.from \in Nat /\ pg.events \in Seq(Events) /\ pg.from + Len(pg.events) <= MaxEvents
    BY <1>5, <2>2 DEF PageFits, Pagings, None
  <2>4. StreamFits(st)
    BY <1>5, <2>1, <2>3, ReduceFits
  <2> QED BY <1>6, <1>7, <1>8, <2>2, <2>4
<1> QED BY <1>10, <1>11, <1>13, <1>14, <1>15

LEMMA ChatGoesOn == ASSUME ChatConstants, ChatInv, [ChatNext]_chatVars PROVE ChatInv'
<1>1. CASE UNCHANGED chatVars
  BY <1>1 DEF chatVars, ChatInv, AsksFit, Waiting, RowsFit, ListFits, PagesFit
<1>2. ASSUME NEW x \in Texts, Type(x) PROVE ChatInv'
  <2>1. text' = x /\ UNCHANGED <<token, pending, asking, rows, submits, asks, list, listing, stream, paging>>
    BY <1>2 DEF Type, reads
  <2>2. AsksFit'
    BY <2>1 DEF ChatInv, AsksFit, Waiting
  <2> QED BY <2>1, <2>2, ReadsStay DEF ChatInv
<1>3. ASSUME NEW b \in BOOLEAN, Submit(b) PROVE ChatInv'
  BY <1>3, SubmitFits
<1>4. ASSUME NEW a \in asking, Create(a) \/ Made(a) \/ NotMade(a) \/ Asked(a) PROVE ChatInv'
  BY <1>4, CreateFits, AnswersFit
<1>5. ASSUME NEW n \in DOMAIN rows, Cancel(n) \/ Agent(n) PROVE ChatInv'
  BY <1>5, CancelFits, AgentFits
<1>6. CASE PollList \/ ListRead \/ ListLands \/ ListFails
  BY <1>6, ListReadFits
<1>7. ASSUME NEW q \in Questions, PollEvents(q) \/ EventsStatus(q) \/ EventsPage(q) \/ EventsLand(q) \/ EventsFail(q)
      PROVE  ChatInv'
  BY <1>7, PageReadFits
<1> QED BY <1>1, <1>2, <1>3, <1>4, <1>5, <1>6, <1>7, Zenon DEF ChatNext, AgentStep

\* A token is used up by a question made, no question is shown that the
\* service has not, and no stream runs ahead of what its log may hold.
THEOREM ChatHolds == ASSUME ChatConstants PROVE ChatSpec => []ChatTypeOK
<1>1. ChatInv => ChatTypeOK
  <2>1. SUFFICES ASSUME ChatInv PROVE ChatTypeOK
    OBVIOUS
  <2>2. AsksFit /\ RowsFit /\ ListFits /\ PagesFit
    BY <2>1 DEF ChatInv
  <2>3. token \in 1..(MaxSubmits + 1) /\ submits \in 0..MaxSubmits /\ asks \in 0..MaxSubmits
    <3>1. IsFiniteSet(Waiting) /\ Cardinality(Waiting) \in Nat
      BY <2>2, FS_CardinalityType DEF AsksFit
    <3>2. MaxSubmits \in Nat /\ submits \in Nat /\ submits <= MaxSubmits /\ token \in Nat \ {0}
      BY <2>2 DEF AsksFit, ChatConstants
    <3> QED BY <2>2, <3>1, <3>2 DEF AsksFit
  <2>4. \A a \in asking : a.at \in {"sent", "made", "refused", "reads"} /\ a.text \in Texts
    BY <2>2 DEF AsksFit, Callers
  <2>5. \A n \in DOMAIN rows : rows[n].status \in Statuses /\ Len(rows[n].log) <= MaxEvents
    <3>1. \A n \in DOMAIN rows : rows[n] \in ChatRows /\ Len(rows[n].log) <= MaxEvents
      BY <2>2 DEF RowsFit
    <3> QED BY <3>1 DEF ChatRows
  <2>6. \A q \in Questions : stream[q].last \in 0..MaxEvents
    BY <2>2 DEF PagesFit, StreamFits
  <2> QED BY <2>2, <2>3, <2>4, <2>5, <2>6 DEF AsksFit, RowsFit, ListFits, ChatTypeOK
<1>2. ChatConstants /\ ChatInv /\ [ChatNext]_chatVars => ChatInv'
  BY ChatGoesOn
<1>3. ChatConstants /\ ChatInit => ChatInv
  BY ChatStart
<1> QED BY <1>1, <1>2, <1>3, PTL DEF ChatSpec
=============================================================================

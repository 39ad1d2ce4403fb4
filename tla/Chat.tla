-------------------------------- MODULE Chat --------------------------------
(* A thread open in Analyst, its list of questions read: the composer that   *)
(* asks a follow-up under a client token, the list polled while a question   *)
(* it shows is live, and per question the stream of the agent's events,      *)
(* polled after the last folded until the question ended and all are folded. *)
EXTENDS Naturals, Sequences, FiniteSets

CONSTANTS
  Texts,         \* what one may ask
  MaxQuestions,  \* bound: follow-ups asked
  MaxSubmits,    \* bound: submissions
  MaxEvents,     \* bound: events of a question
  PageSize       \* events a page of them holds

VARIABLES
  text, token, pending,     \* the composer: its box, its client token, its own call unanswered
  asking,                   \* ask calls under way
  rows,                     \* the service's questions, in the order asked
  list, listing,            \* the statuses the thread's list shows; a read of it under way
  stream, paging,           \* per question, its stream; a read of its events under way
  submits, meant, asks      \* submissions; ghost: the text last meant, and how many were
chatVars == <<text, token, pending, asking, rows, list, listing, stream, paging, submits, meant, asks>>

ChatConstants == {MaxQuestions, MaxSubmits, MaxEvents} \subseteq Nat /\ PageSize \in Nat \ {0}

NoText == 0
None == [at |-> "none"]
EMPTY_STREAM == [last |-> 0, steps |-> <<>>, complete |-> FALSE, read |-> FALSE]
Questions == 1..MaxQuestions
Statuses == {"queued", "running", "answered", "cancelled"}
isLiveQuestion(s) == s \in {"queued", "running"}

ChatInit ==
  /\ text = NoText /\ token = 1 /\ pending = FALSE /\ asking = {}
  /\ rows = <<>> /\ list = <<>> /\ listing = None
  /\ stream = [q \in Questions |-> EMPTY_STREAM] /\ paging = [q \in Questions |-> None]
  /\ submits = 0 /\ meant = NoText /\ asks = 0

composer == <<text, token, pending, asking, submits, meant, asks>>
reads == <<list, listing, stream, paging>>

-----------------------------------------------------------------------------
(* The composer. *)

Type(x) ==
  /\ text # x
  /\ text' = x
  /\ UNCHANGED <<token, pending, asking, rows, submits, meant, asks>> /\ UNCHANGED reads

\* submit, by its button, or by the shortcut, which submits the form however
\* the button is disabled.
Disabled == pending \/ text = NoText \/ \E q \in DOMAIN list : q = Len(list) /\ isLiveQuestion(list[q])
Submit(byShortcut) ==
  /\ submits < MaxSubmits /\ text # NoText
  /\ byShortcut \/ ~Disabled
  /\ asking' = asking \cup {[text |-> text, token |-> token, at |-> "sent", no |-> submits]}
  /\ pending' = TRUE /\ submits' = submits + 1
  /\ meant' = text /\ asks' = IF meant = text THEN asks ELSE asks + 1
  /\ UNCHANGED <<text, token, rows>> /\ UNCHANGED reads

\* The service: the same token is the same question, or refused for another.
Create(a) ==
  LET same == {n \in DOMAIN rows : rows[n].token = a.token} IN
  /\ a.at = "sent"
  /\ \/ /\ same = {} /\ Len(rows) < MaxQuestions
        /\ rows' = Append(rows, [text |-> a.text, token |-> a.token, status |-> "queued", log |-> <<>>])
        /\ asking' = (asking \ {a}) \cup {[a EXCEPT !.at = "made"]}
     \/ /\ \E n \in same : rows[n].text = a.text
        /\ asking' = (asking \ {a}) \cup {[a EXCEPT !.at = "made"]} /\ UNCHANGED rows
     \/ asking' = (asking \ {a}) \cup {[a EXCEPT !.at = "refused"]} /\ UNCHANGED rows
  /\ UNCHANGED <<text, token, pending, submits, meant, asks>> /\ UNCHANGED reads

\* invalidateQueries: every read under the questions' key starts again; one
\* that never landed goes on as it is.
Invalidated ==
  /\ listing' = [at |-> "sent"]
  /\ paging' = [q \in Questions |->
       IF q \in DOMAIN list /\ (paging[q] = None \/ stream[q].read) THEN [at |-> "sent"] ELSE paging[q]]
  /\ UNCHANGED <<list, stream>>

\* A new token; the composer waits for the list's read to settle.
Made(a) ==
  /\ a.at = "made"
  /\ text' = NoText /\ token' = token + 1 /\ meant' = NoText
  /\ asking' = (asking \ {a}) \cup {[a EXCEPT !.at = "reads"]}
  /\ Invalidated
  /\ UNCHANGED <<pending, rows, submits, asks>>

\* Mutant: a failed ask takes a new token.
NotMadeFault(a) ==
  /\ a.at \in {"sent", "made", "refused"}
  /\ asking' = asking \ {a} /\ pending' = FALSE /\ token' = token + 1
  /\ UNCHANGED <<text, rows, submits, meant, asks>> /\ UNCHANGED reads
\* Refused, or its answer lost: the token is kept for the retry.
NotMade(a) ==
  /\ a.at \in {"sent", "made", "refused"}
  /\ asking' = asking \ {a} /\ pending' = FALSE
  /\ UNCHANGED <<text, token, rows, submits, meant, asks>> /\ UNCHANGED reads

Asked(a) ==
  /\ a.at = "reads" /\ listing = None
  /\ asking' = asking \ {a} /\ pending' = FALSE
  /\ UNCHANGED <<text, token, rows, submits, meant, asks>> /\ UNCHANGED reads

\* cancel: the service ends a live question, and the reads start again.
Cancel(n) ==
  /\ n \in DOMAIN list /\ isLiveQuestion(list[n]) /\ isLiveQuestion(rows[n].status)
  /\ rows' = [rows EXCEPT ![n].status = "cancelled"]
  /\ Invalidated
  /\ UNCHANGED composer

-----------------------------------------------------------------------------
(* The agent: an attempt starts the log's steps anew; the log ends with it.  *)
(* A question ends answered or failed, before its agent started or after.    *)

Logs(n, e) == rows' = [rows EXCEPT ![n].log = Append(@, e)]
Started(s) == {i \in DOMAIN s : s[i] = "started"}
\* The events e of the latest attempt, by their place in the log.
Latest(s, e) == {i \in DOMAIN s : s[i] = e /\ \A j \in Started(s) : j < i}
CountOf(s, e) == Cardinality(Latest(s, e))
Agent(n) ==
  LET log == rows[n].log
      calls == CountOf(log, "call")
      results == CountOf(log, "result") IN
  /\ \/ /\ rows[n].status = "queued" /\ Len(log) < MaxEvents
        /\ rows' = [rows EXCEPT ![n].status = "running", ![n].log = Append(@, "started")]
     \/ /\ rows[n].status = "running" /\ Len(log) < MaxEvents
        /\ \/ Logs(n, "call")
           \/ results < calls /\ Logs(n, "result")
           \/ rows' = [rows EXCEPT ![n].status = "queued"]
     \/ isLiveQuestion(rows[n].status) /\ rows' = [rows EXCEPT ![n].status = "answered"]
  /\ UNCHANGED composer /\ UNCHANGED reads

-----------------------------------------------------------------------------
(* The reads. *)

\* refetchInterval of the list: while a question it shows is live.
PollList ==
  /\ listing = None /\ \E n \in DOMAIN list : isLiveQuestion(list[n])
  /\ listing' = [at |-> "sent"]
  /\ UNCHANGED <<rows, list, stream, paging>> /\ UNCHANGED composer

ListRead ==
  /\ listing.at = "sent"
  /\ listing' = [at |-> "read", statuses |-> [n \in DOMAIN rows |-> rows[n].status]]
  /\ UNCHANGED <<rows, list, stream, paging>> /\ UNCHANGED composer

ListLands ==
  /\ listing.at = "read"
  /\ list' = listing.statuses /\ listing' = None
  /\ UNCHANGED <<rows, stream, paging>> /\ UNCHANGED composer

\* It and its one retry failed: what is shown stays.
ListFails ==
  /\ listing # None
  /\ listing' = None
  /\ UNCHANGED <<rows, list, stream, paging>> /\ UNCHANGED composer

\* Mutant: polled only while the list shows it live.
PollEventsFault(q) ==
  /\ q \in DOMAIN list /\ isLiveQuestion(list[q]) /\ paging[q] = None /\ ~stream[q].complete
  /\ paging' = [paging EXCEPT ![q] = [at |-> "sent"]]
  /\ UNCHANGED <<rows, list, listing, stream>> /\ UNCHANGED composer
\* useStream: a question shown has its events polled until complete.
PollEvents(q) ==
  /\ q \in DOMAIN list /\ paging[q] = None /\ ~stream[q].complete
  /\ paging' = [paging EXCEPT ![q] = [at |-> "sent"]]
  /\ UNCHANGED <<rows, list, listing, stream>> /\ UNCHANGED composer

\* The service reads the question first, then a page of its events after the
\* last folded.
EventsStatus(q) ==
  /\ paging[q].at = "sent"
  /\ paging' = [paging EXCEPT ![q] = [at |-> "half", status |-> rows[q].status, lastSeq |-> Len(rows[q].log)]]
  /\ UNCHANGED <<rows, list, listing, stream>> /\ UNCHANGED composer

EventsPage(q) ==
  LET from == stream[q].last
      upTo == IF from + PageSize < Len(rows[q].log) THEN from + PageSize ELSE Len(rows[q].log) IN
  /\ paging[q].at = "half"
  /\ paging' = [paging EXCEPT ![q] = [at |-> "read", status |-> @.status, lastSeq |-> @.lastSeq,
                                      from |-> from, events |-> SubSeq(rows[q].log, from + 1, upTo)]]
  /\ UNCHANGED <<rows, list, listing, stream>> /\ UNCHANGED composer

\* reduceEvents, one event: a result answers the first step without one.
Fold(st, e, seq) ==
  LET open == {i \in DOMAIN st.steps : ~st.steps[i]}
      next == [st EXCEPT !.last = seq] IN
  CASE e = "started" -> [next EXCEPT !.steps = <<>>]
    [] e = "call" -> [next EXCEPT !.steps = Append(@, FALSE)]
    [] e = "result" /\ open = {} -> [next EXCEPT !.steps = Append(@, TRUE)]
    [] OTHER -> [next EXCEPT !.steps = [@ EXCEPT ![CHOOSE i \in open : \A j \in open : i <= j] = TRUE]]

\* Mutant: complete once the question ended, with events still to read.
reduceEventsFault(st, page) ==
  LET folds[i \in 0..Len(page.events)] ==
        IF i = 0 THEN st ELSE Fold(folds[i - 1], page.events[i], page.from + i)
  IN [folds[Len(page.events)] EXCEPT !.read = TRUE, !.complete = ~isLiveQuestion(page.status)]

\* The events of a page after the last folded, in order, then whether it is
\* complete: the question ended and its log's end was reached.
reduceEvents(st, page) ==
  LET folds[i \in 0..Len(page.events)] ==
        IF i = 0 THEN st
        ELSE IF page.from + i > folds[i - 1].last THEN Fold(folds[i - 1], page.events[i], page.from + i) ELSE folds[i - 1]
      all == folds[Len(page.events)]
  IN [all EXCEPT !.read = TRUE, !.complete = ~isLiveQuestion(page.status) /\ all.last >= page.lastSeq]

EventsLand(q) ==
  /\ paging[q].at = "read"
  /\ stream' = [stream EXCEPT ![q] = reduceEvents(@, paging[q])]
  /\ paging' = [paging EXCEPT ![q] = None]
  /\ UNCHANGED <<rows, list, listing>> /\ UNCHANGED composer

EventsFail(q) ==
  /\ paging[q] # None
  /\ paging' = [paging EXCEPT ![q] = None]
  /\ UNCHANGED <<rows, list, listing, stream>> /\ UNCHANGED composer

AgentStep == \E n \in DOMAIN rows : Agent(n)
ChatNext ==
  \/ \E x \in Texts : Type(x)
  \/ \E b \in BOOLEAN : Submit(b)
  \/ \E a \in asking : Create(a) \/ Made(a) \/ NotMade(a) \/ Asked(a)
  \/ \E n \in DOMAIN rows : Cancel(n)
  \/ AgentStep
  \/ PollList \/ ListRead \/ ListLands \/ ListFails
  \/ \E q \in Questions : PollEvents(q) \/ EventsStatus(q) \/ EventsPage(q) \/ EventsLand(q) \/ EventsFail(q)

ChatSpec == ChatInit /\ [][ChatNext]_chatVars

-----------------------------------------------------------------------------
(* Properties. *)

ChatTypeOK ==
  /\ text \in Texts \cup {NoText} /\ token \in 1..(MaxSubmits + 1) /\ pending \in BOOLEAN
  /\ \A a \in asking : a.at \in {"sent", "made", "refused", "reads"} /\ a.text \in Texts
  /\ Len(rows) <= MaxQuestions /\ Len(list) <= Len(rows)
  /\ \A n \in DOMAIN rows : rows[n].status \in Statuses /\ Len(rows[n].log) <= MaxEvents
  /\ \A q \in Questions : stream[q].last \in 0..MaxEvents
  /\ submits \in 0..MaxSubmits /\ asks \in 0..MaxSubmits

\* However often an ask is submitted again, while its call is under way or
\* after its answer was lost, the service makes one question of it.
AskedOnce == Len(rows) <= asks

\* What a stream shows is the latest attempt of the log so far, each call and
\* each result once, whatever reads were cut short, failed or started again;
\* and a stream that stops being polled holds all of an ended question's.
StreamIsTheLog ==
  \A q \in DOMAIN rows :
    LET st == stream[q]
        shown == SubSeq(rows[q].log, 1, st.last) IN
    /\ Len(st.steps) = CountOf(shown, "call")
    /\ Cardinality({i \in DOMAIN st.steps : st.steps[i]}) = CountOf(shown, "result")
    /\ st.complete => st.last = Len(rows[q].log) /\ ~isLiveQuestion(rows[q].status)

\* A question shown live is shown ended in the end, and its stream complete.
IsShown(q) == q \in DOMAIN list
EndShown(q) == IsShown(q) /\ ~isLiveQuestion(list[q]) /\ stream[q].complete
=============================================================================

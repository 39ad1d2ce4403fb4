----------------------------- MODULE FormProofs -----------------------------
(* Theorems about four forms of the console: the upload cards (U), the       *)
(* version's Edit tab (R), the sample's tour (T), a thread of Analyst: its    *)
(* composer (C) and the streams of its questions (Q).                        *)
EXTENDS Console, Integers, FiniteSetTheorems, WellFoundedInduction, TLAPS

\* What the variables hold in each part.
card == v1
doc == v2
bytesStored == v3
cardsCounted == v4
stale == v5
USE DEF
  card, doc, bytesStored, cardsCounted, stale

edits == v1
run == v2
open == v3
pending == v4
dirty == v5
noticed == v6
cached == v7
posts == v8
gens == v9
wanted == v10
leaves == v11
USE DEF
  edits, run, open, pending, dirty, noticed, cached, posts, gens, wanted,
  leaves

visit == v1
here == v2
walk == v3
service == v4
faults == v5
USE DEF
  visit, here, walk, service, faults

text == v1
token == v2
sending == v3
asking == v4
rows == v5
list == v6
listing == v7
stream == v8
paging == v9
submits == v10
meant == v11
meantAsks == v12
USE DEF
  text, token, sending, asking, rows, list, listing, stream, paging, submits,
  meant, meantAsks

-----------------------------------------------------------------------------
(* Uploads. *)

Served(c) == doc[BytesOf[c]].status = "uploaded"

\* A card's step, its answers so far and its runs agree with the workspace's
\* document.
CardAgrees(c) ==
  /\ card[c].step = "done" \/ card[c].at = "completed" => Served(c)
  /\ card[c].at \in {"created", "existing"} => card[c].step = "checking"
  /\ card[c].at = "completed" => card[c].step = "completing"
  /\ card[c].at # "none" /\ card[c].kind = "uploaded" => Served(c)
  /\ card[c].at # "none" \/ card[c].step \in {"uploading", "completing"} => doc[BytesOf[c]] # U!NoDoc
  /\ card[c].step = "idle" <=> card[c].tries = 0

\* A card done of bytes the lists lack is of a batch whose end reads them.
StillToRead(c) ==
  card[c].step = "done" /\ BytesOf[c] \in stale =>
    /\ card[c].tries = 1
    /\ \E d \in BatchOf[c] : card[d].tries = 1 /\ card[d].step \in U!Running

UploadsAgree == \A c \in Cards : CardAgrees(c) /\ StillToRead(c)
CardStates ==
  [step : {"idle", "checking", "uploading", "completing", "done", "failed"}, theirs : BOOLEAN, tries : 0..MaxTries,
   at : {"none", "created", "existing", "completed"}, kind : {"none", "pending", "uploaded"}]
Documents == [owner : U!Tokens \cup {OtherUploads}, status : {"pending", "uploaded"}]
UploadTyped ==
  /\ card \in [Cards -> CardStates]
  /\ doc \in [U!Bytes -> {U!NoDoc} \cup Documents]
  /\ bytesStored \subseteq U!Bytes /\ stale \subseteq U!Bytes
UploadInv ==
  /\ UploadTyped
  /\ \A b \in U!Bytes : doc[b].status = "uploaded" => b \in bytesStored
  /\ UploadsAgree

LEMMA UploadsStart == ASSUME U!UploadConstants, U!UploadInit PROVE UploadInv
  BY DEF U!UploadConstants, U!UploadInit, UploadInv, UploadTyped, U!NoDoc, U!Bytes, UploadsAgree, CardAgrees, StillToRead, U!Running, U!Ended, CardStates, Documents

\* What the workspace has of bytes only comes to be uploaded, once they are
\* in storage.
DocsGrow == \A b \in U!Bytes : doc[b].status = "uploaded" => doc'[b].status = "uploaded"

\* The steps that are one card's and leave the lists be.
LEMMA CardSteps ==
  ASSUME U!UploadConstants, UploadInv, NEW c \in Cards,
         U!CreateDocument(c) \/ U!PutBytes(c) \/ U!Retry(c)
  PROVE  UploadInv'
<1>1. BytesOf[c] \in U!Bytes /\ UploadTyped
  BY DEF U!Bytes, UploadInv, UploadTyped, CardStates, Documents
<1>2. CASE U!CreateDocument(c)
  <2>1. PICK at \in {"created", "existing"}, kind \in {"pending", "uploaded"} :
          /\ card[c].step = "checking" /\ kind = doc'[BytesOf[c]].status
          /\ \A x \in Cards : card'[x] = IF x = c THEN [card[c] EXCEPT !.at = at, !.kind = kind] ELSE card[x]
          /\ card' \in [Cards -> CardStates]
    <3>1. doc'[BytesOf[c]].status \in {"pending", "uploaded"}
      BY <1>1, <1>2 DEF UploadTyped, Documents, U!CreateDocument, U!NoDoc
    <3> DEFINE at == IF doc[BytesOf[c]] = U!NoDoc THEN "created" ELSE "existing"
               kind == doc'[BytesOf[c]].status
    <3>2. card' = [card EXCEPT ![c].at = at, ![c].kind = kind] /\ card[c].step = "checking"
      BY <1>2 DEF U!CreateDocument
    <3>3. at \in {"created", "existing"} /\ kind \in {"pending", "uploaded"} /\ kind = doc'[BytesOf[c]].status
      BY <3>1
    <3> HIDE DEF at, kind
    <3>4. card' = [card EXCEPT ![c] = [card[c] EXCEPT !.at = at, !.kind = kind]]
      BY <3>2, <1>1 DEF UploadTyped
    <3>5. [card[c] EXCEPT !.at = at, !.kind = kind] \in CardStates /\ card[c] \in CardStates
      BY <3>3, <1>1 DEF UploadTyped, CardStates
    <3>6. card' \in [Cards -> CardStates] /\ \A x \in Cards : card'[x] = IF x = c THEN [card[c] EXCEPT !.at = at, !.kind = kind] ELSE card[x]
      BY <3>4, <3>5, <1>1 DEF UploadTyped
    <3> QED BY <3>2, <3>3, <3>6
  <2>2. UploadTyped'
    BY <1>1, <1>2, <2>1 DEF UploadTyped, Documents, U!CreateDocument, U!NoDoc, U!Bytes, U!Tokens
  <2>3. \A b \in U!Bytes : (doc'[b].status = "uploaded" <=> doc[b].status = "uploaded") /\ (doc'[b] = U!NoDoc => doc[b] = U!NoDoc)
    BY <1>1, <1>2 DEF UploadTyped, U!CreateDocument, U!NoDoc
  <2>4. doc'[BytesOf[c]] # U!NoDoc
    BY <1>1, <1>2 DEF UploadTyped, U!CreateDocument, U!NoDoc
  <2>5. ASSUME NEW x \in Cards PROVE CardAgrees(x)'
    <3>1. CardAgrees(x) /\ BytesOf[x] \in U!Bytes /\ card[x] \in CardStates
      BY <1>1 DEF UploadInv, UploadsAgree, U!Bytes, UploadTyped
    <3>2. CASE x # c
      BY <1>1, <2>1, <2>3, <3>1, <3>2 DEF CardAgrees, Served
    <3>3. CASE x = c
      <4>1. /\ card'[c].at = at /\ card'[c].kind = kind /\ card'[c].step = "checking" /\ card[c].step = "checking"
            /\ card'[c].tries = card[c].tries
        BY <2>1, <3>1, <3>3 DEF CardStates
      <4> QED BY <1>1, <2>1, <2>4, <3>1, <3>3, <4>1 DEF CardAgrees, Served
    <3> QED BY <3>2, <3>3
  <2>6. ASSUME NEW x \in Cards PROVE StillToRead(x)'
    <3>1. ASSUME NEW y \in Cards PROVE card'[y].step = card[y].step /\ card'[y].tries = card[y].tries
      <4>1. card[y] \in CardStates
        BY <1>1 DEF UploadTyped
      <4>2. card'[y] = card[y] \/ card'[y] = [card[y] EXCEPT !.at = at, !.kind = kind]
        BY <2>1, ZenonT(60)
      <4> QED BY <4>1, <4>2 DEF CardStates
    <3>2. stale' = stale /\ BatchOf[x] \subseteq Cards /\ StillToRead(x)
      BY <1>2 DEF UploadInv, UploadsAgree, U!UploadConstants, U!CreateDocument
    <3> QED BY <3>1, <3>2 DEF StillToRead
  <2> QED BY <1>2, <2>2, <2>3, <2>5, <2>6 DEF UploadInv, UploadsAgree, U!CreateDocument
<1>3. CASE U!PutBytes(c)
  <2>1. UploadTyped'
    BY <1>1, <1>3 DEF UploadInv, UploadTyped, U!PutBytes, U!Running, U!Ended, CardStates, Documents
  <2>2. \A x \in Cards : CardAgrees(x)'
    BY <1>1, <1>3 DEF UploadInv, UploadsAgree, CardAgrees, Served, U!PutBytes, UploadTyped, CardStates, Documents
  <2>3. \A x \in Cards : StillToRead(x)'
    BY <1>1, <1>3 DEF UploadInv, UploadsAgree, StillToRead, U!UploadConstants, U!PutBytes, U!Running, UploadTyped, CardStates, Documents
  <2> QED BY <1>3, <2>1, <2>2, <2>3 DEF UploadInv, UploadsAgree, U!PutBytes
<1>4. CASE U!Retry(c)
  <2>1. UploadTyped'
    BY <1>1, <1>4 DEF UploadInv, UploadTyped, U!Retry, U!Running, U!Ended, U!UploadConstants, CardStates, Documents
  <2>2. \A x \in Cards : CardAgrees(x)'
    BY <1>1, <1>4 DEF UploadInv, UploadsAgree, CardAgrees, Served, U!Retry, UploadTyped, CardStates, Documents
  <2>3. \A x \in Cards : StillToRead(x)'
    BY <1>1, <1>4 DEF UploadInv, UploadsAgree, StillToRead, U!UploadConstants, U!Retry, U!Running, UploadTyped, CardStates, Documents
  <2> QED BY <1>4, <2>1, <2>2, <2>3 DEF UploadInv, UploadsAgree, U!Retry
<1> QED BY <1>2, <1>3, <1>4

\* A mate of a running card's batch that has not ended runs too, and for the
\* first time, as the card does.
LEMMA MatesRun ==
  ASSUME U!UploadConstants, UploadInv, NEW c \in Cards, card[c].step \in U!Running,
         NEW d \in U!Batch(c) \ {c}, card[d].step \notin U!Ended
  PROVE  d \in BatchOf[c] /\ card[c].tries = 1 /\ card[d].tries = 1 /\ card[d].step \in U!Running
<1>1. ~U!retried(c) /\ d \in BatchOf[c] /\ card[d].tries = 1 /\ d \in Cards
  BY DEF U!Batch, U!UploadConstants
<1>2. card[c] \in CardStates /\ card[d] \in CardStates /\ CardAgrees(c) /\ CardAgrees(d)
  BY <1>1 DEF UploadInv, UploadTyped, UploadsAgree
<1>3. card[c].tries \in Nat /\ card[c].tries # 0
  BY <1>2 DEF CardStates, CardAgrees, U!Running, U!UploadConstants
<1> QED BY <1>1, <1>2, <1>3 DEF CardStates, CardAgrees, U!Running, U!Ended, U!retried

\* A run ends: done, of bytes that are in; or failed.
LEMMA RunsEnd ==
  ASSUME U!UploadConstants, UploadInv, NEW c \in Cards, NEW step \in U!Ended, NEW theirs \in BOOLEAN,
         card[c].step \in U!Running, step = "done" => Served(c),
         U!End(c, step, theirs), UNCHANGED <<doc, bytesStored>>
  PROVE  UploadInv'
<1>1. BytesOf[c] \in U!Bytes /\ UploadTyped /\ card[c].tries \in Nat \ {0}
  BY DEF U!Bytes, UploadInv, UploadTyped, UploadsAgree, CardAgrees, U!Running, U!UploadConstants, CardStates, Documents
<1>2. /\ card' \in [Cards -> CardStates]
      /\ \A x \in Cards : card'[x] = IF x = c THEN [card[c] EXCEPT !.step = step, !.at = "none", !.theirs = theirs] ELSE card[x]
      /\ card'[c].step = step /\ card'[c].at = "none" /\ card'[c].tries = card[c].tries
  <2>1. card' = [card EXCEPT ![c] = [card[c] EXCEPT !.step = step, !.at = "none", !.theirs = theirs]]
    BY <1>1 DEF UploadTyped, U!End
  <2> QED BY <1>1, <2>1, ZenonT(60) DEF UploadTyped, CardStates, U!Ended
<1>3. UploadTyped'
  BY <1>2, <1>1 DEF UploadInv, UploadTyped, U!End, U!Bytes, U!NoDoc, U!Tokens, Documents
<1>4. ASSUME NEW x \in Cards PROVE CardAgrees(x)'
  <2>1. CardAgrees(x) /\ card[x] \in CardStates
    BY <1>1 DEF UploadInv, UploadsAgree, UploadTyped
  <2> QED BY <1>2, <1>1, <2>1 DEF CardAgrees, Served, U!NoDoc, U!Ended
<1>5. ASSUME NEW x \in Cards PROVE StillToRead(x)'
  <2>1. SUFFICES ASSUME card'[x].step = "done", BytesOf[x] \in stale'
                 PROVE  /\ card'[x].tries = 1
                        /\ \E d \in BatchOf[x] : card'[d].tries = 1 /\ card'[d].step \in U!Running
    BY DEF StillToRead, UploadTyped, CardStates, Documents
  <2>2. stale' = stale /\ ~U!EndsBatch(c, step)
    BY <2>1 DEF U!End
  <2>3. CASE x = c
    <3>1. step = "done" /\ \E d \in U!Batch(c) \ {c} : card[d].step \notin U!Ended
      BY <1>2, <1>1, <2>1, <2>2, <2>3 DEF U!EndsBatch
    <3>2. PICK d \in U!Batch(c) \ {c} : card[d].step \notin U!Ended
      BY <3>1
    <3>3. d \in BatchOf[c] /\ card[c].tries = 1 /\ card[d].tries = 1 /\ card[d].step \in U!Running
      BY <3>2, MatesRun
    <3> QED BY <1>2, <2>3, <3>2, <3>3 DEF U!UploadConstants
  <2>4. CASE x # c
    <3>1. card[x].step = "done" /\ card[x] = card'[x] /\ BytesOf[x] \in stale
      BY <1>2, <1>1, <2>1, <2>2, <2>4
    <3>2. card[x].tries = 1
      BY <3>1 DEF UploadInv, UploadsAgree, StillToRead, UploadTyped, CardStates, Documents
    <3>3. PICK d \in BatchOf[x] : card[d].tries = 1 /\ card[d].step \in U!Running
      BY <3>1 DEF UploadInv, UploadsAgree, StillToRead, UploadTyped, CardStates, Documents
    <3>4. CASE d # c
      BY <1>2, <1>1, <3>1, <3>2, <3>3, <3>4 DEF U!UploadConstants
    <3>5. CASE d = c
      <4>1. BatchOf[c] = BatchOf[x] /\ x \in U!Batch(c) \ {c}
        BY <1>2, <1>1, <2>4, <3>2, <3>3, <3>5 DEF U!UploadConstants, U!Batch, U!retried, UploadTyped, CardStates, Documents
      <4>2. PICK e \in U!Batch(c) \ {c} : card[e].step \notin U!Ended
        BY <2>2, <3>1, <4>1 DEF U!EndsBatch
      <4>3. e \in BatchOf[c] /\ card[e].tries = 1 /\ card[e].step \in U!Running
        BY <4>2, MatesRun
      <4> QED BY <1>2, <3>1, <3>2, <4>1, <4>2, <4>3 DEF U!UploadConstants
    <3> QED BY <3>4, <3>5
  <2> QED BY <2>3, <2>4
<1> QED BY <1>3, <1>4, <1>5 DEF UploadInv, UploadsAgree

LEMMA AnswerSteps ==
  ASSUME U!UploadConstants, UploadInv, NEW c \in Cards,
         U!Created(c) \/ U!Completed(c) \/ U!Fails(c)
  PROVE  UploadInv'
<1>1. BytesOf[c] \in U!Bytes /\ UploadTyped /\ CardAgrees(c) /\ StillToRead(c)
  BY DEF U!Bytes, UploadInv, UploadTyped, UploadsAgree, CardStates, Documents
<1>2. card[c].theirs \in BOOLEAN
  BY <1>1 DEF UploadTyped, CardStates
<1>3. CASE U!Created(c)
  <2> DEFINE theirs == card[c].at = "existing" /\ ~U!retried(c)
  <2>1. CASE card[c].kind = "uploaded"
    <3>1. U!End(c, "done", theirs) /\ Served(c) /\ theirs \in BOOLEAN
      BY <1>1, <1>3, <2>1 DEF U!Created, CardAgrees, UploadTyped, CardStates, Documents
    <3> HIDE DEF theirs
    <3> QED BY <1>3, <3>1, RunsEnd DEF U!Created, U!Ended, U!Running
  <2>2. CASE card[c].kind # "uploaded"
    <3>1. /\ card' = [card EXCEPT ![c].step = "uploading", ![c].at = "none", ![c].theirs = theirs]
          /\ card[c].step = "checking" /\ UNCHANGED <<doc, bytesStored, cardsCounted, stale>> /\ theirs \in BOOLEAN
      BY <1>3, <2>2 DEF U!Created
    <3> HIDE DEF theirs
    <3>2. /\ card' \in [Cards -> CardStates]
          /\ \A x \in Cards : card'[x] = IF x = c THEN [card[c] EXCEPT !.step = "uploading", !.at = "none", !.theirs = theirs] ELSE card[x]
      <4>1. card' = [card EXCEPT ![c] = [card[c] EXCEPT !.step = "uploading", !.at = "none", !.theirs = theirs]]
        BY <1>1, <3>1 DEF UploadTyped
      <4> QED BY <1>1, <3>1, <4>1 DEF UploadTyped, CardStates
    <3>3. UploadTyped'
      BY <1>1, <3>1, <3>2 DEF UploadTyped, U!Bytes, U!NoDoc, U!Tokens, Documents
    <3>4. ASSUME NEW x \in Cards PROVE CardAgrees(x)'
      <4>1. CardAgrees(x) /\ card[x] \in CardStates /\ CardAgrees(c) /\ card[c] \in CardStates
        BY <1>1 DEF UploadInv, UploadsAgree, UploadTyped
      <4>2. card[c].at # "none"
        BY <1>3 DEF U!Created
      <4> QED BY <1>1, <3>1, <3>2, <4>1, <4>2 DEF CardAgrees, Served, CardStates, U!NoDoc
    <3>5. \A x \in Cards : StillToRead(x)'
      BY <1>1, <3>1, <3>2 DEF UploadInv, UploadsAgree, StillToRead, UploadTyped, CardStates, U!UploadConstants, U!Running
    <3> QED BY <3>1, <3>3, <3>4, <3>5 DEF UploadInv, UploadsAgree
  <2> QED BY <2>1, <2>2
<1>4. CASE U!Completed(c)
  BY <1>1, <1>2, <1>4, RunsEnd DEF U!Completed, CardAgrees, U!Ended, U!Running, UploadTyped, CardStates, Documents
<1>5. CASE U!Fails(c)
  BY <1>2, <1>5, RunsEnd DEF U!Fails, U!Ended, U!Running
<1> QED BY <1>3, <1>4, <1>5

\* The service completes an upload: no card is done of bytes that become
\* stale only now.
LEMMA Completes ==
  ASSUME U!UploadConstants, UploadInv, NEW c \in Cards, U!Complete(c)
  PROVE  UploadInv'
<1>1. BytesOf[c] \in U!Bytes /\ UploadTyped
  BY DEF U!Bytes, UploadInv, UploadTyped, CardStates, Documents
<1>2. /\ card' = [card EXCEPT ![c].at = "completed"] /\ card[c].step = "completing" /\ BytesOf[c] \in bytesStored
      /\ doc' = [doc EXCEPT ![BytesOf[c]].status = "uploaded"] /\ bytesStored' = bytesStored
      /\ stale' = IF Served(c) THEN stale ELSE stale \cup {BytesOf[c]}
  BY DEF U!Complete, Served
<1>3. doc[BytesOf[c]] \in Documents
  BY <1>1, <1>2 DEF UploadInv, UploadTyped, UploadsAgree, CardAgrees, CardStates, Documents
<1>4. UploadTyped'
  <2>1. card[c] \in CardStates /\ card' = [card EXCEPT ![c] = [card[c] EXCEPT !.at = "completed"]]
    BY <1>1, <1>2 DEF UploadTyped
  <2>2. [card[c] EXCEPT !.at = "completed"] \in CardStates
    BY <2>1 DEF CardStates
  <2>3. card' \in [Cards -> CardStates]
    BY <1>1, <2>1, <2>2 DEF UploadTyped
  <2>4. [doc[BytesOf[c]] EXCEPT !.status = "uploaded"] \in Documents
    BY <1>3 DEF Documents
  <2>5. doc' = [doc EXCEPT ![BytesOf[c]] = [doc[BytesOf[c]] EXCEPT !.status = "uploaded"]]
    BY <1>1, <1>2 DEF UploadTyped
  <2>6. doc' \in [U!Bytes -> {U!NoDoc} \cup Documents]
    BY <1>1, <2>4, <2>5 DEF UploadTyped
  <2>7. stale' \subseteq U!Bytes /\ bytesStored' \subseteq U!Bytes
    BY <1>1, <1>2 DEF UploadTyped
  <2> QED BY <2>3, <2>6, <2>7 DEF UploadTyped, U!Bytes, U!NoDoc, U!Tokens, CardStates, Documents
<1>5. DOMAIN doc = U!Bytes
  BY <1>1 DEF UploadTyped
<1>6. \A b \in U!Bytes : b # BytesOf[c] => doc'[b] = doc[b]
  BY <1>1, <1>2, <1>5
<1>7. doc'[BytesOf[c]] = [doc[BytesOf[c]] EXCEPT !.status = "uploaded"]
  BY <1>1, <1>2, <1>5
<1>8. doc'[BytesOf[c]].status = "uploaded" /\ doc'[BytesOf[c]].owner = doc[BytesOf[c]].owner
  BY <1>3, <1>7 DEF Documents
<1>9. \A b \in U!Bytes : doc'[b].status = "uploaded" <=> b = BytesOf[c] \/ doc[b].status = "uploaded"
  BY <1>6, <1>8
<1>10. \A b \in U!Bytes : doc'[b] = U!NoDoc => doc[b] = U!NoDoc
  BY <1>6, <1>8 DEF U!NoDoc
<1>11. \A x \in Cards : CardAgrees(x)'
  BY <1>1, <1>2, <1>9, <1>10 DEF U!Bytes, U!NoDoc, UploadInv, UploadsAgree, CardAgrees, Served, UploadTyped, CardStates, Documents
<1>12. ASSUME NEW x \in Cards PROVE StillToRead(x)'
  <2>1. card'[x].step = card[x].step /\ \A d \in BatchOf[x] : card'[d].step = card[d].step /\ card'[d].tries = card[d].tries
    BY <1>1, <1>2 DEF U!UploadConstants
  <2>2. card[x].step = "done" => Served(x) /\ BytesOf[x] \in U!Bytes
    BY DEF UploadInv, UploadsAgree, CardAgrees, U!Bytes, UploadTyped, CardStates, Documents
  <2>3. card[x].step = "done" /\ BytesOf[x] \in stale' => BytesOf[x] \in stale
    BY <1>2, <2>2 DEF Served
  <2> QED BY <1>1, <1>2, <2>1, <2>3 DEF UploadInv, UploadsAgree, StillToRead, U!Running, UploadTyped, CardStates, Documents
<1> QED BY <1>2, <1>4, <1>9, <1>11, <1>12 DEF UploadInv, UploadsAgree

\* A batch is added; others upload the same bytes.
LEMMA BatchAdded ==
  ASSUME U!UploadConstants, UploadInv, NEW c \in Cards, U!Add(BatchOf[c])
  PROVE  UploadInv'
<1>1. UploadTyped /\ BatchOf[c] \subseteq Cards /\ MaxTries \in Nat \ {0}
  BY DEF UploadInv, UploadTyped, U!UploadConstants, CardStates, Documents
<1>2. \A x \in Cards : card'[x] = IF x \in BatchOf[c] THEN [card[x] EXCEPT !.step = "checking", !.tries = 1] ELSE card[x]
  BY DEF U!Add, UploadTyped, CardStates, Documents
<1>3. card' \in [Cards -> CardStates] /\ \A x \in BatchOf[c] : card[x].step = "idle"
  <2>1. ASSUME NEW x \in Cards PROVE card[x] \in CardStates /\ [card[x] EXCEPT !.step = "checking", !.tries = 1] \in CardStates
    <3>1. card[x] \in CardStates /\ 1 \in 0..MaxTries
      BY <1>1 DEF UploadTyped
    <3> QED BY <3>1 DEF CardStates
  <2> QED BY <1>2, <2>1 DEF U!Add
<1>4. UploadTyped'
  BY <1>1, <1>3 DEF UploadTyped, U!Add, U!Bytes, U!NoDoc, U!Tokens, Documents
<1>5. ASSUME NEW x \in Cards PROVE CardAgrees(x)'
  <2>1. CardAgrees(x) /\ card[x] \in CardStates
    BY <1>1 DEF UploadInv, UploadsAgree, UploadTyped
  <2>2. CASE x \in BatchOf[c]
    <3>1. card'[x].step = "checking" /\ card'[x].tries = 1 /\ card'[x].at = card[x].at /\ card[x].step = "idle"
      BY <1>2, <1>3, <2>1, <2>2 DEF CardStates
    <3>2. card[x].at = "none"
      BY <2>1, <3>1 DEF CardAgrees, CardStates
    <3> QED BY <3>1, <3>2 DEF CardAgrees
  <2>3. CASE x \notin BatchOf[c]
    BY <1>2, <2>1, <2>3 DEF CardAgrees, Served, U!Add
  <2> QED BY <2>2, <2>3
<1>6. ASSUME NEW x \in Cards PROVE StillToRead(x)'
  <2>1. StillToRead(x) /\ card[x] \in CardStates /\ BatchOf[x] \subseteq Cards
    BY <1>1 DEF UploadInv, UploadsAgree, UploadTyped, U!UploadConstants
  <2> QED BY <1>2, <1>3, <2>1 DEF StillToRead, CardStates, U!Add, U!Running
<1> QED BY <1>4, <1>5, <1>6 DEF UploadInv, UploadsAgree, U!Add, UploadTyped, CardStates, Documents

LEMMA OthersUpload ==
  ASSUME U!UploadConstants, UploadInv, NEW b \in U!Bytes, U!Elsewhere(b)
  PROVE  UploadInv'
<1>1. UploadTyped'
  <2>1. doc \in [U!Bytes -> {U!NoDoc} \cup Documents] /\ bytesStored \subseteq U!Bytes
    BY DEF UploadInv, UploadTyped
  <2>2. \A d \in Documents : [doc EXCEPT ![b] = d] \in [U!Bytes -> {U!NoDoc} \cup Documents]
    BY <2>1
  <2>3. PICK d \in Documents : doc' = [doc EXCEPT ![b] = d]
    <3>1. CASE doc' = [doc EXCEPT ![b] = [owner |-> OtherUploads, status |-> "pending"]]
      <4>1. [owner |-> OtherUploads, status |-> "pending"] \in Documents
        BY DEF Documents
      <4> QED BY <3>1, <4>1
    <3>2. CASE doc[b].status = "pending" /\ doc' = [doc EXCEPT ![b].status = "uploaded"]
      <4>1. doc[b] \in Documents
        BY <2>1, <3>2 DEF U!NoDoc
      <4>2. [doc[b] EXCEPT !.status = "uploaded"] \in Documents
        BY <4>1 DEF Documents
      <4> QED BY <3>2, <4>2
    <3> QED BY <3>1, <3>2 DEF U!Elsewhere
  <2>4. bytesStored' \subseteq U!Bytes
    BY <2>1 DEF U!Elsewhere
  <2> QED BY <2>2, <2>3, <2>4 DEF UploadInv, UploadTyped, U!Elsewhere
<1>2. \A x \in U!Bytes : (doc[x].status = "uploaded" => doc'[x].status = "uploaded") /\ (doc'[x] = U!NoDoc => doc[x] = U!NoDoc)
  BY DEF UploadInv, UploadTyped, U!Elsewhere, U!NoDoc, CardStates, Documents
<1>3. \A x \in U!Bytes : doc'[x].status = "uploaded" => x \in bytesStored'
  BY DEF UploadInv, UploadTyped, U!Elsewhere, U!NoDoc, CardStates, Documents
<1>4. \A x \in Cards : CardAgrees(x)'
  BY <1>2 DEF U!Bytes, U!NoDoc, UploadInv, UploadsAgree, CardAgrees, Served, U!Elsewhere, UploadTyped, CardStates, Documents
<1>5. \A x \in Cards : StillToRead(x)'
  BY DEF UploadInv, UploadsAgree, StillToRead, U!Elsewhere, U!Running, UploadTyped, CardStates, Documents
<1> QED BY <1>1, <1>3, <1>4, <1>5 DEF UploadInv, UploadsAgree

LEMMA UploadSteps ==
  ASSUME U!UploadConstants, UploadInv, [U!UploadNext]_U!uploadVars
  PROVE  UploadInv'
<1>1. ASSUME UNCHANGED U!uploadVars PROVE UploadInv'
  BY <1>1 DEF U!uploadVars, UploadInv, UploadTyped, UploadsAgree, CardAgrees, Served, StillToRead, U!Running, U!Ended, U!Bytes, U!NoDoc, U!Tokens, CardStates, Documents
<1> QED BY <1>1, BatchAdded, CardSteps, AnswerSteps, Completes, OthersUpload DEF U!UploadNext

\* A card is done only of bytes that are in, and read since: whatever the
\* batches, the retries, the others and the order of the answers.
THEOREM UploadsHold ==
  ASSUME U!UploadConstants
  PROVE  U!UploadSpec => [](U!UploadTypeOK /\ U!DoneIsUploaded)
<1>1. UploadInv => U!UploadTypeOK /\ U!DoneIsUploaded
  <2>1. ASSUME UploadInv, NEW c \in Cards, card[c].step = "done", \A d \in Cards : card[d].step \notin U!Running
        PROVE  BytesOf[c] \notin stale
    BY <2>1 DEF UploadInv, UploadsAgree, StillToRead, U!UploadConstants, UploadTyped, CardStates, Documents
  <2>2. ASSUME UploadInv, NEW c \in Cards, card[c].step = "done"
        PROVE  Served(c) /\ BytesOf[c] \in bytesStored
    BY <2>2 DEF UploadInv, UploadsAgree, CardAgrees, U!Bytes, Served, UploadTyped, CardStates, Documents
  <2> QED BY <2>1, <2>2 DEF UploadInv, UploadTyped, U!UploadTypeOK, U!Running, U!Ended, U!DoneIsUploaded, Served, CardStates, Documents
<1> QED BY UploadsStart, UploadSteps, <1>1, PTL DEF U!UploadSpec

-----------------------------------------------------------------------------
(* Version edits. *)

Batches == SUBSET VersionItems
GenIds == 0..MaxGens
Read == {"none", "live", "refused", "revised"}
Runs == [id : GenIds, snapshot : Batches, save : BOOLEAN]
Posts == [batch : Batches, dry : BOOLEAN, save : BOOLEAN, tab : 0..MaxLeaves, at : {"sent", "answered"}, id : GenIds]
Generations == [batch : Batches, dry : BOOLEAN, state : {"live", "refused", "revised"}]
PageTyped ==
  /\ edits \in Batches /\ wanted \in Batches
  /\ open \in BOOLEAN /\ pending \in BOOLEAN /\ dirty \in BOOLEAN
  /\ noticed \in GenIds \X Read
  /\ leaves \in 0..MaxLeaves
RunsTyped == run \in Runs /\ cached \in [1..MaxGens -> Read] /\ posts \subseteq Posts
GensTyped == gens \in Seq(Generations) /\ Len(gens) <= MaxGens

\* What a run, the page's reads and a call under way say of the revisions g.
Previewed(batch, g) == \E n \in DOMAIN g : g[n].dry /\ g[n].state = "revised" /\ g[n].batch = batch
RunAgrees(r, g) == r.id # 0 => r.id \in DOMAIN g /\ g[r.id].batch = r.snapshot
ReadsAgree(c, g) ==
  \A n \in 1..MaxGens : /\ c[n] # "none" => n \in DOMAIN g
                        /\ c[n] \in {"refused", "revised"} => g[n].state = c[n]
PostAgrees(p, g) ==
  /\ p.id # 0 => p.at = "answered" /\ p.id \in DOMAIN g /\ g[p.id].batch = p.batch /\ g[p.id].dry = p.dry
  /\ ~p.dry => Previewed(p.batch, g)
AllPreviewed(g) == \A n \in DOMAIN g : ~g[n].dry => Previewed(g[n].batch, g)

PreviewInv ==
  /\ PageTyped /\ RunsTyped /\ GensTyped
  /\ RunAgrees(run, gens) /\ ReadsAgree(cached, gens)
  /\ \A p \in posts : PostAgrees(p, gens)
  /\ AllPreviewed(gens)

LEMMA RevisionStart == ASSUME R!RevisionConstants, R!RevisionInit PROVE PreviewInv
<1>1. PageTyped /\ RunsTyped
  <2>1. 0 \in GenIds /\ 0 \in 0..MaxLeaves
    BY DEF R!RevisionConstants, GenIds
  <2>2. PageTyped
    BY <2>1 DEF R!RevisionInit, PageTyped, R!NoGeneration, Batches, Read
  <2>3. run \in Runs /\ cached \in [1..MaxGens -> Read] /\ posts = {}
    BY <2>1 DEF R!RevisionInit, R!NoRun, R!Gens, Batches, Read, Runs
  <2> QED BY <2>2, <2>3 DEF RunsTyped
<1>2. gens = <<>> /\ run.id = 0 /\ posts = {} /\ \A n \in 1..MaxGens : cached[n] = "none"
  BY DEF R!RevisionInit, R!NoRun, R!Gens
<1>3. GensTyped /\ DOMAIN gens = {}
  BY <1>2 DEF GensTyped, R!RevisionConstants
<1> QED BY <1>1, <1>2, <1>3 DEF PreviewInv, RunAgrees, ReadsAgree, AllPreviewed

\* What the page comes to show keeps what it knows of the revisions true.
LEMMA ShownAgrees ==
  ASSUME R!RevisionConstants, PageTyped, GensTyped, UNCHANGED <<gens, leaves>>,
         NEW r \in Runs, NEW c \in [1..MaxGens -> Read], NEW batch \in Batches, NEW waits \in BOOLEAN,
         NEW ps \in SUBSET Posts, NEW isOpen \in BOOLEAN, NEW before,
         ~isOpen => before \in GenIds \X Read,
         RunAgrees(r, gens), ReadsAgree(c, gens), \A p \in ps : PostAgrees(p, gens),
         R!Shown(r, c, batch, waits, ps, isOpen, before)
  PROVE  /\ RunsTyped' /\ RunAgrees(run, gens)' /\ ReadsAgree(cached, gens)' /\ \A p \in posts' : PostAgrees(p, gens)'
         /\ edits' \in Batches /\ pending' \in BOOLEAN /\ noticed' \in GenIds \X Read
<1>1. run' = r /\ cached' = c /\ edits' \in {{}, batch} /\ pending' \in BOOLEAN
  BY DEF R!Shown
<1>2. noticed' \in GenIds \X Read
  <2>1. CASE r.id = 0
    BY <2>1, <1>1 DEF R!Shown, R!NoGeneration, GenIds, Read, R!RevisionConstants
  <2>2. CASE r.id # 0
    <3>1. r.id \in 1..MaxGens /\ r.id \in GenIds
      BY <2>2 DEF Runs, GenIds, R!RevisionConstants
    <3> QED BY <2>2, <3>1 DEF R!Shown
  <2> QED BY <2>1, <2>2
<1>3. posts' = ps \/ (R!CanCreate(r, c, batch) /\ posts' = ps \cup {R!Post(batch, FALSE, TRUE)})
  BY DEF R!Shown
<1>4. ASSUME R!CanCreate(r, c, batch)
      PROVE  LET p == R!Post(batch, FALSE, TRUE) IN p \in Posts /\ PostAgrees(p, gens)
  <2>1. r.id # 0 /\ r.id \in 1..MaxGens /\ c[r.id] = "revised"
    BY <1>4 DEF R!CanCreate, R!StateOf, Runs, GenIds, R!RevisionConstants
  <2>2. r.id \in DOMAIN gens /\ gens[r.id].dry /\ gens[r.id].state = "revised" /\ gens[r.id].batch = batch
    BY <1>4, <2>1 DEF R!CanCreate, RunAgrees, ReadsAgree
  <2> QED BY <2>2 DEF R!Post, Posts, PostAgrees, Previewed, PageTyped, GenIds, R!RevisionConstants
<1> QED BY <1>1, <1>2, <1>3, <1>4, ZenonT(60) DEF RunsTyped, RunAgrees, ReadsAgree, PostAgrees, Previewed, Batches

\* The service's revisions only grow, and what one has come to stays.
GensGrow(g, h) ==
  \A n \in DOMAIN g :
    /\ n \in DOMAIN h /\ h[n].batch = g[n].batch /\ h[n].dry = g[n].dry
    /\ g[n].state \in {"refused", "revised"} => h[n].state = g[n].state

LEMMA GrownAgrees ==
  ASSUME GensTyped, GensGrow(gens, gens')
  PROVE  /\ \A r : RunAgrees(r, gens) => RunAgrees(r, gens')
         /\ \A c : ReadsAgree(c, gens) => ReadsAgree(c, gens')
         /\ \A p : PostAgrees(p, gens) => PostAgrees(p, gens')
         /\ \A b : Previewed(b, gens) => Previewed(b, gens')
<1>1. \A b : Previewed(b, gens) => Previewed(b, gens')
  BY DEF Previewed, GensGrow
<1>2. \A r : RunAgrees(r, gens) => RunAgrees(r, gens')
  BY DEF RunAgrees, GensGrow
<1>3. \A c : ReadsAgree(c, gens) => ReadsAgree(c, gens')
  BY DEF ReadsAgree, GensGrow
<1>4. \A p : PostAgrees(p, gens) => PostAgrees(p, gens')
  BY <1>1 DEF PostAgrees, GensGrow
<1> QED BY <1>1, <1>2, <1>3, <1>4

LEMMA QueueGrows ==
  ASSUME R!RevisionConstants, PreviewInv, NEW p \in posts, R!Queue(p)
  PROVE  /\ GensTyped' /\ GensGrow(gens, gens') /\ posts' \subseteq Posts
         /\ AllPreviewed(gens)' /\ \A q \in posts' : PostAgrees(q, gens)'
<1>1. p \in Posts /\ PostAgrees(p, gens) /\ gens \in Seq(Generations) /\ Len(gens) \in Nat
  BY DEF PreviewInv, RunsTyped, GensTyped
<1>2. CASE UNCHANGED gens
  <2>1. posts' = (posts \ {p}) \cup {[p EXCEPT !.at = "answered"]} \/ \E n \in {Len(gens) + 1} : gens' = Append(gens, [batch |-> p.batch, dry |-> p.dry, state |-> "live"])
    BY DEF R!Queue
  <2>2. gens' # Append(gens, [batch |-> p.batch, dry |-> p.dry, state |-> "live"])
    <3>1. Len(Append(gens, [batch |-> p.batch, dry |-> p.dry, state |-> "live"])) = Len(gens) + 1
      BY <1>1 DEF Posts, Generations
    <3> QED BY <1>1, <1>2, <3>1
  <2>3. posts' = (posts \ {p}) \cup {[p EXCEPT !.at = "answered"]} /\ p.at = "sent"
    BY <2>1, <2>2 DEF R!Queue
  <2>4. [p EXCEPT !.at = "answered"] \in Posts /\ PostAgrees([p EXCEPT !.at = "answered"], gens)
    BY <1>1, <2>3 DEF Posts, PostAgrees
  <2>5. GensTyped' /\ GensGrow(gens, gens') /\ AllPreviewed(gens')
    BY <1>2 DEF PreviewInv, GensTyped, GensGrow
  <2>6. \A x \in posts' : x \in Posts /\ PostAgrees(x, gens)
    BY <2>3, <2>4 DEF PreviewInv, RunsTyped
  <2> QED BY <1>2, <2>5, <2>6
<1>3. CASE gens' # gens
  <2> DEFINE new == [batch |-> p.batch, dry |-> p.dry, state |-> "live"]
             q == [p EXCEPT !.at = "answered", !.id = Len(gens) + 1]
  <2>1. /\ gens' = Append(gens, new) /\ Len(gens) < MaxGens /\ posts' = (posts \ {p}) \cup {q}
    BY <1>3 DEF R!Queue
  <2>2. new \in Generations /\ new.batch = p.batch /\ new.dry = p.dry /\ new.state = "live"
    BY <1>1 DEF Posts, Generations
  <2>3. q \in Posts /\ q.at = "answered" /\ q.id = Len(gens) + 1 /\ q.batch = p.batch /\ q.dry = p.dry
    <3>1. Len(gens) + 1 \in GenIds
      BY <1>1, <2>1 DEF GenIds, R!RevisionConstants
    <3> QED BY <1>1, <3>1 DEF Posts
  <2> HIDE DEF new, q
  <2>4. /\ gens' \in Seq(Generations) /\ Len(gens') = Len(gens) + 1 /\ gens'[Len(gens) + 1] = new
        /\ \A n \in 1..Len(gens) : gens'[n] = gens[n]
        /\ DOMAIN gens = 1..Len(gens) /\ DOMAIN gens' = 1..(Len(gens) + 1)
    BY <1>1, <2>1, <2>2
  <2>5. GensTyped'
    BY <1>1, <2>1, <2>4 DEF GensTyped, R!RevisionConstants
  <2>6. GensGrow(gens, gens')
    BY <1>1, <2>4 DEF GensGrow
  <2>7. \A b : Previewed(b, gens) => Previewed(b, gens')
    BY <2>6, GrownAgrees DEF PreviewInv
  <2>8. PostAgrees(q, gens')
    BY <1>1, <2>2, <2>3, <2>4, <2>7 DEF PostAgrees
  <2>9. AllPreviewed(gens')
    <3>1. ASSUME NEW n \in DOMAIN gens', ~gens'[n].dry PROVE Previewed(gens'[n].batch, gens')
      <4>1. CASE n \in DOMAIN gens
        BY <2>4, <2>7, <3>1, <4>1 DEF PreviewInv, AllPreviewed
      <4>2. CASE n = Len(gens) + 1
        BY <1>1, <2>2, <2>4, <2>7, <3>1, <4>2 DEF PostAgrees
      <4> QED BY <1>1, <2>4, <4>1, <4>2
    <3> QED BY <3>1 DEF AllPreviewed
  <2>10. \A x \in posts : PostAgrees(x, gens')
    BY <2>6, GrownAgrees DEF PreviewInv
  <2> QED BY <2>1, <2>3, <2>5, <2>6, <2>8, <2>9, <2>10 DEF PreviewInv, RunsTyped
<1> QED BY <1>2, <1>3

LEMMA FinishGrows ==
  ASSUME PreviewInv, NEW n \in DOMAIN gens, R!Finish(n)
  PROVE  /\ GensTyped' /\ GensGrow(gens, gens') /\ AllPreviewed(gens)'
         /\ DOMAIN gens' = DOMAIN gens /\ gens[n].state = "live"
         /\ \A m \in DOMAIN gens :
              /\ gens'[m].dry = gens[m].dry /\ gens'[m].batch = gens[m].batch
              /\ m # n => gens'[m].state = gens[m].state
<1>1. PICK s \in {"refused", "revised"} : gens' = [gens EXCEPT ![n].state = s] /\ gens[n].state = "live"
  BY DEF R!Finish
<1>2. gens \in Seq(Generations) /\ DOMAIN gens = 1..Len(gens) /\ Len(gens) \in Nat
  BY DEF PreviewInv, GensTyped
<1>3. \A m \in DOMAIN gens : gens[m] \in Generations /\ gens'[m] = IF m = n THEN [gens[n] EXCEPT !.state = s] ELSE gens[m]
  BY <1>1, <1>2
<1>4. [gens[n] EXCEPT !.state = s] \in Generations /\ gens[n] \in Generations
  BY <1>3 DEF Generations
<1>5. gens' \in Seq(Generations) /\ Len(gens') = Len(gens) /\ DOMAIN gens' = DOMAIN gens
  <2>1. gens' = [gens EXCEPT ![n] = [gens[n] EXCEPT !.state = s]]
    BY <1>1, <1>2
  <2> QED BY <1>2, <1>4, <2>1
<1>6. \A m \in DOMAIN gens :
        /\ gens'[m].dry = gens[m].dry /\ gens'[m].batch = gens[m].batch
        /\ m # n => gens'[m].state = gens[m].state
  BY <1>3, <1>4 DEF Generations
<1>7. GensGrow(gens, gens')
  BY <1>1, <1>5, <1>6 DEF GensGrow
<1>8. AllPreviewed(gens')
  <2>1. \A b : Previewed(b, gens) => Previewed(b, gens')
    BY <1>7, GrownAgrees DEF PreviewInv
  <2>2. ASSUME NEW m \in DOMAIN gens, ~gens'[m].dry PROVE Previewed(gens'[m].batch, gens')
    <3>1. gens'[m].dry = gens[m].dry /\ gens'[m].batch = gens[m].batch
      BY <1>6
    <3>2. ~gens[m].dry
      BY <3>1, <2>2
    <3>3. Previewed(gens[m].batch, gens)
      BY <3>2 DEF PreviewInv, AllPreviewed
    <3> QED BY <2>1, <3>1, <3>3
  <2> QED BY <1>5, <2>2 DEF AllPreviewed
<1> QED BY <1>1, <1>5, <1>6, <1>7, <1>8 DEF GensTyped, PreviewInv

\* The steps of the page that call nothing, and those that do.
LEMMA PageSteps ==
  ASSUME R!RevisionConstants, PreviewInv,
         \/ R!Edit \/ R!Drop \/ R!Leave \/ R!Preview \/ R!Create
         \/ \E i \in VersionItems : R!Stage(i) \/ R!Undo(i) \/ R!SaveAsVersion(i)
  PROVE  PreviewInv'
<1>1. gens' = gens /\ cached' = cached /\ GensTyped' /\ AllPreviewed(gens)' /\ ReadsAgree(cached, gens)'
  BY DEF R!Edit, R!Drop, R!Leave, R!Preview, R!Create, R!Stage, R!Undo, R!SaveAsVersion, PreviewInv, GensTyped
<1>2. run' \in {run, R!NoRun} /\ run' \in Runs /\ RunAgrees(run, gens)'
  <2>1. run' \in {run, R!NoRun}
    BY DEF R!Edit, R!Drop, R!Leave, R!Preview, R!Create, R!Stage, R!Undo, R!SaveAsVersion
  <2>2. R!NoRun \in Runs /\ R!NoRun.id = 0
    BY DEF R!NoRun, Runs, GenIds, Batches, R!RevisionConstants
  <2> QED BY <1>1, <2>1, <2>2 DEF PreviewInv, RunsTyped, RunAgrees
<1>3. PageTyped'
  <2>1. leaves' \in 0..MaxLeaves
    <3>1. leaves' = leaves \/ (leaves' = leaves + 1 /\ leaves < MaxLeaves)
      BY DEF R!Edit, R!Drop, R!Leave, R!Preview, R!Create, R!Stage, R!Undo, R!SaveAsVersion
    <3> QED BY <3>1 DEF PreviewInv, PageTyped, R!RevisionConstants
  <2>2. /\ open' \in BOOLEAN /\ pending' \in BOOLEAN /\ dirty' \in BOOLEAN
        /\ edits' \in Batches /\ wanted' \in Batches /\ noticed' \in {noticed, R!NoGeneration}
    <3>1. CASE \E i \in VersionItems : R!Stage(i) \/ R!Undo(i) \/ R!SaveAsVersion(i)
      BY <3>1 DEF R!Stage, R!Undo, R!SaveAsVersion, PreviewInv, PageTyped, Batches
    <3>2. CASE R!Edit \/ R!Drop \/ R!Leave \/ R!Preview \/ R!Create
      BY <3>2 DEF R!Edit, R!Drop, R!Leave, R!Preview, R!Create, PreviewInv, PageTyped
    <3> QED BY <3>1, <3>2
  <2>3. R!NoGeneration \in GenIds \X Read
    BY DEF R!NoGeneration, GenIds, Read, R!RevisionConstants
  <2> QED BY <2>1, <2>2, <2>3 DEF PreviewInv, PageTyped
<1>4. ASSUME NEW batch \in Batches, NEW dry \in BOOLEAN, NEW save \in BOOLEAN, ~dry => Previewed(batch, gens)
      PROVE  R!Post(batch, dry, save) \in Posts /\ PostAgrees(R!Post(batch, dry, save), gens)
  BY <1>4 DEF PreviewInv, PageTyped, R!Post, Posts, PostAgrees, GenIds, R!RevisionConstants
<1>5. \/ posts' = posts
      \/ \E batch \in Batches, dry \in BOOLEAN, save \in BOOLEAN :
           (~dry => Previewed(batch, gens)) /\ posts' = posts \cup {R!Post(batch, dry, save)}
  <2>1. CASE R!Create
    <3>1. run.id # 0 /\ cached[run.id] = "revised" /\ run.snapshot = edits /\ gens[run.id].dry /\ posts' = posts \cup {R!Post(edits, FALSE, FALSE)}
      BY <2>1 DEF R!Create, R!CanCreate, R!StateOf
    <3>2. run.id \in 1..MaxGens /\ edits \in Batches
      BY <3>1 DEF PreviewInv, PageTyped, RunsTyped, Runs, GenIds, R!RevisionConstants
    <3>3. Previewed(edits, gens)
      BY <3>1, <3>2 DEF PreviewInv, RunAgrees, ReadsAgree, Previewed
    <3> QED BY <3>1, <3>2, <3>3
  <2>2. CASE R!Preview
    BY <2>2 DEF R!Preview, PreviewInv, PageTyped
  <2>3. CASE \E i \in VersionItems : R!SaveAsVersion(i)
    <3>1. posts' = posts \cup {R!Post(edits', TRUE, TRUE)}
      BY <2>3 DEF R!SaveAsVersion
    <3> QED BY <1>3, <3>1 DEF PageTyped
  <2> QED BY <2>1, <2>2, <2>3 DEF R!Edit, R!Drop, R!Leave, R!Stage, R!Undo
<1>6. posts' \subseteq Posts /\ \A p \in posts' : PostAgrees(p, gens)
  BY <1>4, <1>5 DEF PreviewInv, RunsTyped
<1> QED BY <1>1, <1>2, <1>3, <1>6 DEF PreviewInv, RunsTyped

LEMMA ShowSteps ==
  ASSUME R!RevisionConstants, PreviewInv,
         R!Poll \/ R!Return \/ \E p \in posts : R!Answered(p) \/ R!Failed(p)
  PROVE  PreviewInv'
<1>1. PageTyped /\ GensTyped /\ RunsTyped /\ RunAgrees(run, gens) /\ ReadsAgree(cached, gens)
      /\ (\A p \in posts : PostAgrees(p, gens)) /\ AllPreviewed(gens)
      /\ edits \in Batches /\ noticed \in GenIds \X Read /\ open \in BOOLEAN /\ pending \in BOOLEAN
  BY DEF PreviewInv, PageTyped
<1>2. SUFFICES /\ RunsTyped' /\ RunAgrees(run, gens)' /\ ReadsAgree(cached, gens)' /\ \A p \in posts' : PostAgrees(p, gens)'
               /\ edits' \in Batches /\ pending' \in BOOLEAN /\ noticed' \in GenIds \X Read
  <2>1. gens' = gens /\ wanted' = wanted /\ leaves' = leaves /\ open' \in BOOLEAN /\ dirty' \in BOOLEAN
    BY <1>1 DEF R!Poll, R!Return, R!Answered, R!Failed, PageTyped
  <2>2. GensTyped' /\ AllPreviewed(gens)'
    BY <1>1, <2>1 DEF GensTyped
  <2> QED BY <1>1, <1>2, <2>1, <2>2 DEF PreviewInv, PageTyped
<1>3. UNCHANGED <<gens, leaves>>
  BY DEF R!Poll, R!Return, R!Answered, R!Failed
<1>4. CASE R!Poll
  <2> DEFINE c == [cached EXCEPT ![run.id] = gens[run.id].state]
  <2>1. R!Shown(run, c, edits, pending, posts, open, noticed) /\ run.id # 0
    BY <1>4 DEF R!Poll
  <2>2. run \in Runs /\ run.id \in 1..MaxGens /\ run.id \in DOMAIN gens /\ gens[run.id].state \in {"live", "refused", "revised"}
    <3>1. run \in Runs /\ run.id \in 1..MaxGens /\ run.id \in DOMAIN gens
      BY <1>1, <2>1 DEF RunsTyped, RunAgrees, Runs, GenIds, R!RevisionConstants
    <3>2. gens[run.id] \in Generations
      BY <1>1, <3>1 DEF GensTyped
    <3> QED BY <3>1, <3>2 DEF Generations
  <2>3. c \in [1..MaxGens -> Read] /\ ReadsAgree(c, gens)
    BY <1>1, <2>2 DEF RunsTyped, Read, ReadsAgree
  <2>4. posts \in SUBSET Posts
    BY <1>1 DEF RunsTyped
  <2> HIDE DEF c
  <2> QED BY <1>1, <1>3, <2>1, <2>2, <2>3, <2>4, ShownAgrees
<1>5. CASE R!Return
  <2>1. R!Shown(run, cached, edits, FALSE, posts, TRUE, <<0, "unmounted">>)
    BY <1>5 DEF R!Return
  <2>2. run \in Runs /\ cached \in [1..MaxGens -> Read] /\ posts \in SUBSET Posts
    BY <1>1 DEF RunsTyped
  <2> QED BY <1>1, <1>3, <2>1, <2>2, ShownAgrees
<1>6. ASSUME NEW p \in posts, R!Answered(p)
      PROVE  /\ RunsTyped' /\ RunAgrees(run, gens)' /\ ReadsAgree(cached, gens)' /\ \A q \in posts' : PostAgrees(q, gens)'
             /\ edits' \in Batches /\ pending' \in BOOLEAN /\ noticed' \in GenIds \X Read
  <2> DEFINE r == [id |-> p.id, snapshot |-> p.batch, save |-> p.save]
             c == [cached EXCEPT ![p.id] = "live"]
  <2>1. R!Shown(r, c, edits, pending /\ ~R!Mine(p), posts \ {p}, open, noticed) /\ p.id # 0
    BY <1>6 DEF R!Answered
  <2>2. p \in Posts /\ p.id \in 1..MaxGens /\ p.id \in DOMAIN gens /\ gens[p.id].batch = p.batch
    BY <1>1, <2>1 DEF RunsTyped, Posts, GenIds, R!RevisionConstants, PostAgrees
  <2>3. r \in Runs /\ RunAgrees(r, gens)
    BY <2>2 DEF Runs, Posts, RunAgrees
  <2>4. c \in [1..MaxGens -> Read] /\ ReadsAgree(c, gens)
    BY <1>1, <2>2 DEF RunsTyped, Read, ReadsAgree
  <2> DEFINE waits == pending /\ ~R!Mine(p)
  <2>5. waits \in BOOLEAN /\ posts \ {p} \in SUBSET Posts /\ \A q \in posts \ {p} : PostAgrees(q, gens)
    BY <1>1 DEF RunsTyped
  <2>6. R!Shown(r, c, edits, waits, posts \ {p}, open, noticed)
    BY <2>1
  <2> HIDE DEF r, c, waits
  <2> QED BY <1>1, <1>3, <2>3, <2>4, <2>5, <2>6, ShownAgrees
<1>7. ASSUME NEW p \in posts, R!Failed(p)
      PROVE  /\ RunsTyped' /\ RunAgrees(run, gens)' /\ ReadsAgree(cached, gens)' /\ \A q \in posts' : PostAgrees(q, gens)'
             /\ edits' \in Batches /\ pending' \in BOOLEAN /\ noticed' \in GenIds \X Read
  <2> DEFINE r == IF p.save THEN R!NoRun ELSE run
             waits == pending /\ ~R!Mine(p)
  <2>1. R!Shown(r, cached, edits, waits, posts \ {p}, open, noticed)
    BY <1>7 DEF R!Failed
  <2>2. R!NoRun \in Runs /\ R!NoRun.id = 0
    BY DEF R!NoRun, Runs, GenIds, Batches, R!RevisionConstants
  <2>3. r \in Runs /\ RunAgrees(r, gens)
    BY <1>1, <2>2 DEF RunsTyped, RunAgrees
  <2>4. waits \in BOOLEAN /\ posts \ {p} \in SUBSET Posts /\ \A q \in posts \ {p} : PostAgrees(q, gens)
    BY <1>1 DEF RunsTyped
  <2>5. cached \in [1..MaxGens -> Read]
    BY <1>1 DEF RunsTyped
  <2> HIDE DEF r, waits
  <2> QED BY <1>1, <1>3, <2>1, <2>3, <2>4, <2>5, ShownAgrees
<1> QED BY <1>4, <1>5, <1>6, <1>7

LEMMA RevisionSteps ==
  ASSUME R!RevisionConstants, PreviewInv, [R!RevisionNext]_R!revisionVars
  PROVE  PreviewInv'
<1>1. ASSUME NEW p \in posts, R!Queue(p) PROVE PreviewInv'
  <2>1. UNCHANGED <<edits, run, open, pending, dirty, noticed, cached, wanted, leaves>>
    BY <1>1 DEF R!Queue
  <2>2. PageTyped' /\ RunsTyped'
    BY <1>1, <2>1, QueueGrows DEF PreviewInv, PageTyped, RunsTyped
  <2> QED BY <1>1, <2>1, <2>2, QueueGrows, GrownAgrees DEF PreviewInv
<1>2. ASSUME NEW n \in DOMAIN gens, R!Finish(n) PROVE PreviewInv'
  <2>1. UNCHANGED <<edits, run, open, pending, dirty, noticed, cached, posts, wanted, leaves>>
    BY <1>2 DEF R!Finish
  <2>2. PageTyped' /\ RunsTyped'
    BY <2>1 DEF PreviewInv, PageTyped, RunsTyped
  <2> QED BY <1>2, <2>1, <2>2, FinishGrows, GrownAgrees DEF PreviewInv
<1>3. ASSUME UNCHANGED R!revisionVars PROVE PreviewInv'
  BY <1>3 DEF R!revisionVars, PreviewInv, PageTyped, RunsTyped, GensTyped
<1> QED BY <1>1, <1>2, <1>3, PageSteps, ShowSteps DEF R!RevisionNext

\* Every version asked for is of a batch that a clean preview checked whole:
\* whatever is edited, left, answered late or lost in between.
THEOREM PreviewsHold ==
  ASSUME R!RevisionConstants
  PROVE  R!RevisionSpec => [](R!RevisionTypeOK /\ R!CreatedWasPreviewed)
<1>1. PreviewInv => R!RevisionTypeOK /\ R!CreatedWasPreviewed
  <2>1. PreviewInv => R!CreatedWasPreviewed
    BY DEF PreviewInv, AllPreviewed, Previewed, R!CreatedWasPreviewed, R!Asked, R!Clean
  <2>2. PreviewInv => R!RevisionTypeOK
    <3>1. PreviewInv => \A n \in DOMAIN gens : gens[n] \in Generations
      BY DEF PreviewInv, GensTyped
    <3>2. PreviewInv => \A n \in DOMAIN gens : gens[n] \in [batch : R!Batches, dry : BOOLEAN, state : R!States]
      BY <3>1 DEF Generations, Batches, R!Batches, R!States
    <3> QED BY <3>2 DEF PreviewInv, PageTyped, RunsTyped, GensTyped, R!RevisionTypeOK, R!Batches, R!States, R!Gens, Batches, GenIds, Read,
                        Runs, Posts
  <2> QED BY <2>1, <2>2
<1> QED BY RevisionStart, RevisionSteps, <1>1, PTL DEF R!RevisionSpec

\* Until the tab is left, it has one call under way at most, and no run but
\* the clean preview a Save as version's create came of.
OneCall ==
  /\ open /\ (posts = {} <=> ~pending)
  /\ \A p, q \in posts : p = q
  /\ \A p \in posts : p.tab = 0 /\ (run = R!NoRun \/ (p.save /\ ~p.dry))

\* The clean previews of a batch pay for its versions: for those asked for,
\* for one on its way to be asked for, and for one the page may still create.
AskedOf(b) == {n \in DOMAIN gens : ~gens[n].dry /\ gens[n].batch = b}
CleanOf(b) == {n \in DOMAIN gens : gens[n].dry /\ gens[n].state = "revised" /\ gens[n].batch = b}
OnItsWay(b) == \E p \in posts : ~p.dry /\ p.batch = b /\ p.at = "sent"
Usable(b) == \E n \in CleanOf(b) : (posts = {} /\ run.id = n) \/ \E p \in posts : p.id = n
One(claim) == IF claim THEN 1 ELSE 0
Paid(b) == Cardinality(AskedOf(b)) + One(OnItsWay(b)) + One(Usable(b)) <= Cardinality(CleanOf(b))

PaidInv == leaves = 0 => OneCall /\ \A b \in Batches : Paid(b)

LEMMA CountsAreNumbers ==
  ASSUME GensTyped
  PROVE  \A b : /\ IsFiniteSet(AskedOf(b)) /\ Cardinality(AskedOf(b)) \in Nat
                /\ IsFiniteSet(CleanOf(b)) /\ Cardinality(CleanOf(b)) \in Nat
<1>1. DOMAIN gens = 1..Len(gens) /\ Len(gens) \in Nat
  BY DEF GensTyped
<1>2. IsFiniteSet(DOMAIN gens)
  BY <1>1, FS_Interval
<1>3. \A b : AskedOf(b) \subseteq DOMAIN gens /\ CleanOf(b) \subseteq DOMAIN gens
  BY DEF AskedOf, CleanOf
<1> QED BY <1>2, <1>3, FS_Subset, FS_CardinalityType

\* A step that leaves the revisions alone, and moves a claim at most.
LEMMA ClaimsMove ==
  ASSUME GensTyped, UNCHANGED gens, NEW b, Paid(b),
         OnItsWay(b)' /\ ~OnItsWay(b) => Usable(b) /\ ~Usable(b)',
         Usable(b)' => Usable(b)
  PROVE  Paid(b)'
<1>1. AskedOf(b)' = AskedOf(b) /\ CleanOf(b)' = CleanOf(b)
  BY DEF AskedOf, CleanOf
<1>2. Cardinality(AskedOf(b)) \in Nat /\ Cardinality(CleanOf(b)) \in Nat
  BY CountsAreNumbers
<1>3. One(OnItsWay(b)') + One(Usable(b)') <= One(OnItsWay(b)) + One(Usable(b))
  BY DEF One
<1>4. One(OnItsWay(b)') \in {0, 1} /\ One(Usable(b)') \in {0, 1} /\ One(OnItsWay(b)) \in {0, 1} /\ One(Usable(b)) \in {0, 1}
  BY DEF One
<1>5. One(OnItsWay(b))' = One(OnItsWay(b)') /\ One(Usable(b))' = One(Usable(b)')
  BY DEF One
<1> QED BY <1>1, <1>2, <1>3, <1>4, <1>5 DEF Paid

LEMMA PaidStart == ASSUME R!RevisionConstants, R!RevisionInit PROVE PaidInv
<1>1. OneCall
  BY DEF OneCall, R!RevisionInit
<1>2. ASSUME NEW b PROVE Paid(b)
  <2>1. AskedOf(b) = {} /\ CleanOf(b) = {}
    BY DEF R!RevisionInit, AskedOf, CleanOf
  <2>2. ~OnItsWay(b) /\ ~Usable(b)
    BY <2>1 DEF R!RevisionInit, OnItsWay, Usable
  <2> QED BY <2>1, <2>2, FS_EmptySet DEF Paid, One
<1> QED BY <1>1, <1>2 DEF PaidInv

LEMMA PageStepsPay ==
  ASSUME R!RevisionConstants, PreviewInv, PaidInv, leaves' = 0,
         \/ R!Edit \/ R!Drop \/ R!Leave \/ R!Preview \/ R!Create
         \/ \E i \in VersionItems : R!Stage(i) \/ R!Undo(i) \/ R!SaveAsVersion(i)
  PROVE  OneCall' /\ \A b \in Batches : Paid(b)'
<1>1. leaves = 0 /\ OneCall /\ (\A b \in Batches : Paid(b)) /\ GensTyped /\ ~R!Leave
  <2>1. leaves \in Nat
    BY DEF PreviewInv, PageTyped, R!RevisionConstants
  <2>2. ~R!Leave
    BY <2>1 DEF R!Leave
  <2>3. leaves' = leaves
    BY <2>2 DEF R!Edit, R!Drop, R!Preview, R!Create, R!Stage, R!Undo, R!SaveAsVersion
  <2> QED BY <2>2, <2>3 DEF PaidInv, PreviewInv
<1>2. posts = {} /\ ~pending /\ gens' = gens
  BY <1>1 DEF R!Busy, OneCall, R!Edit, R!Drop, R!Preview, R!Create, R!Stage, R!Undo, R!SaveAsVersion
<1>3. \A b : Usable(b) <=> run.id \in CleanOf(b)
  BY <1>2 DEF Usable
<1>4. \A n \in DOMAIN gens : n # 0
  BY <1>1 DEF GensTyped
<1>5. \A b : CleanOf(b)' = CleanOf(b) /\ CleanOf(b) \subseteq DOMAIN gens
  BY <1>2 DEF CleanOf
<1>6. CASE R!Edit \/ R!Drop \/ \E i \in VersionItems : R!Stage(i) \/ R!Undo(i)
  <2>1. posts' = {} /\ pending' = pending /\ open' = open /\ run' \in {run, R!NoRun} /\ R!NoRun.id = 0
    BY <1>2, <1>6 DEF R!Edit, R!Drop, R!Stage, R!Undo, R!NoRun
  <2>2. \A b : ~OnItsWay(b)' /\ (Usable(b)' => Usable(b))
    BY <1>3, <1>4, <1>5, <2>1 DEF OnItsWay, Usable
  <2> QED BY <1>1, <1>2, <2>1, <2>2, ClaimsMove DEF OneCall
<1>7. ASSUME NEW batch, NEW dry \in BOOLEAN, NEW save \in BOOLEAN, posts' = posts \cup {R!Post(batch, dry, save)},
             ~dry => run.id \in CleanOf(batch), pending', open' = open, run' = R!NoRun
      PROVE  OneCall' /\ \A b \in Batches : Paid(b)'
  <2>1. posts' = {R!Post(batch, dry, save)} /\ R!Post(batch, dry, save).id = 0 /\ R!Post(batch, dry, save).tab = 0
        /\ R!Post(batch, dry, save).dry = dry /\ R!Post(batch, dry, save).batch = batch
    BY <1>1, <1>2, <1>7 DEF R!Post
  <2>2. OneCall'
    BY <1>1, <1>7, <2>1 DEF OneCall
  <2>3. \A b : ~Usable(b)'
    BY <1>4, <1>5, <2>1 DEF Usable
  <2>4. \A b : OnItsWay(b)' => Usable(b)
    BY <1>3, <1>7, <2>1 DEF OnItsWay
  <2> QED BY <1>1, <1>2, <2>2, <2>3, <2>4, ClaimsMove
<1>8. CASE R!Preview
  BY <1>7, <1>8 DEF R!Preview
<1>9. CASE R!Create
  <2>1. run.id # 0 /\ cached[run.id] = "revised" /\ run.snapshot = edits /\ gens[run.id].dry
    BY <1>9 DEF R!Create, R!CanCreate, R!StateOf
  <2>2. run.id \in 1..MaxGens
    BY <2>1 DEF PreviewInv, RunsTyped, Runs, GenIds, R!RevisionConstants
  <2>3. run.id \in CleanOf(edits)
    BY <2>1, <2>2 DEF PreviewInv, RunAgrees, ReadsAgree, CleanOf
  <2> QED BY <1>7, <1>9, <2>3 DEF R!Create
<1>10. CASE \E i \in VersionItems : R!SaveAsVersion(i)
  BY <1>7, <1>10 DEF R!SaveAsVersion
<1> QED BY <1>1, <1>6, <1>8, <1>9, <1>10

LEMMA ShowStepsPay ==
  ASSUME R!RevisionConstants, PreviewInv, PaidInv, leaves' = 0,
         R!Poll \/ R!Return \/ \E p \in posts : R!Answered(p) \/ R!Failed(p)
  PROVE  OneCall' /\ \A b \in Batches : Paid(b)'
<1>1. leaves = 0 /\ OneCall /\ (\A b \in Batches : Paid(b)) /\ GensTyped /\ gens' = gens
  BY DEF R!Poll, R!Return, R!Answered, R!Failed, PaidInv, PreviewInv
<1>2. open /\ ~R!Return
  BY <1>1 DEF OneCall, R!Return
<1>3. \A n \in DOMAIN gens : n # 0
  BY <1>1 DEF GensTyped
<1>4. \A b : CleanOf(b)' = CleanOf(b) /\ CleanOf(b) \subseteq DOMAIN gens
  BY <1>1 DEF CleanOf
<1>5. CASE R!Poll
  <2> DEFINE c == [cached EXCEPT ![run.id] = gens[run.id].state]
             q == R!Post(edits, FALSE, TRUE)
  <2>1. R!Shown(run, c, edits, pending, posts, open, noticed) /\ open' = open
    BY <1>5 DEF R!Poll
  <2>2. run' = run
    BY <2>1 DEF R!Shown
  <2>3. CASE posts' = posts /\ pending' = pending
    <3>1. OneCall'
      BY <1>1, <2>1, <2>2, <2>3 DEF OneCall
    <3>2. \A b : OnItsWay(b)' = OnItsWay(b) /\ Usable(b)' = Usable(b)
      BY <1>4, <2>2, <2>3 DEF OnItsWay, Usable
    <3> QED BY <1>1, <3>1, <3>2, ClaimsMove
  <2>4. CASE ~(posts' = posts /\ pending' = pending)
    <3>1. run.save /\ R!CanCreate(run, c, edits) /\ ~pending /\ pending' /\ posts' = posts \cup {q}
      <4>1. pending \in BOOLEAN
        BY DEF PreviewInv, PageTyped
      <4> QED BY <2>1, <2>4, <4>1 DEF R!Shown
    <3>2. posts = {} /\ posts' = {q} /\ q.id = 0 /\ q.tab = 0 /\ ~q.dry /\ q.save /\ q.batch = edits
      BY <1>1, <3>1 DEF OneCall, R!Post
    <3> HIDE DEF q
    <3>3. OneCall'
      BY <1>1, <2>1, <3>1, <3>2 DEF OneCall
    <3>4. \A b : ~Usable(b)'
      BY <1>3, <1>4, <3>2 DEF Usable
    <3>5. run.id \in CleanOf(edits)
      <4>1. run.id # 0 /\ c[run.id] = "revised" /\ run.snapshot = edits /\ gens[run.id].dry
        BY <3>1 DEF R!CanCreate, R!StateOf
      <4>2. run.id \in 1..MaxGens /\ c[run.id] = gens[run.id].state
        BY <4>1 DEF PreviewInv, RunsTyped, Runs, GenIds, R!RevisionConstants
      <4> QED BY <4>1, <4>2 DEF PreviewInv, RunAgrees, CleanOf
    <3>6. \A b : OnItsWay(b)' => Usable(b)
      BY <3>2, <3>5 DEF OnItsWay, Usable
    <3> QED BY <1>1, <3>3, <3>4, <3>6, ClaimsMove
  <2> QED BY <2>3, <2>4
<1>6. ASSUME NEW p \in posts, NEW r, NEW c, NEW waits, waits = (pending /\ ~R!Mine(p)), open' = open,
             R!Shown(r, c, edits, waits, posts \ {p}, open, noticed),
             ~(r.save /\ R!CanCreate(r, c, edits)), r.id = 0 \/ r.id = p.id
      PROVE  OneCall' /\ \A b \in Batches : Paid(b)'
  <2>1. run' = r /\ posts' = posts \ {p} /\ pending' = waits
    BY <1>6 DEF R!Shown
  <2>2. posts \ {p} = {} /\ p.tab = 0 /\ R!Mine(p) /\ waits = FALSE
    BY <1>1, <1>2, <1>6 DEF OneCall, R!Mine
  <2>3. OneCall'
    BY <1>1, <1>6, <2>1, <2>2 DEF OneCall
  <2>4. \A b : ~OnItsWay(b)'
    BY <2>1, <2>2 DEF OnItsWay
  <2>5. \A b : Usable(b)' => Usable(b)
    BY <1>3, <1>4, <1>6, <2>1, <2>2 DEF Usable
  <2> QED BY <1>1, <2>3, <2>4, <2>5, ClaimsMove
<1>7. ASSUME NEW p \in posts, R!Answered(p)
      PROVE  OneCall' /\ \A b \in Batches : Paid(b)'
  <2> DEFINE r == [id |-> p.id, snapshot |-> p.batch, save |-> p.save]
             c == [cached EXCEPT ![p.id] = "live"]
             waits == pending /\ ~R!Mine(p)
  <2>1. R!Shown(r, c, edits, waits, posts \ {p}, open, noticed) /\ open' = open /\ p.id # 0 /\ r.id = p.id
    BY <1>7 DEF R!Answered
  <2>2. p.id \in 1..MaxGens
    BY <2>1 DEF PreviewInv, RunsTyped, Posts, GenIds, R!RevisionConstants
  <2>3. c[p.id] = "live"
    BY <2>2 DEF PreviewInv, RunsTyped
  <2>4. ~R!CanCreate(r, c, edits)
    BY <2>1, <2>3 DEF R!CanCreate, R!StateOf
  <2> HIDE DEF r, c
  <2> QED BY <1>6, <2>1, <2>4
<1>8. ASSUME NEW p \in posts, R!Failed(p)
      PROVE  OneCall' /\ \A b \in Batches : Paid(b)'
  <2> DEFINE r == IF p.save THEN R!NoRun ELSE run
             waits == pending /\ ~R!Mine(p)
  <2>1. R!Shown(r, cached, edits, waits, posts \ {p}, open, noticed) /\ open' = open
    BY <1>8 DEF R!Failed
  <2>2. r = R!NoRun
    BY <1>1 DEF OneCall
  <2>3. r.id = 0 /\ ~r.save
    BY <2>2 DEF R!NoRun
  <2> HIDE DEF r
  <2> QED BY <1>6, <2>1, <2>3
<1> QED BY <1>2, <1>5, <1>7, <1>8

LEMMA QueuePays ==
  ASSUME R!RevisionConstants, PreviewInv, PaidInv, leaves' = 0, NEW p \in posts, R!Queue(p)
  PROVE  OneCall' /\ \A b \in Batches : Paid(b)'
<1>1. /\ leaves = 0 /\ OneCall /\ (\A b \in Batches : Paid(b)) /\ GensTyped /\ p \in Posts /\ p.at = "sent" /\ p.id = 0
      /\ run' = run /\ open' = open /\ pending' = pending
  BY DEF R!Queue, PaidInv, PreviewInv, RunsTyped, PostAgrees
<1>2. posts = {p}
  BY <1>1 DEF OneCall
<1>3. PICK q : /\ posts' = {q} /\ q.tab = p.tab /\ q.save = p.save /\ q.dry = p.dry /\ q.batch = p.batch /\ q.at = "answered"
               /\ \/ gens' = gens /\ q.id = 0
                  \/ /\ gens' = Append(gens, [batch |-> p.batch, dry |-> p.dry, state |-> "live"])
                     /\ q.id = Len(gens) + 1
  <2>1. CASE posts' = (posts \ {p}) \cup {[p EXCEPT !.at = "answered"]} /\ gens' = gens
    <3> DEFINE answered == [p EXCEPT !.at = "answered"]
    <3>1. /\ answered.tab = p.tab /\ answered.save = p.save /\ answered.dry = p.dry /\ answered.batch = p.batch
          /\ answered.at = "answered" /\ answered.id = 0
      BY <1>1 DEF Posts
    <3>2. posts' = {answered}
      BY <1>2, <2>1
    <3> HIDE DEF answered
    <3> QED BY <2>1, <3>1, <3>2
  <2>2. CASE /\ gens' = Append(gens, [batch |-> p.batch, dry |-> p.dry, state |-> "live"])
             /\ posts' = (posts \ {p}) \cup {[p EXCEPT !.at = "answered", !.id = Len(gens) + 1]}
    <3> DEFINE answered == [p EXCEPT !.at = "answered", !.id = Len(gens) + 1]
    <3>1. /\ answered.tab = p.tab /\ answered.save = p.save /\ answered.dry = p.dry /\ answered.batch = p.batch
          /\ answered.at = "answered" /\ answered.id = Len(gens) + 1
      BY <1>1 DEF Posts
    <3>2. posts' = {answered}
      BY <1>2, <2>2
    <3> HIDE DEF answered
    <3> QED BY <2>2, <3>1, <3>2
  <2> QED BY <2>1, <2>2 DEF R!Queue
<1>4. OneCall'
  BY <1>1, <1>2, <1>3 DEF OneCall
<1>5. \A b : ~OnItsWay(b)'
  BY <1>3 DEF OnItsWay
<1>6. DOMAIN gens = 1..Len(gens) /\ Len(gens) \in Nat /\ gens \in Seq(Generations)
  BY <1>1 DEF GensTyped
<1>7. CASE gens' = gens /\ q.id = 0
  <2>1. \A b : ~Usable(b)'
    BY <1>3, <1>6, <1>7 DEF Usable, CleanOf
  <2> QED BY <1>1, <1>4, <1>5, <1>7, <2>1, ClaimsMove
<1>8. CASE gens' = Append(gens, [batch |-> p.batch, dry |-> p.dry, state |-> "live"]) /\ q.id = Len(gens) + 1
  <2> DEFINE new == [batch |-> p.batch, dry |-> p.dry, state |-> "live"]
  <2>1. new \in Generations /\ new.batch = p.batch /\ new.dry = p.dry /\ new.state = "live"
    BY <1>1 DEF Posts, Generations
  <2>2. gens' = Append(gens, new)
    BY <1>8
  <2> HIDE DEF new
  <2>3. /\ DOMAIN gens' = 1..(Len(gens) + 1) /\ gens'[Len(gens) + 1] = new
        /\ \A n \in 1..Len(gens) : gens'[n] = gens[n]
    BY <1>6, <2>1, <2>2
  <2>4. \A b : CleanOf(b)' = CleanOf(b) /\ CleanOf(b) \subseteq 1..Len(gens)
    BY <1>6, <2>1, <2>3 DEF CleanOf
  <2>5. \A b : ~Usable(b)'
    BY <1>3, <1>6, <1>8, <2>4 DEF Usable
  <2>6. ASSUME NEW b \in Batches PROVE Paid(b)'
    <3>1. Cardinality(AskedOf(b)) \in Nat /\ Cardinality(CleanOf(b)) \in Nat /\ IsFiniteSet(AskedOf(b))
      BY <1>1, CountsAreNumbers
    <3>2. Cardinality(AskedOf(b)) + One(OnItsWay(b)) <= Cardinality(CleanOf(b))
      BY <1>1, <3>1 DEF Paid, One
    <3>3. CASE p.dry \/ p.batch # b
      <4>1. AskedOf(b)' = AskedOf(b)
        BY <1>6, <2>1, <2>3, <3>3 DEF AskedOf
      <4> QED BY <1>5, <2>4, <2>5, <3>1, <3>2, <4>1 DEF Paid, One
    <3>4. CASE ~p.dry /\ p.batch = b
      <4>1. AskedOf(b)' = AskedOf(b) \cup {Len(gens) + 1} /\ Len(gens) + 1 \notin AskedOf(b)
        BY <1>6, <2>1, <2>3, <3>4 DEF AskedOf
      <4>2. Cardinality(AskedOf(b)') = Cardinality(AskedOf(b)) + 1
        BY <3>1, <4>1, FS_AddElement
      <4>3. OnItsWay(b)
        BY <1>1, <3>4 DEF OnItsWay
      <4> QED BY <1>5, <2>4, <2>5, <3>1, <3>2, <4>2, <4>3 DEF Paid, One
    <3> QED BY <3>3, <3>4
  <2> QED BY <1>4, <2>6
<1> QED BY <1>3, <1>7, <1>8

LEMMA FinishPays ==
  ASSUME R!RevisionConstants, PreviewInv, PaidInv, leaves' = 0, NEW n \in DOMAIN gens, R!Finish(n)
  PROVE  OneCall' /\ \A b \in Batches : Paid(b)'
<1>1. leaves = 0 /\ OneCall /\ (\A b \in Batches : Paid(b)) /\ GensTyped /\ UNCHANGED <<run, open, pending, posts>>
  BY DEF R!Finish, PaidInv, PreviewInv
<1>2. OneCall'
  BY <1>1 DEF OneCall
<1>3. /\ DOMAIN gens' = DOMAIN gens /\ gens[n].state = "live"
      /\ \A m \in DOMAIN gens :
           /\ gens'[m].dry = gens[m].dry /\ gens'[m].batch = gens[m].batch
           /\ m # n => gens'[m].state = gens[m].state
  BY FinishGrows
<1>4. \A b : AskedOf(b)' = AskedOf(b) /\ OnItsWay(b)' = OnItsWay(b)
  BY <1>1, <1>3 DEF AskedOf, OnItsWay
<1>5. \A b : n \notin CleanOf(b) /\ (CleanOf(b)' = CleanOf(b) \/ CleanOf(b)' = CleanOf(b) \cup {n})
  BY <1>3 DEF CleanOf
<1>6. ASSUME NEW b \in Batches PROVE Paid(b)'
  <2>1. Cardinality(AskedOf(b)) \in Nat /\ Cardinality(CleanOf(b)) \in Nat /\ IsFiniteSet(CleanOf(b)) /\ Paid(b)
    BY <1>1, CountsAreNumbers
  <2>2. CASE CleanOf(b)' = CleanOf(b)
    <3>1. Usable(b)' = Usable(b)
      BY <1>1, <2>2 DEF Usable
    <3> QED BY <1>4, <2>1, <2>2, <3>1 DEF Paid
  <2>3. CASE CleanOf(b)' = CleanOf(b) \cup {n}
    <3>1. Cardinality(CleanOf(b)') = Cardinality(CleanOf(b)) + 1
      BY <1>5, <2>1, <2>3, FS_AddElement
    <3>2. One(Usable(b)') <= One(Usable(b)) + 1 /\ One(Usable(b)') \in {0, 1} /\ One(Usable(b)) \in {0, 1} /\ One(OnItsWay(b)) \in {0, 1}
      BY DEF One
    <3> QED BY <1>4, <2>1, <3>1, <3>2 DEF Paid, One
  <2> QED BY <1>5, <2>2, <2>3
<1> QED BY <1>2, <1>6

LEMMA RevisionPays ==
  ASSUME R!RevisionConstants, PreviewInv, PaidInv, [R!RevisionNext]_R!revisionVars
  PROVE  PaidInv'
<1>1. SUFFICES ASSUME leaves' = 0 PROVE OneCall' /\ \A b \in Batches : Paid(b)'
  BY DEF PaidInv
<1>2. CASE UNCHANGED R!revisionVars
  <2>1. UNCHANGED <<gens, posts, run, open, pending, leaves>>
    BY <1>2 DEF R!revisionVars
  <2>2. OneCall /\ \A b \in Batches : Paid(b)
    BY <1>1, <2>1 DEF PaidInv
  <2>3. OneCall'
    BY <2>1, <2>2 DEF OneCall
  <2>4. \A b : AskedOf(b)' = AskedOf(b) /\ CleanOf(b)' = CleanOf(b)
    BY <2>1 DEF AskedOf, CleanOf
  <2>5. \A b : OnItsWay(b)' = OnItsWay(b) /\ Usable(b)' = Usable(b)
    BY <2>1, <2>4 DEF OnItsWay, Usable
  <2>6. \A b : Paid(b)' = Paid(b)
    BY <2>4, <2>5 DEF Paid
  <2> QED BY <2>2, <2>3, <2>6 DEF Batches
<1>3. ASSUME NEW p \in posts, R!Queue(p) PROVE OneCall' /\ \A b \in Batches : Paid(b)'
  BY <1>1, <1>3, QueuePays
<1>4. ASSUME NEW n \in DOMAIN gens, R!Finish(n) PROVE OneCall' /\ \A b \in Batches : Paid(b)'
  BY <1>1, <1>4, FinishPays
<1> QED BY <1>1, <1>2, <1>3, <1>4, PageStepsPay, ShowStepsPay DEF R!RevisionNext

LEMMA RevisionCounts == \A W : R!Cardinality(W) = Cardinality(W)
BY DEF R!Cardinality, Cardinality

\* While the tab stays open, a clean preview makes one version: of a batch
\* no more versions are asked for than clean previews were made.
THEOREM PaymentsHold ==
  ASSUME R!RevisionConstants
  PROVE  R!RevisionSpec => []R!OneVersionEach
<1>1. ASSUME PreviewInv, PaidInv, leaves = 0, NEW n \in DOMAIN gens
      PROVE  Cardinality({m \in R!Asked : gens[m].batch = gens[n].batch}) <= Cardinality(R!Clean(gens[n].batch))
  <2> DEFINE b == gens[n].batch
  <2>1. b \in Batches
    <3>1. gens[n] \in Generations
      BY <1>1 DEF PreviewInv, GensTyped
    <3> QED BY <3>1 DEF Generations
  <2>2. {m \in R!Asked : gens[m].batch = b} = AskedOf(b) /\ R!Clean(b) = CleanOf(b)
    BY DEF R!Asked, R!Clean, AskedOf, CleanOf
  <2> HIDE DEF b
  <2>3. Paid(b) /\ Cardinality(AskedOf(b)) \in Nat /\ Cardinality(CleanOf(b)) \in Nat
    BY <1>1, <2>1, CountsAreNumbers DEF PaidInv, PreviewInv
  <2>4. Cardinality(AskedOf(b)) <= Cardinality(CleanOf(b))
    BY <2>3 DEF Paid, One
  <2> QED BY <2>2, <2>4 DEF b
<1>2. PreviewInv /\ PaidInv => R!OneVersionEach
  BY <1>1, RevisionCounts DEF R!OneVersionEach, R!Asked
<1> QED BY RevisionStart, RevisionSteps, PaidStart, RevisionPays, <1>2, PTL DEF R!RevisionSpec

-----------------------------------------------------------------------------
(* The sample's tour. *)

WalkStates == [pc : T!Pcs \cup T!AtRest, conn : BOOLEAN, ont : BOOLEAN, gen : 0..MaxDrafts + 1, ver : BOOLEAN]
Services ==
  [conns : Nat, sync : {"none", "syncing", "synced", "failed"}, docs : {"none", "uploaded", "read"},
   onts : Nat, gens : Seq({"live", "made", "failed"}), current : Nat, loads : SUBSET Visits]
TourTyped ==
  /\ visit \in Visits /\ here \in BOOLEAN /\ faults \in 0..MaxFaults
  /\ walk \in [Visits -> WalkStates] /\ service \in Services

Active(v) == walk[v].pc \notin T!AtRest
OneAtATime == \A u, v \in Visits : Active(u) /\ Active(v) => u = v

\* What a walk w found, and is about to make, of what Foundry holds, s.
Early == {"connector", "sync", "synced", "documents", "read", "again", "ontology", "generate"}
DraftsOf(s) == {g \in DOMAIN s.gens : s.gens[g] # "failed"}
WalkAgrees(w, s) ==
  /\ w.pc = "connector" => (w.conn <=> s.conns > 0)
  /\ w.pc = "ontology" => s.onts = 0
  /\ w.pc \in Early /\ w.ont => s.onts > 0
  /\ w.pc = "generate" => s.onts > 0
  /\ w.pc \in Early => DraftsOf(s) = {}
  /\ w.pc = "load" => s.loads = {}
ServiceAgrees(s) ==
  /\ s.conns <= 1 /\ s.onts <= 1
  /\ s.onts = 0 => s.gens = <<>>
  /\ \A g, h \in DraftsOf(s) : g = h
  /\ \A g, h \in s.loads : g = h
  /\ \A g \in DOMAIN s.gens : s.gens[g] = "failed" => g <= MaxDrafts

TourInv ==
  /\ TourTyped /\ OneAtATime /\ ServiceAgrees(service)
  /\ \A v \in Visits : WalkAgrees(walk[v], service)

LEMMA TourStart == ASSUME T!TourConstants, T!TourInit PROVE TourInv
<1>1. walk = [v \in Visits |-> IF v = 1 THEN T!Waits ELSE T!NoWalk]
  BY DEF T!TourInit
<1>2. T!Waits \in WalkStates /\ T!NoWalk \in WalkStates /\ T!Waits.pc = "waiting" /\ T!NoWalk.pc = "none"
  <2>1. T!NoWalk \in WalkStates /\ T!NoWalk.pc = "none"
    BY DEF T!TourConstants, T!NoWalk, WalkStates, T!AtRest
  <2> QED BY <2>1 DEF T!Waits, WalkStates, T!AtRest
<1>3. \A v \in Visits : walk[v] \in WalkStates /\ walk[v].pc \in T!AtRest
  BY <1>1, <1>2 DEF T!AtRest
<1>4. service \in Services /\ service.conns = 0 /\ service.onts = 0 /\ service.gens = <<>> /\ service.loads = {}
  BY DEF T!TourInit, Services
<1>5. TourTyped
  BY <1>1, <1>3, <1>4 DEF TourTyped, T!TourInit, T!TourConstants
<1>6. OneAtATime /\ \A v \in Visits : WalkAgrees(walk[v], service)
  BY <1>3 DEF OneAtATime, Active, WalkAgrees, T!AtRest, Early
<1>7. ServiceAgrees(service)
  BY <1>4 DEF ServiceAgrees, DraftsOf
<1> QED BY <1>5, <1>6, <1>7 DEF TourInv

\* A walk under way is the only one: what it makes disturbs no other.
LEMMA WalksKeep ==
  ASSUME TourInv, NEW v \in Visits, Active(v), NEW w \in WalkStates, T!Walks(v, w),
         service' \in Services, faults' \in 0..MaxFaults,
         ServiceAgrees(service'), WalkAgrees(w, service')
  PROVE  TourInv'
<1>1. walk' = [walk EXCEPT ![v] = w] /\ visit' = visit /\ here' = here
  BY DEF T!Walks
<1>2. walk' \in [Visits -> WalkStates] /\ walk'[v] = w /\ \A u \in Visits \ {v} : walk'[u] = walk[u]
  BY <1>1 DEF TourInv, TourTyped
<1>3. \A u \in Visits \ {v} : walk[u].pc \in T!AtRest
  BY DEF TourInv, OneAtATime, Active
<1>4. OneAtATime'
  BY <1>2, <1>3 DEF OneAtATime, Active, T!AtRest
<1>5. \A u \in Visits : WalkAgrees(walk'[u], service')
  BY <1>2, <1>3 DEF WalkAgrees, T!AtRest, Early
<1>6. TourTyped'
  BY <1>1, <1>2 DEF TourInv, TourTyped
<1> QED BY <1>4, <1>5, <1>6 DEF TourInv, ServiceAgrees, WalkAgrees, DraftsOf

\* The same, for each form of a step: it goes on, stops, fails, or waits.
LEMMA StepsKeep ==
  ASSUME T!TourConstants, TourInv, NEW v \in Visits, Active(v), NEW w \in WalkStates
  PROVE  /\ T!Becomes(v, w) /\ UNCHANGED service /\ WalkAgrees(w, service) => TourInv'
         /\ T!Stops(v) /\ UNCHANGED service => TourInv'
         /\ T!Fails(v) /\ UNCHANGED service => TourInv'
         /\ \A ended : T!Until(v, ended, w) /\ WalkAgrees(w, service) => TourInv'
         /\ \A after \in Services : T!Sends(v, after, w) /\ ServiceAgrees(after) /\ WalkAgrees(w, after) => TourInv'
<1> DEFINE stopped == [walk[v] EXCEPT !.pc = "failed"]
<1>1. walk[v] \in WalkStates /\ service \in Services /\ faults \in 0..MaxFaults /\ ServiceAgrees(service)
  BY DEF TourInv, TourTyped
<1>2. stopped \in WalkStates /\ stopped.pc = "failed"
  BY <1>1 DEF WalkStates, T!AtRest
<1>3. \A s : WalkAgrees(stopped, s)
  BY <1>2 DEF WalkAgrees, Early
<1> HIDE DEF stopped
<1>4. T!Becomes(v, w) /\ UNCHANGED service /\ WalkAgrees(w, service) => TourInv'
  BY <1>1, WalksKeep DEF T!Becomes
<1>5. T!Walks(v, stopped) /\ service' \in Services /\ ServiceAgrees(service') /\ faults' \in 0..MaxFaults => TourInv'
  BY <1>2, <1>3, WalksKeep
<1>6. T!Stops(v) /\ UNCHANGED service => TourInv'
  BY <1>1, <1>5 DEF T!Stops, T!Becomes, stopped
<1>7. T!Fails(v) => T!Walks(v, stopped) /\ faults' \in 0..MaxFaults
  <2>1. T!Fails(v) => T!Walks(v, stopped) /\ faults < MaxFaults /\ faults' = faults + 1
    BY DEF T!Fails, stopped
  <2> QED BY <1>1, <2>1 DEF T!TourConstants
<1>8. \A ended : T!Until(v, ended, w) /\ WalkAgrees(w, service) => TourInv'
  BY <1>1, <1>4, <1>5, <1>6, <1>7 DEF T!Until
<1>9. ASSUME NEW after \in Services, T!Sends(v, after, w), ServiceAgrees(after), WalkAgrees(w, after) PROVE TourInv'
  BY <1>1, <1>5, <1>7, <1>9, WalksKeep DEF T!Sends, T!Becomes
<1>10. T!Fails(v) /\ UNCHANGED service => TourInv'
  BY <1>1, <1>5, <1>7
<1> QED BY <1>4, <1>6, <1>8, <1>9, <1>10

LEMMA FewDrafts ==
  ASSUME T!TourConstants, NEW s \in Services, ServiceAgrees(s)
  PROVE  /\ Len(s.gens) \in Nat /\ DOMAIN s.gens = 1..Len(s.gens) /\ Len(s.gens) <= MaxDrafts + 1
         /\ DraftsOf(s) = {} => Len(s.gens) <= MaxDrafts
<1>1. s.gens \in Seq({"live", "made", "failed"})
  BY DEF Services
<1>2. Len(s.gens) \in Nat /\ DOMAIN s.gens = 1..Len(s.gens)
  BY <1>1
<1>3. \A g \in 1..Len(s.gens) : g > MaxDrafts => g \in DraftsOf(s)
  BY <1>2 DEF ServiceAgrees, DraftsOf, T!TourConstants
<1>4. MaxDrafts + 1 \in Nat /\ MaxDrafts + 2 \in Nat
  BY DEF T!TourConstants
<1>5. Len(s.gens) <= MaxDrafts + 1
  <2>1. SUFFICES ASSUME Len(s.gens) >= MaxDrafts + 2 PROVE FALSE
    BY <1>2, <1>4 DEF T!TourConstants
  <2>2. MaxDrafts + 1 \in DraftsOf(s) /\ MaxDrafts + 2 \in DraftsOf(s)
    BY <1>2, <1>3, <1>4, <2>1 DEF T!TourConstants
  <2> QED BY <2>2 DEF ServiceAgrees, T!TourConstants
<1>6. DraftsOf(s) = {} => Len(s.gens) <= MaxDrafts
  <2>1. SUFFICES ASSUME Len(s.gens) >= MaxDrafts + 1, DraftsOf(s) = {} PROVE FALSE
    BY <1>2, <1>4 DEF T!TourConstants
  <2> QED BY <1>2, <1>3, <1>4, <2>1 DEF T!TourConstants
<1> QED BY <1>2, <1>5, <1>6

LEMMA WalkSteps ==
  ASSUME T!TourConstants, TourInv, NEW v \in Visits, T!Steps(v)
  PROVE  TourInv'
<1> DEFINE to(pc) == [walk[v] EXCEPT !.pc = pc]
<1>1. walk[v] \in WalkStates /\ service \in Services /\ ServiceAgrees(service) /\ WalkAgrees(walk[v], service)
  BY DEF TourInv, TourTyped
<1>2. \A pc \in T!Pcs \cup T!AtRest :
        /\ to(pc) \in WalkStates /\ to(pc).pc = pc
        /\ to(pc).conn = walk[v].conn /\ to(pc).ont = walk[v].ont /\ to(pc).gen = walk[v].gen
  BY <1>1 DEF WalkStates
<1>3. Active(v)
  BY DEF T!Steps, T!At, Active, T!AtRest, T!Find, T!Connector, T!Sync, T!Synced, T!Documents, T!Read, T!Again, T!Ontology,
         T!Generate, T!Draft, T!Current, T!Loads, T!Load, T!Unread
<1>4. \A w \in WalkStates : w.pc \in {"current", "loads", "done", "draft"} => \A s : WalkAgrees(w, s)
  BY DEF WalkAgrees, Early
<1>5. ASSUME NEW pc \in Early \ {"generate", "ontology", "connector"}, walk[v].pc \in Early
      PROVE  \A s : DraftsOf(s) = DraftsOf(service) /\ s.onts = service.onts => WalkAgrees(to(pc), s)
  <2>1. to(pc).pc = pc /\ to(pc).ont = walk[v].ont
    BY <1>2, <1>5 DEF T!Pcs, Early
  <2> HIDE DEF to
  <2> QED BY <1>1, <1>5, <2>1 DEF WalkAgrees, Early
<1> HIDE DEF to
<1>6. CASE T!Find(v)
  <2> DEFINE ont == service.onts > 0
             gen == IF ont /\ T!Drafts # {} THEN CHOOSE g \in T!Drafts : \A h \in T!Drafts : h <= g ELSE 0
             ver == service.current # 0
             next == [pc |-> IF ver THEN "loads" ELSE IF gen # 0 THEN "draft" ELSE "connector",
                      conn |-> service.conns > 0, ont |-> ont, gen |-> gen, ver |-> ver]
  <2>1. T!Becomes(v, next) /\ UNCHANGED service
    BY <1>6 DEF T!Find
  <2>2. service.conns \in Nat /\ service.onts \in Nat
    BY <1>1 DEF Services
  <2>3. T!Drafts = DraftsOf(service)
    BY DEF T!Drafts, DraftsOf
  <2>4. ~ont => DraftsOf(service) = {}
    BY <1>1, <2>2 DEF ServiceAgrees, DraftsOf
  <2>5. gen \in 0..MaxDrafts + 1 /\ (gen = 0 => DraftsOf(service) = {})
    <3>1. \A g \in DraftsOf(service) : g \in 1..MaxDrafts + 1
      BY <1>1, FewDrafts DEF DraftsOf, T!TourConstants
    <3>2. ASSUME ont, T!Drafts # {} PROVE gen \in DraftsOf(service)
      <4>1. PICK g \in DraftsOf(service) : TRUE
        BY <2>3, <3>2
      <4>2. \A h \in DraftsOf(service) : h <= g
        BY <1>1, <3>1 DEF ServiceAgrees
      <4> QED BY <2>3, <3>2, <4>1, <4>2
    <3>3. ~(ont /\ T!Drafts # {}) => gen = 0 /\ DraftsOf(service) = {}
      BY <2>3, <2>4
    <3> HIDE DEF gen
    <3>4. gen \in DraftsOf(service) \/ (gen = 0 /\ DraftsOf(service) = {})
      BY <3>2, <3>3
    <3> QED BY <3>1, <3>4 DEF T!TourConstants
  <2>6. next.pc \in {"loads", "draft"} \/ (next.pc = "connector" /\ DraftsOf(service) = {})
    BY <2>5
  <2>7. next.conn = (service.conns > 0) /\ next.ont = (service.onts > 0)
    OBVIOUS
  <2>8. next \in WalkStates
    BY <2>5 DEF WalkStates, T!Pcs
  <2> HIDE DEF next
  <2>9. WalkAgrees(next, service)
    BY <2>6, <2>7 DEF WalkAgrees, Early
  <2> QED BY <1>3, <2>1, <2>8, <2>9, StepsKeep
<1>7. CASE T!Connector(v)
  <2> DEFINE after == [service EXCEPT !.conns = @ + 1]
  <2>1. walk[v].pc = "connector" /\ to("sync") \in WalkStates
    BY <1>2, <1>7 DEF T!Connector, T!At, T!Pcs
  <2>2. \A s : DraftsOf(s) = DraftsOf(service) /\ s.onts = service.onts => WalkAgrees(to("sync"), s)
    BY <1>5, <2>1 DEF Early
  <2>3. CASE walk[v].conn
    BY <1>3, <1>7, <2>1, <2>2, <2>3, StepsKeep DEF T!Connector, to
  <2>4. CASE ~walk[v].conn
    <3>1. service.conns = 0
      BY <1>1, <2>1, <2>4 DEF WalkAgrees, Services
    <3>2. after \in Services /\ after.conns = 1 /\ after.gens = service.gens /\ after.onts = service.onts /\ after.loads = service.loads
      BY <1>1, <3>1 DEF Services
    <3>3. T!Sends(v, after, to("sync"))
      BY <1>7, <2>4 DEF T!Connector, to
    <3> HIDE DEF after
    <3>4. ServiceAgrees(after) /\ DraftsOf(after) = DraftsOf(service)
      BY <1>1, <3>2 DEF ServiceAgrees, DraftsOf
    <3> QED BY <1>3, <2>1, <2>2, <3>2, <3>3, <3>4, StepsKeep
  <2> QED BY <2>3, <2>4
<1>8. CASE T!Sync(v)
  <2> DEFINE after == [service EXCEPT !.sync = "syncing"]
  <2>1. walk[v].pc = "sync" /\ to("synced") \in WalkStates
    BY <1>2, <1>8 DEF T!Sync, T!At, T!Pcs
  <2>2. \A s : DraftsOf(s) = DraftsOf(service) /\ s.onts = service.onts => WalkAgrees(to("synced"), s)
    BY <1>5, <2>1 DEF Early
  <2>3. after \in Services /\ after.conns = service.conns /\ after.gens = service.gens /\ after.onts = service.onts /\ after.loads = service.loads
    BY <1>1 DEF Services
  <2>4. \/ T!Becomes(v, to("synced")) /\ UNCHANGED service
        \/ T!Sends(v, after, to("synced"))
    BY <1>8 DEF T!Sync, to
  <2> HIDE DEF after
  <2>5. ServiceAgrees(after) /\ DraftsOf(after) = DraftsOf(service)
    BY <1>1, <2>3 DEF ServiceAgrees, DraftsOf
  <2> QED BY <1>3, <2>1, <2>2, <2>3, <2>4, <2>5, StepsKeep
<1>9. CASE T!Synced(v)
  <2>1. walk[v].pc = "synced" /\ to("documents") \in WalkStates
    BY <1>2, <1>9 DEF T!Synced, T!At, T!Pcs
  <2>2. WalkAgrees(to("documents"), service)
    BY <1>5, <2>1 DEF Early
  <2> QED BY <1>3, <1>9, <2>1, <2>2, StepsKeep DEF T!Synced, to
<1>10. CASE T!Documents(v)
  <2> DEFINE after == [service EXCEPT !.docs = IF @ = "none" THEN "uploaded" ELSE @]
  <2>1. walk[v].pc = "documents" /\ to("read") \in WalkStates
    BY <1>2, <1>10 DEF T!Documents, T!At, T!Pcs
  <2>2. \A s : DraftsOf(s) = DraftsOf(service) /\ s.onts = service.onts => WalkAgrees(to("read"), s)
    BY <1>5, <2>1 DEF Early
  <2>3. after \in Services /\ after.conns = service.conns /\ after.gens = service.gens /\ after.onts = service.onts /\ after.loads = service.loads
    BY <1>1 DEF Services
  <2>4. T!Sends(v, after, to("read"))
    BY <1>10 DEF T!Documents, to
  <2> HIDE DEF after
  <2>5. ServiceAgrees(after) /\ DraftsOf(after) = DraftsOf(service)
    BY <1>1, <2>3 DEF ServiceAgrees, DraftsOf
  <2> QED BY <1>3, <2>1, <2>2, <2>3, <2>4, <2>5, StepsKeep
<1>11. CASE T!Read(v)
  <2>1. walk[v].pc = "read" /\ to("again") \in WalkStates
    BY <1>2, <1>11 DEF T!Read, T!At, T!Pcs
  <2>2. WalkAgrees(to("again"), service)
    BY <1>5, <2>1 DEF Early
  <2> QED BY <1>3, <1>11, <2>1, <2>2, StepsKeep DEF T!Read, to
<1>12. CASE T!Again(v)
  <2> DEFINE ont == walk[v].ont \/ service.onts > 0
             next == [walk[v] EXCEPT !.ont = ont, !.pc = IF ont THEN "generate" ELSE "ontology"]
  <2>1. walk[v].pc = "again" /\ T!Becomes(v, next) /\ UNCHANGED service
    BY <1>12 DEF T!Again, T!At
  <2>2. DraftsOf(service) = {} /\ service.onts \in Nat /\ (walk[v].ont => service.onts > 0)
    BY <1>1, <2>1 DEF WalkAgrees, Early, Services
  <2>3. next \in WalkStates /\ next.ont = ont /\ next.pc = IF ont THEN "generate" ELSE "ontology"
    BY <1>1 DEF WalkStates, T!Pcs
  <2>4. ont \in BOOLEAN /\ (ont <=> service.onts > 0)
    BY <1>1, <2>2 DEF WalkStates
  <2> HIDE DEF next, ont
  <2>5. WalkAgrees(next, service)
    <3>1. CASE ont
      BY <2>2, <2>3, <2>4, <3>1 DEF WalkAgrees
    <3>2. CASE ~ont
      <4>1. next.pc = "ontology" /\ next.ont = FALSE
        BY <2>3, <2>4, <3>2
      <4>2. service.onts = 0
        BY <2>2, <2>4, <3>2
      <4> QED BY <2>2, <4>1, <4>2 DEF WalkAgrees
    <3> QED BY <3>1, <3>2
  <2> QED BY <1>3, <2>1, <2>3, <2>5, StepsKeep
<1>13. CASE T!Ontology(v)
  <2> DEFINE after == [service EXCEPT !.onts = @ + 1]
             next == [walk[v] EXCEPT !.ont = TRUE, !.pc = "generate"]
  <2>1. walk[v].pc = "ontology" /\ T!Sends(v, after, next)
    BY <1>13 DEF T!Ontology, T!At
  <2>2. service.onts = 0 /\ DraftsOf(service) = {}
    BY <1>1, <2>1 DEF WalkAgrees, Early
  <2>3. after \in Services /\ after.conns = service.conns /\ after.gens = service.gens /\ after.onts = 1 /\ after.loads = service.loads
    BY <1>1, <2>2 DEF Services
  <2>4. next \in WalkStates /\ next.pc = "generate"
    BY <1>1 DEF WalkStates, T!Pcs
  <2> HIDE DEF after, next
  <2>5. ServiceAgrees(after) /\ DraftsOf(after) = {}
    BY <1>1, <2>2, <2>3 DEF ServiceAgrees, DraftsOf
  <2>6. WalkAgrees(next, after)
    BY <2>3, <2>4, <2>5 DEF WalkAgrees
  <2> QED BY <1>3, <2>1, <2>3, <2>4, <2>5, <2>6, StepsKeep
<1>14. CASE T!Generate(v)
  <2> DEFINE after == [service EXCEPT !.gens = Append(@, "live")]
             next == [walk[v] EXCEPT !.gen = Len(service.gens) + 1, !.pc = "draft"]
  <2>1. walk[v].pc = "generate" /\ ((T!Stops(v) /\ UNCHANGED service) \/ T!Sends(v, after, next))
    BY <1>14 DEF T!Generate, T!At
  <2>2. service.onts > 0 /\ DraftsOf(service) = {}
    BY <1>1, <2>1 DEF WalkAgrees, Early
  <2>3. Len(service.gens) \in Nat /\ Len(service.gens) <= MaxDrafts /\ DOMAIN service.gens = 1..Len(service.gens)
    BY <1>1, <2>2, FewDrafts
  <2>4. service.gens \in Seq({"live", "made", "failed"}) /\ service.onts \in Nat
    BY <1>1 DEF Services
  <2>5. after \in Services /\ after.conns = service.conns /\ after.onts = service.onts /\ after.loads = service.loads
        /\ after.gens = Append(service.gens, "live")
    <3>1. Append(service.gens, "live") \in Seq({"live", "made", "failed"})
      BY <2>4
    <3> QED BY <1>1, <3>1 DEF Services
  <2>6. next \in WalkStates /\ next.pc = "draft"
    <3>1. Len(service.gens) + 1 \in 0..MaxDrafts + 1
      BY <2>3 DEF T!TourConstants
    <3> QED BY <1>1, <3>1 DEF WalkStates, T!Pcs
  <2> HIDE DEF after, next
  <2>7. /\ DOMAIN after.gens = 1..(Len(service.gens) + 1) /\ after.gens[Len(service.gens) + 1] = "live"
        /\ \A g \in 1..Len(service.gens) : after.gens[g] = service.gens[g]
    BY <2>3, <2>4, <2>5
  <2>8. \A g \in DOMAIN after.gens : g = Len(service.gens) + 1 \/ (g \in DOMAIN service.gens /\ after.gens[g] = "failed")
    BY <2>2, <2>3, <2>7 DEF DraftsOf
  <2>9. ServiceAgrees(after)
    BY <1>1, <2>2, <2>3, <2>4, <2>5, <2>7, <2>8 DEF ServiceAgrees, DraftsOf
  <2> QED BY <1>3, <1>4, <2>1, <2>5, <2>6, <2>9, StepsKeep
<1>15. CASE T!Draft(v)
  <2>1. to("current") \in WalkStates /\ WalkAgrees(to("current"), service)
    BY <1>2, <1>4 DEF T!Pcs
  <2> QED BY <1>3, <1>15, <2>1, StepsKeep DEF T!Draft, to
<1>16. CASE T!Current(v)
  <2> DEFINE after == [service EXCEPT !.current = walk[v].gen]
  <2>1. to("loads") \in WalkStates /\ \A s : WalkAgrees(to("loads"), s)
    BY <1>2, <1>4 DEF T!Pcs
  <2>2. walk[v].gen \in Nat
    BY <1>1 DEF WalkStates, T!TourConstants
  <2>3. after \in Services /\ after.conns = service.conns /\ after.gens = service.gens /\ after.onts = service.onts /\ after.loads = service.loads
    BY <1>1, <2>2 DEF Services
  <2>4. (T!Stops(v) /\ UNCHANGED service) \/ T!Sends(v, after, to("loads"))
    BY <1>16 DEF T!Current, to
  <2> HIDE DEF after
  <2>5. ServiceAgrees(after)
    BY <1>1, <2>3 DEF ServiceAgrees, DraftsOf
  <2> QED BY <1>3, <2>1, <2>3, <2>4, <2>5, StepsKeep
<1>17. CASE T!Loads(v)
  <2>1. /\ to("load") \in WalkStates /\ to("load").pc = "load"
        /\ to("done") \in WalkStates /\ \A s : WalkAgrees(to("done"), s)
    BY <1>2, <1>4 DEF T!Pcs, T!AtRest
  <2>2. service.loads = {} => WalkAgrees(to("load"), service)
    BY <2>1 DEF WalkAgrees, Early
  <2>3. /\ UNCHANGED service
        /\ (service.loads = {} /\ T!Becomes(v, to("load"))) \/ T!Becomes(v, to("done"))
    BY <1>17 DEF T!Loads, to
  <2> QED BY <1>3, <2>1, <2>2, <2>3, StepsKeep
<1>18. CASE T!Load(v)
  <2> DEFINE after == [service EXCEPT !.loads = @ \cup {v}]
  <2>1. to("done") \in WalkStates /\ \A s : WalkAgrees(to("done"), s)
    BY <1>2, <1>4 DEF T!Pcs, T!AtRest
  <2>2. walk[v].pc = "load" /\ T!Sends(v, after, to("done"))
    BY <1>18 DEF T!Load, T!At, to
  <2>3. service.loads = {}
    BY <1>1, <2>2 DEF WalkAgrees
  <2>4. after \in Services /\ after.conns = service.conns /\ after.gens = service.gens /\ after.onts = service.onts /\ after.loads = {v}
    BY <1>1, <2>3 DEF Services
  <2> HIDE DEF after
  <2>5. ServiceAgrees(after)
    BY <1>1, <2>4 DEF ServiceAgrees, DraftsOf
  <2> QED BY <1>3, <2>1, <2>2, <2>4, <2>5, StepsKeep
<1>19. CASE T!Unread(v)
  BY <1>1, <1>3, <1>19, StepsKeep DEF T!Unread
<1> QED BY <1>6, <1>7, <1>8, <1>9, <1>10, <1>11, <1>12, <1>13, <1>14, <1>15, <1>16, <1>17, <1>18, <1>19 DEF T!Steps

\* Foundry's own steps: a sync ends, the documents are read, a draft ends.
LEMMA FoundryActs ==
  ASSUME T!TourConstants, TourInv, T!Foundry
  PROVE  TourInv'
<1>1. service \in Services /\ ServiceAgrees(service) /\ UNCHANGED <<visit, here, walk, faults>>
  BY DEF TourInv, TourTyped, T!Foundry
<1>2. ASSUME service' \in Services, UNCHANGED <<service.conns, service.onts, service.loads>>,
             DOMAIN service'.gens = DOMAIN service.gens, DraftsOf(service') \subseteq DraftsOf(service),
             \A g \in DOMAIN service.gens : service'.gens[g] = "failed" => service.gens[g] = "failed" \/ g <= MaxDrafts
      PROVE  TourInv'
  <2>1. service.onts = 0 => service'.gens = <<>>
    <3>1. service.gens = <<>> => DOMAIN service'.gens = {} /\ service'.gens \in Seq({"live", "made", "failed"})
      BY <1>2 DEF Services
    <3>2. \A q \in Seq({"live", "made", "failed"}) : DOMAIN q = {} => q = <<>>
      OBVIOUS
    <3> QED BY <1>1, <3>1, <3>2 DEF ServiceAgrees
  <2>2. ServiceAgrees(service')
    BY <1>1, <1>2, <2>1 DEF ServiceAgrees
  <2>3. \A v \in Visits : WalkAgrees(walk[v], service')
    BY <1>2 DEF TourInv, WalkAgrees
  <2>4. TourTyped' /\ OneAtATime'
    BY <1>1, <1>2 DEF TourInv, TourTyped, OneAtATime, Active
  <2> QED BY <1>1, <2>2, <2>3, <2>4 DEF TourInv, ServiceAgrees, WalkAgrees, DraftsOf
<1>3. ASSUME NEW to \in {"synced", "failed"}, service' = [service EXCEPT !.sync = to] PROVE TourInv'
  BY <1>1, <1>2, <1>3 DEF Services, DraftsOf
<1>4. ASSUME service' = [service EXCEPT !.docs = "read"] PROVE TourInv'
  BY <1>1, <1>2, <1>4 DEF Services, DraftsOf
<1>5. ASSUME NEW g \in T!Live, NEW to \in {"made", "failed"}, to = "failed" => g <= MaxDrafts,
             service' = [service EXCEPT !.gens[g] = to]
      PROVE  TourInv'
  <2>1. g \in DOMAIN service.gens /\ service.gens[g] = "live" /\ service.gens \in Seq({"live", "made", "failed"})
    BY <1>1, <1>5 DEF T!Live, Services
  <2>2. service' = [service EXCEPT !.gens = [service.gens EXCEPT ![g] = to]]
    BY <1>5
  <2>3. [service.gens EXCEPT ![g] = to] \in Seq({"live", "made", "failed"})
    BY <2>1
  <2>4. /\ service' \in Services /\ service'.gens = [service.gens EXCEPT ![g] = to]
        /\ UNCHANGED <<service.conns, service.onts, service.loads>>
    BY <1>1, <2>2, <2>3 DEF Services
  <2>5. /\ DOMAIN service'.gens = DOMAIN service.gens
        /\ \A h \in DOMAIN service.gens : service'.gens[h] = IF h = g THEN to ELSE service.gens[h]
    BY <2>1, <2>4
  <2>6. DraftsOf(service') \subseteq DraftsOf(service)
    BY <2>1, <2>5 DEF DraftsOf
  <2> QED BY <1>2, <1>5, <2>4, <2>5, <2>6
<1> QED BY <1>3, <1>4, <1>5 DEF T!Foundry

LEMMA PageActs ==
  ASSUME T!TourConstants, TourInv, T!TryAgain \/ T!Leave \/ T!Open \/ \E v \in Visits : T!Begin(v)
  PROVE  TourInv'
<1>1. ASSUME NEW v \in Visits, NEW w \in WalkStates, w.pc \in {"waiting", "find"},
             w.pc = "find" => \A u \in Visits \ {v} : walk[u].pc \in T!AtRest,
             walk' = [walk EXCEPT ![v] = w], visit' \in Visits, here' \in BOOLEAN, UNCHANGED <<service, faults>>
      PROVE  TourInv'
  <2>1. walk' \in [Visits -> WalkStates] /\ walk'[v] = w /\ \A u \in Visits \ {v} : walk'[u] = walk[u]
    BY <1>1 DEF TourInv, TourTyped
  <2>2. OneAtATime'
    BY <1>1, <2>1 DEF TourInv, OneAtATime, Active, T!AtRest
  <2>3. \A u \in Visits : WalkAgrees(walk'[u], service)
    BY <1>1, <2>1 DEF TourInv, WalkAgrees, Early
  <2>4. TourTyped'
    BY <1>1, <2>1 DEF TourInv, TourTyped
  <2> QED BY <1>1, <2>2, <2>3, <2>4 DEF TourInv, ServiceAgrees, WalkAgrees, DraftsOf
<1>2. T!Waits \in WalkStates /\ T!Waits.pc = "waiting"
  <2>1. T!NoWalk \in WalkStates /\ T!NoWalk.pc = "none"
    BY DEF T!TourConstants, T!NoWalk, WalkStates, T!AtRest
  <2> QED BY <2>1 DEF T!Waits, WalkStates, T!AtRest
<1>3. visit \in Visits /\ here \in BOOLEAN /\ walk \in [Visits -> WalkStates]
  BY DEF TourInv, TourTyped
<1>4. CASE T!TryAgain
  BY <1>1, <1>2, <1>3, <1>4 DEF T!TryAgain, T!AtRest
<1>5. CASE T!Leave
  <2>1. here' \in BOOLEAN /\ UNCHANGED <<visit, walk, service, faults>>
    BY <1>5 DEF T!Leave
  <2> QED BY <2>1 DEF TourInv, TourTyped, OneAtATime, Active, ServiceAgrees, WalkAgrees, DraftsOf
<1>6. CASE T!Open
  <2>1. visit + 1 \in Visits /\ walk' = [walk EXCEPT ![visit + 1] = T!Waits] /\ UNCHANGED <<service, faults>>
        /\ visit' \in Visits /\ here' \in BOOLEAN
    BY <1>6 DEF T!Open
  <2> QED BY <1>1, <1>2, <2>1
<1>7. ASSUME NEW v \in Visits, T!Begin(v) PROVE TourInv'
  <2> DEFINE w == [walk[v] EXCEPT !.pc = "find"]
  <2>1. walk' = [walk EXCEPT ![v] = w] /\ UNCHANGED <<visit, here, service, faults>>
    BY <1>7 DEF T!Begin
  <2>2. w \in WalkStates /\ w.pc = "find"
    BY <1>3 DEF WalkStates, T!Pcs
  <2>3. walk[v].pc \in T!AtRest /\ \A u \in Visits \ {v} : walk[u].pc \in T!AtRest
    BY <1>7 DEF T!Begin, T!AtRest
  <2> HIDE DEF w
  <2> QED BY <1>1, <1>3, <2>1, <2>2, <2>3
<1> QED BY <1>4, <1>5, <1>6, <1>7

LEMMA TourSteps ==
  ASSUME T!TourConstants, TourInv, [T!TourNext]_T!tourVars
  PROVE  TourInv'
<1>1. CASE UNCHANGED T!tourVars
  BY <1>1 DEF T!tourVars, TourInv, TourTyped, OneAtATime, Active, ServiceAgrees, WalkAgrees, DraftsOf
<1> QED BY <1>1, WalkSteps, PageActs, FoundryActs DEF T!TourNext, T!Walk

LEMMA TourCounts == \A W : T!Cardinality(W) = Cardinality(W)
BY DEF T!Cardinality, Cardinality

LEMMA OneWalkPast ==
  ASSUME NEW W, \A x, y \in W : x = y
  PROVE  Cardinality(W) <= 1
<1>1. CASE W = {}
  <2>1. Cardinality({}) = 0
    BY FS_EmptySet
  <2> QED BY <1>1, <2>1
<1>2. ASSUME NEW x \in W PROVE Cardinality(W) <= 1
  <2>1. W = {x}
    BY <1>2
  <2>2. Cardinality({x}) = 1
    BY FS_Singleton
  <2> QED BY <2>1, <2>2
<1> QED BY <1>1, <1>2

\* Whatever fails, is lost, is left and tried again, the tab makes one of each.
THEOREM TourHolds ==
  ASSUME T!TourConstants
  PROVE  T!TourSpec => [](T!TourTypeOK /\ T!MakesOne)
<1>1. ASSUME TourInv PROVE T!TourTypeOK
  <2>1. service \in Services /\ Len(service.gens) <= MaxDrafts + 1
    BY <1>1, FewDrafts DEF TourInv, TourTyped
  <2> QED BY <1>1, <2>1 DEF TourInv, TourTyped, T!TourTypeOK, WalkStates, Services
<1>2. ASSUME TourInv PROVE T!MakesOne
  <2>1. \A g, h \in T!Drafts : g = h
    BY <1>2 DEF TourInv, ServiceAgrees, DraftsOf, T!Drafts
  <2>2. Cardinality(T!Drafts) <= 1 /\ Cardinality(service.loads) <= 1
    BY <1>2, <2>1, OneWalkPast DEF TourInv, ServiceAgrees
  <2> QED BY <1>2, <2>2, TourCounts DEF TourInv, ServiceAgrees, T!MakesOne
<1> QED BY TourStart, TourSteps, <1>1, <1>2, PTL DEF T!TourSpec

-----------------------------------------------------------------------------
(* A thread of Analyst: its composer. *)

Asks == [text : Texts, token : Nat, at : {"sent", "made", "refused", "reads"}, no : Nat]
QuestionRows == [text : Texts, token : Nat, status : C!Statuses, log : Seq({"started", "call", "result"})]
ComposerTyped ==
  /\ text \in Texts \cup {C!NoText} /\ token \in Nat /\ asking \subseteq Asks /\ rows \in Seq(QuestionRows)
  /\ submits \in Nat /\ meantAsks \in Nat

\* The tokens a question was made under or may still be: each was meant once.
Spent == {rows[n].token : n \in DOMAIN rows}
Underway == {a.token : a \in {b \in asking : b.at = "sent"}}
Kept == IF meant = C!NoText THEN {} ELSE {token}
Tokens == Spent \cup Underway \cup Kept
RowsDiffer == \A n, m \in DOMAIN rows : rows[n].token = rows[m].token => n = m
ComposerInv == ComposerTyped /\ RowsDiffer /\ IsFiniteSet(Tokens) /\ Cardinality(Tokens) <= meantAsks

LEMMA FewerTokens ==
  ASSUME ComposerInv, Tokens' \subseteq Tokens, meantAsks' = meantAsks
  PROVE  IsFiniteSet(Tokens') /\ Cardinality(Tokens') <= meantAsks'
BY FS_Subset, FS_CardinalityType DEF ComposerInv, ComposerTyped

LEMMA ComposerStart == ASSUME C!ChatInit PROVE ComposerInv
<1>1. ComposerTyped
  BY DEF C!ChatInit, ComposerTyped
<1>2. Tokens = {} /\ DOMAIN rows = {}
  BY DEF C!ChatInit, Tokens, Spent, Underway, Kept
<1> QED BY <1>1, <1>2, FS_EmptySet DEF ComposerInv, ComposerTyped, RowsDiffer, C!ChatInit

LEMMA SubmitKeeps == ASSUME ComposerInv, NEW b \in BOOLEAN, C!Submit(b) PROVE ComposerInv'
<1> DEFINE a == [text |-> text, token |-> token, at |-> "sent", no |-> submits]
<1>1. /\ asking' = asking \cup {a} /\ meant' = text /\ submits' = submits + 1 /\ text # C!NoText
      /\ meantAsks' = IF meant = text THEN meantAsks ELSE meantAsks + 1
      /\ UNCHANGED <<text, token, rows>>
  BY DEF C!Submit
<1>2. a \in Asks /\ a.token = token /\ a.at = "sent"
  BY <1>1 DEF ComposerInv, ComposerTyped, Asks
<1> HIDE DEF a
<1>3. ComposerTyped'
  BY <1>1, <1>2 DEF ComposerInv, ComposerTyped
<1>4. Tokens' \subseteq Tokens \cup {token}
  BY <1>1, <1>2 DEF Tokens, Spent, Underway, Kept
<1>5. meant = text => token \in Tokens
  BY <1>1 DEF Tokens, Kept
<1>6. /\ IsFiniteSet(Tokens \cup {token}) /\ Cardinality(Tokens) \in Nat
      /\ Cardinality(Tokens \cup {token}) \in Nat /\ Cardinality(Tokens \cup {token}) <= meantAsks'
  <2>1. IsFiniteSet(Tokens) /\ Cardinality(Tokens) \in Nat /\ Cardinality(Tokens) <= meantAsks /\ meantAsks \in Nat
    BY FS_CardinalityType DEF ComposerInv, ComposerTyped
  <2>2. CASE meant = text
    <3>1. Tokens \cup {token} = Tokens /\ meantAsks' = meantAsks
      BY <1>1, <1>5, <2>2
    <3> QED BY <2>1, <3>1
  <2>3. CASE meant # text
    <3>1. /\ IsFiniteSet(Tokens \cup {token})
          /\ Cardinality(Tokens \cup {token}) \in {Cardinality(Tokens), Cardinality(Tokens) + 1}
      BY <2>1, FS_AddElement
    <3> QED BY <1>1, <2>1, <2>3, <3>1
  <2> QED BY <2>2, <2>3
<1>7. IsFiniteSet(Tokens') /\ Cardinality(Tokens') <= meantAsks'
  <2>1. IsFiniteSet(Tokens') /\ Cardinality(Tokens') <= Cardinality(Tokens \cup {token}) /\ Cardinality(Tokens') \in Nat
    BY <1>4, <1>6, FS_Subset, FS_CardinalityType
  <2> QED BY <1>3, <1>6, <2>1 DEF ComposerTyped
<1>8. RowsDiffer'
  BY <1>1 DEF ComposerInv, RowsDiffer
<1> QED BY <1>3, <1>7, <1>8 DEF ComposerInv

LEMMA CreateKeeps == ASSUME ComposerInv, NEW a \in asking, C!Create(a) PROVE ComposerInv'
<1> DEFINE row == [text |-> a.text, token |-> a.token, status |-> "queued", log |-> <<>>]
           made == [a EXCEPT !.at = "made"]
           refused == [a EXCEPT !.at = "refused"]
<1>1. a \in Asks /\ a.at = "sent" /\ UNCHANGED <<text, token, submits, meant, meantAsks>>
  BY DEF ComposerInv, ComposerTyped, C!Create
<1>2. made \in Asks /\ made.at = "made" /\ refused \in Asks /\ refused.at = "refused"
  BY <1>1 DEF Asks
<1>3. row \in QuestionRows /\ row.token = a.token
  BY <1>1 DEF QuestionRows, Asks, C!Statuses
<1>4. PICK answer \in {made, refused} : asking' = (asking \ {a}) \cup {answer}
  BY DEF C!Create
<1>5. \/ rows' = Append(rows, row) /\ \A n \in DOMAIN rows : rows[n].token # a.token
      \/ rows' = rows
  BY DEF C!Create
<1>6. a.token \in Underway /\ Underway' \subseteq Underway /\ Kept' = Kept
  <2> HIDE DEF made, refused
  <2> QED BY <1>1, <1>2, <1>4 DEF Underway, Kept
<1> HIDE DEF row, made, refused
<1>7. CASE rows' = Append(rows, row) /\ \A n \in DOMAIN rows : rows[n].token # a.token
  <2>1. /\ rows' \in Seq(QuestionRows) /\ Len(rows) \in Nat /\ DOMAIN rows = 1..Len(rows) /\ DOMAIN rows' = 1..(Len(rows) + 1)
        /\ rows'[Len(rows) + 1] = row /\ \A n \in DOMAIN rows : rows'[n] = rows[n]
    BY <1>3, <1>7 DEF ComposerInv, ComposerTyped
  <2>2. Spent' = Spent \cup {a.token}
    BY <1>3, <2>1 DEF Spent
  <2>3. RowsDiffer'
    BY <1>3, <1>7, <2>1 DEF ComposerInv, RowsDiffer
  <2>4. Tokens' \subseteq Tokens
    BY <1>6, <2>2 DEF Tokens
  <2>5. ComposerTyped'
    BY <1>1, <1>2, <1>4, <2>1 DEF ComposerInv, ComposerTyped
  <2> QED BY <1>1, <2>3, <2>4, <2>5, FewerTokens DEF ComposerInv
<1>8. CASE rows' = rows
  <2>1. Tokens' \subseteq Tokens
    BY <1>6, <1>8 DEF Tokens, Spent
  <2>2. ComposerTyped' /\ RowsDiffer'
    BY <1>1, <1>2, <1>4, <1>8 DEF ComposerInv, ComposerTyped, RowsDiffer
  <2> QED BY <1>1, <2>1, <2>2, FewerTokens DEF ComposerInv
<1> QED BY <1>5, <1>7, <1>8

LEMMA AnswersKeep ==
  ASSUME ComposerInv, NEW a \in asking, C!Made(a) \/ C!NotMade(a) \/ C!Asked(a)
  PROVE  ComposerInv'
<1> DEFINE reads == [a EXCEPT !.at = "reads"]
<1>1. a \in Asks /\ UNCHANGED <<rows, submits, meantAsks>>
  BY DEF ComposerInv, ComposerTyped, C!Made, C!NotMade, C!Asked
<1>2. reads \in Asks /\ reads.at = "reads"
  BY <1>1 DEF Asks
<1>3. CASE C!Made(a)
  <2>1. asking' = (asking \ {a}) \cup {reads} /\ text' = C!NoText /\ meant' = C!NoText /\ token' = token + 1
    BY <1>3 DEF C!Made
  <2> HIDE DEF reads
  <2>2. Tokens' \subseteq Tokens
    BY <1>1, <1>2, <2>1 DEF Tokens, Spent, Underway, Kept
  <2>3. ComposerTyped' /\ RowsDiffer'
    BY <1>1, <1>2, <2>1 DEF ComposerInv, ComposerTyped, RowsDiffer
  <2> QED BY <1>1, <2>2, <2>3, FewerTokens DEF ComposerInv
<1>4. CASE C!NotMade(a) \/ C!Asked(a)
  <2>1. asking' = asking \ {a} /\ UNCHANGED <<text, token, meant>>
    BY <1>4 DEF C!NotMade, C!Asked
  <2>2. Tokens' \subseteq Tokens
    BY <1>1, <2>1 DEF Tokens, Spent, Underway, Kept
  <2>3. ComposerTyped' /\ RowsDiffer'
    BY <1>1, <2>1 DEF ComposerInv, ComposerTyped, RowsDiffer
  <2> QED BY <1>1, <2>2, <2>3, FewerTokens DEF ComposerInv
<1> QED BY <1>3, <1>4

\* The service's own steps move a question's status and log, never its token.
LEMMA RowsMove ==
  ASSUME ComposerInv, UNCHANGED C!composer, NEW n \in DOMAIN rows, NEW row \in QuestionRows,
         row.token = rows[n].token, rows' = [rows EXCEPT ![n] = row]
  PROVE  ComposerInv'
<1>1. rows \in Seq(QuestionRows) /\ UNCHANGED <<text, token, asking, submits, meant, meantAsks>>
  BY DEF ComposerInv, ComposerTyped, C!composer
<1>2. rows' \in Seq(QuestionRows) /\ DOMAIN rows' = DOMAIN rows /\ \A m \in DOMAIN rows : rows'[m].token = rows[m].token
  BY <1>1
<1>3. Tokens' \subseteq Tokens
  BY <1>1, <1>2 DEF Tokens, Spent, Underway, Kept
<1>4. ComposerTyped' /\ RowsDiffer'
  BY <1>1, <1>2 DEF ComposerInv, ComposerTyped, RowsDiffer
<1> QED BY <1>1, <1>3, <1>4, FewerTokens DEF ComposerInv

LEMMA ServiceKeeps ==
  ASSUME ComposerInv, NEW n \in DOMAIN rows, C!Cancel(n) \/ C!Agent(n)
  PROVE  ComposerInv'
<1>1. rows \in Seq(QuestionRows) /\ rows[n] \in QuestionRows /\ DOMAIN rows = 1..Len(rows) /\ Len(rows) \in Nat /\ UNCHANGED C!composer
  BY DEF ComposerInv, ComposerTyped, C!Cancel, C!Agent
<1>2. ASSUME NEW status \in C!Statuses, rows' = [rows EXCEPT ![n].status = status] PROVE ComposerInv'
  <2> DEFINE row == [rows[n] EXCEPT !.status = status]
  <2>1. row \in QuestionRows /\ row.token = rows[n].token
    BY <1>1 DEF QuestionRows
  <2>2. rows' = [rows EXCEPT ![n] = row]
    BY <1>2
  <2> HIDE DEF row
  <2> QED BY <1>1, <2>1, <2>2, RowsMove
<1>3. ASSUME NEW e \in {"started", "call", "result"}, rows' = [rows EXCEPT ![n].log = Append(@, e)] PROVE ComposerInv'
  <2> DEFINE row == [rows[n] EXCEPT !.log = Append(rows[n].log, e)]
  <2>1. Append(rows[n].log, e) \in Seq({"started", "call", "result"})
    BY <1>1 DEF QuestionRows
  <2>2. row \in QuestionRows /\ row.token = rows[n].token
    BY <1>1, <2>1 DEF QuestionRows
  <2>3. rows' = [rows EXCEPT ![n] = row]
    BY <1>3
  <2> HIDE DEF row
  <2> QED BY <1>1, <2>2, <2>3, RowsMove
<1>4. ASSUME rows' = [rows EXCEPT ![n].status = "running", ![n].log = Append(@, "started")] PROVE ComposerInv'
  <2> DEFINE row == [rows[n] EXCEPT !.status = "running", !.log = Append(rows[n].log, "started")]
  <2>1. Append(rows[n].log, "started") \in Seq({"started", "call", "result"})
    BY <1>1 DEF QuestionRows
  <2>2. row \in QuestionRows /\ row.token = rows[n].token
    BY <1>1, <2>1 DEF QuestionRows, C!Statuses
  <2>3. rows' = [rows EXCEPT ![n] = row]
    BY <1>1, <1>4 DEF QuestionRows
  <2> HIDE DEF row
  <2> QED BY <1>1, <2>2, <2>3, RowsMove
<1> QED BY <1>2, <1>3, <1>4 DEF C!Cancel, C!Agent, C!Logs, C!Statuses

LEMMA ChatSteps ==
  ASSUME ComposerInv, [C!ChatNext]_C!chatVars
  PROVE  ComposerInv'
<1>1. ASSUME UNCHANGED <<rows, asking, token, submits, meant, meantAsks>>, text' \in Texts \cup {C!NoText} PROVE ComposerInv'
  <2>1. ComposerTyped' /\ RowsDiffer' /\ Tokens' \subseteq Tokens
    BY <1>1 DEF ComposerInv, ComposerTyped, RowsDiffer, Tokens, Spent, Underway, Kept
  <2> QED BY <1>1, <2>1, FewerTokens DEF ComposerInv
<1>2. ASSUME UNCHANGED rows, UNCHANGED C!composer PROVE ComposerInv'
  BY <1>1, <1>2 DEF C!composer, ComposerInv, ComposerTyped
<1>3. CASE UNCHANGED C!chatVars
  BY <1>2, <1>3 DEF C!chatVars, C!composer
<1>4. ASSUME NEW x \in Texts, C!Type(x) PROVE ComposerInv'
  BY <1>1, <1>4 DEF C!Type
<1>5. CASE C!PollList \/ C!ListRead \/ C!ListLands \/ C!ListFails
  BY <1>2, <1>5 DEF C!PollList, C!ListRead, C!ListLands, C!ListFails
<1>6. ASSUME NEW q \in C!Questions, C!PollEvents(q) \/ C!EventsStatus(q) \/ C!EventsPage(q) \/ C!EventsLand(q) \/ C!EventsFail(q)
      PROVE  ComposerInv'
  BY <1>2, <1>6 DEF C!PollEvents, C!EventsStatus, C!EventsPage, C!EventsLand, C!EventsFail
<1> QED BY <1>3, <1>4, <1>5, <1>6, SubmitKeeps, CreateKeeps, AnswersKeep, ServiceKeeps DEF C!ChatNext, C!AgentStep

\* However often an ask is submitted again, while its call is under way or
\* after its answer was lost, the service makes one question of it.
THEOREM ComposerHolds == C!ChatSpec => []C!AskedOnce
<1>1. ASSUME ComposerInv PROVE C!AskedOnce
  <2>1. Len(rows) \in Nat /\ DOMAIN rows = 1..Len(rows)
    BY <1>1 DEF ComposerInv, ComposerTyped
  <2> DEFINE tokenOf == [n \in DOMAIN rows |-> rows[n].token]
  <2>2. tokenOf \in Bijection(DOMAIN rows, Spent)
    <3>1. tokenOf \in [DOMAIN rows -> Spent]
      BY DEF Spent
    <3>2. \A n, m \in DOMAIN rows : tokenOf[n] = tokenOf[m] => n = m
      BY <1>1 DEF ComposerInv, RowsDiffer
    <3>3. \A t \in Spent : \E n \in DOMAIN rows : tokenOf[n] = t
      BY DEF Spent
    <3> HIDE DEF tokenOf
    <3> QED BY <3>1, <3>2, <3>3 DEF Bijection, Injection, Surjection, IsInjective
  <2>3. IsFiniteSet(DOMAIN rows) /\ Cardinality(DOMAIN rows) = Len(rows)
    <3>1. IsFiniteSet(1..Len(rows)) /\ Cardinality(1..Len(rows)) = IF 1 > Len(rows) THEN 0 ELSE Len(rows) - 1 + 1
      <4>1. 1 \in Int /\ Len(rows) \in Int
        BY <2>1
      <4> QED BY ONLY <4>1, FS_Interval
    <3> QED BY <2>1, <3>1
  <2>4. Cardinality(Spent) = Len(rows)
    <3>1. ExistsBijection(DOMAIN rows, Spent)
      BY <2>2 DEF ExistsBijection
    <3> QED BY <2>3, <3>1, FS_Bijection
  <2>5. Cardinality(Spent) <= Cardinality(Tokens) /\ Cardinality(Tokens) \in Nat /\ Cardinality(Tokens) <= meantAsks /\ meantAsks \in Nat
    BY <1>1, FS_Subset, FS_CardinalityType DEF Tokens, ComposerInv, ComposerTyped
  <2> QED BY <2>1, <2>4, <2>5 DEF C!AskedOnce
<1> QED BY ComposerStart, ChatSteps, <1>1, PTL DEF C!ChatSpec

-----------------------------------------------------------------------------
(* Analyst's stream of a question. *)

LEMMA LeastNat ==
  ASSUME NEW V \in SUBSET Nat, V # {}
  PROVE  \E n \in V : \A m \in V : n <= m
<1> DEFINE Less == {ss \in Nat \X Nat : ss[1] < ss[2]}
<1>1. IsWellFoundedOn(Less, Nat)
  <2>1. Less = OpToRel(<, Nat)
    BY DEF OpToRel
  <2> QED BY <2>1, NatLessThanWellFounded
<1>2. PICK n \in V : \A m \in V : <<m, n>> \notin Less
  BY <1>1, WFMin
<1>3. \A i, j \in Nat : i < j => <<i, j>> \in Less
  OBVIOUS
<1> HIDE DEF Less
<1>4. n \in Nat /\ \A m \in V : m \in Nat /\ ~(m < n)
  BY <1>2, <1>3
<1> QED BY <1>4

Events == {"started", "call", "result"}
Logs == Seq(Events)
Streams == [last : Nat, steps : Seq(BOOLEAN), complete : BOOLEAN, read : BOOLEAN]

\* The events e of the latest attempt among the first m of a log, and how many.
Upto(log, m, e) == {i \in 1..m : log[i] = e /\ \A j \in 1..m : log[j] = "started" => j < i}
Many(log, m, e) == Cardinality(Upto(log, m, e))
\* A result answers a call, at every length of the log.
Sound(log) == \A m \in 0..Len(log) : Many(log, m, "result") <= Many(log, m, "call")

LEMMA PlacesCount ==
  ASSUME NEW log \in Logs, NEW m \in 0..Len(log), NEW e \in Events
  PROVE  IsFiniteSet(Upto(log, m, e)) /\ Many(log, m, e) \in Nat
<1>1. IsFiniteSet(1..m)
  BY FS_Interval
<1>2. Upto(log, m, e) \subseteq 1..m
  BY DEF Upto
<1> QED BY <1>1, <1>2, FS_Subset, FS_CardinalityType DEF Many

LEMMA NoneYet ==
  ASSUME NEW log \in Logs, NEW e \in Events
  PROVE  Many(log, 0, e) = 0
<1>1. Upto(log, 0, e) = {}
  BY DEF Upto
<1> QED BY <1>1, FS_EmptySet DEF Many

\* One event more.
LEMMA OneMore ==
  ASSUME NEW log \in Logs, NEW m \in Nat, m + 1 <= Len(log), NEW e \in {"call", "result"}
  PROVE  /\ log[m + 1] = "started" => Many(log, m + 1, e) = 0
         /\ log[m + 1] = e => Many(log, m + 1, e) = Many(log, m, e) + 1
         /\ log[m + 1] \notin {"started", e} => Many(log, m + 1, e) = Many(log, m, e)
<1>1. m \in 0..Len(log) /\ 1..m + 1 = 1..m \cup {m + 1} /\ m + 1 \notin 1..m /\ e \in Events
  BY DEF Events
<1>2. IsFiniteSet(Upto(log, m, e)) /\ Many(log, m, e) \in Nat
  BY <1>1, PlacesCount
<1>3. log[m + 1] = "started" => Upto(log, m + 1, e) = {}
  BY <1>1 DEF Upto
<1>4. log[m + 1] = e => Upto(log, m + 1, e) = Upto(log, m, e) \cup {m + 1} /\ m + 1 \notin Upto(log, m, e)
  BY <1>1 DEF Upto
<1>5. log[m + 1] \notin {"started", e} => Upto(log, m + 1, e) = Upto(log, m, e)
  BY <1>1 DEF Upto
<1>6. Cardinality(Upto(log, m, e) \cup {m + 1}) =
        IF m + 1 \in Upto(log, m, e) THEN Cardinality(Upto(log, m, e)) ELSE Cardinality(Upto(log, m, e)) + 1
  BY <1>2, FS_AddElement
<1> QED BY <1>3, <1>4, <1>5, <1>6, FS_EmptySet DEF Many

\* Only the first m events count among the first m.
LEMMA SamePlaces ==
  ASSUME NEW log \in Logs, NEW other \in Logs, NEW m \in 0..Len(log), m <= Len(other),
         \A i \in 1..m : other[i] = log[i], NEW e \in Events
  PROVE  Many(other, m, e) = Many(log, m, e)
<1>1. Upto(other, m, e) = Upto(log, m, e)
  BY DEF Upto
<1> QED BY <1>1 DEF Many

\* What the module counts is this.
LEMMA CountIs ==
  ASSUME NEW log \in Logs, NEW m \in 0..Len(log), NEW e \in Events
  PROVE  Q!CountOf(log, e) = Many(log, Len(log), e) /\ Q!CountOf(SubSeq(log, 1, m), e) = Many(log, m, e)
<1>1. ASSUME NEW s \in Logs PROVE Q!CountOf(s, e) = Many(s, Len(s), e)
  <2>1. Q!Latest(s, e) = Upto(s, Len(s), e)
    BY DEF Q!Latest, Q!Started, Upto, Logs
  <2>2. \A W : Q!Cardinality(W) = Cardinality(W)
    BY DEF Q!Cardinality, Cardinality
  <2> QED BY <2>1, <2>2 DEF Q!CountOf, Many
<1>2. /\ SubSeq(log, 1, m) \in Logs /\ Len(SubSeq(log, 1, m)) = m
      /\ \A i \in 1..m : SubSeq(log, 1, m)[i] = log[i]
  BY DEF Logs
<1>3. Many(SubSeq(log, 1, m), m, e) = Many(log, m, e)
  <2>1. PICK s : s = SubSeq(log, 1, m)
    OBVIOUS
  <2>2. s \in Logs /\ Len(s) = m /\ \A i \in 1..m : s[i] = log[i]
    BY <1>2, <2>1
  <2>3. m <= Len(s)
    BY <2>2
  <2>4. Many(s, m, e) = Many(log, m, e)
    BY <2>2, <2>3, SamePlaces
  <2> QED BY <2>1, <2>4
<1>4. Q!CountOf(SubSeq(log, 1, m), e) = Many(SubSeq(log, 1, m), m, e)
  BY <1>1, <1>2
<1> QED BY <1>1, <1>3, <1>4

\* A step shown is answered at most once.
LEMMA AnsweredAre ==
  ASSUME NEW s \in Seq(BOOLEAN), NEW done, done = {i \in DOMAIN s : s[i]}
  PROVE  /\ IsFiniteSet(done) /\ Cardinality(done) \in Nat /\ Cardinality(done) <= Len(s)
         /\ Cardinality(done) < Len(s) => \E i \in DOMAIN s : ~s[i]
<1>1. Len(s) \in Nat /\ DOMAIN s = 1..Len(s)
  OBVIOUS
<1>2. IsFiniteSet(1..Len(s)) /\ Cardinality(1..Len(s)) = Len(s)
  <2>1. IsFiniteSet(1..Len(s)) /\ Cardinality(1..Len(s)) = IF 1 > Len(s) THEN 0 ELSE Len(s) - 1 + 1
    <3>1. 1 \in Int /\ Len(s) \in Int
      BY <1>1
    <3> QED BY ONLY <3>1, FS_Interval
  <2> QED BY <1>1, <2>1
<1>3. done \subseteq 1..Len(s)
  BY <1>1
<1>4. IsFiniteSet(done) /\ Cardinality(done) \in Nat /\ Cardinality(done) <= Len(s)
  BY <1>2, <1>3, FS_Subset, FS_CardinalityType
<1>5. Cardinality(done) < Len(s) => \E i \in DOMAIN s : ~s[i]
  <2>1. (\A i \in DOMAIN s : s[i]) => done = DOMAIN s
    BY Zenon
  <2>2. Cardinality(DOMAIN s) = Len(s)
    BY <1>1, <1>2
  <2>3. Cardinality(done) < Len(s) => done # DOMAIN s
    BY ONLY <1>1, <1>4, <2>2
  <2> QED BY <2>1, <2>3, Zenon
<1> QED BY <1>4, <1>5

\* The calls answered of a sequence of steps.
Ticked(s) == {i \in DOMAIN s : s[i]}

LEMMA AnswerOne ==
  ASSUME NEW s \in Seq(BOOLEAN), NEW k \in DOMAIN s, ~s[k], NEW t, t = [s EXCEPT ![k] = TRUE]
  PROVE  t \in Seq(BOOLEAN) /\ Len(t) = Len(s) /\ Ticked(t) = Ticked(s) \cup {k} /\ k \notin Ticked(s)
<1>1. t \in Seq(BOOLEAN) /\ Len(t) = Len(s)
  OBVIOUS
<1>2. DOMAIN t = DOMAIN s /\ t[k] /\ \A i \in DOMAIN s : i # k => t[i] = s[i]
  OBVIOUS
<1>3. k \notin Ticked(s)
  BY Zenon DEF Ticked
<1>4. Ticked(t) = Ticked(s) \cup {k}
  BY <1>2, Zenon DEF Ticked
<1> QED BY <1>1, <1>3, <1>4

LEMMA AppendedIs ==
  ASSUME NEW V, NEW s \in Seq(V), NEW x \in V
  PROVE  /\ Append(s, x) \in Seq(V) /\ Len(Append(s, x)) = Len(s) + 1
         /\ DOMAIN Append(s, x) = DOMAIN s \cup {Len(s) + 1} /\ Len(s) + 1 \notin DOMAIN s
         /\ Append(s, x)[Len(s) + 1] = x /\ \A i \in DOMAIN s : Append(s, x)[i] = s[i]
OBVIOUS

LEMMA AskOne ==
  ASSUME NEW s \in Seq(BOOLEAN), NEW t, t = Append(s, FALSE)
  PROVE  t \in Seq(BOOLEAN) /\ Len(t) = Len(s) + 1 /\ Ticked(t) = Ticked(s)
<1>1. FALSE \in BOOLEAN
  OBVIOUS
<1>2. t \in Seq(BOOLEAN) /\ Len(t) = Len(s) + 1
  OBVIOUS
<1>3. PICK n : n = Len(s) + 1
  OBVIOUS
<1>4. DOMAIN t = DOMAIN s \cup {n} /\ ~t[n]
  BY <1>1, <1>3, AppendedIs, Zenon
<1>5. \A i \in DOMAIN s : t[i] = s[i]
  <2>1. PICK x \in BOOLEAN : x = FALSE
    OBVIOUS
  <2>2. \A i \in DOMAIN s : Append(s, x)[i] = s[i]
    OBVIOUS
  <2>3. t = Append(s, x)
    BY <2>1, Zenon
  <2> QED BY <2>2, <2>3, Zenon
<1>6. Ticked(t) = Ticked(s)
  BY <1>4, <1>5, Zenon DEF Ticked
<1> QED BY <1>2, <1>6

-----------------------------------------------------------------------------
(* Folding one event more. *)

\* The stream shows the first events of the log, up to its last.
Matches(st, log) ==
  /\ st \in Streams /\ st.last <= Len(log)
  /\ Len(st.steps) = Many(log, st.last, "call") /\ Cardinality(Ticked(st.steps)) = Many(log, st.last, "result")

\* The steps, new, that an event e makes of old.
Becomes(e, old, new) ==
  /\ e = "started" => new = <<>>
  /\ e = "call" => new = Append(old, FALSE)
  /\ e = "result" /\ (\E i \in DOMAIN old : ~old[i]) =>
       \E k \in DOMAIN old : ~old[k] /\ new = [old EXCEPT ![k] = TRUE]

LEMMA FoldIs ==
  ASSUME NEW st \in Streams, NEW e \in Events, NEW n \in Nat, NEW to, to = Q!Fold(st, e, n)
  PROVE  to.last = n /\ Becomes(e, st.steps, to.steps) /\ (to.steps \in Seq(BOOLEAN) => to \in Streams)
<1> DEFINE next == [st EXCEPT !.last = n]
           free == {i \in DOMAIN st.steps : ~st.steps[i]}
           With(s) == [next EXCEPT !.steps = s]
<1>1. next.steps = st.steps
  BY DEF Streams
<1>2. \A s : With(s).last = n /\ With(s).steps = s /\ (s \in Seq(BOOLEAN) => With(s) \in Streams)
  BY DEF Streams
<1>3. ASSUME e = "started" PROVE to = With(<<>>)
  BY <1>3 DEF Q!Fold
<1>4. ASSUME e = "call" PROVE to = With(Append(st.steps, FALSE))
  BY <1>1, <1>4 DEF Q!Fold
<1>5. ASSUME e = "result", free # {}
      PROVE  \E k \in free : to = With([st.steps EXCEPT ![k] = TRUE])
  <2>1. \E k \in free : \A j \in free : k <= j
    <3>1. free \in SUBSET Nat
      <4>1. DOMAIN st.steps \subseteq Nat
        BY DEF Streams
      <4> QED BY <4>1
    <3> HIDE DEF free
    <3> QED BY <1>5, <3>1, LeastNat
  <2>2. PICK k : k = CHOOSE i \in free : \A j \in free : i <= j
    OBVIOUS
  <2>3. k \in free
    <3> HIDE DEF free
    <3> QED BY <2>1, <2>2
  <2>4. to = With([st.steps EXCEPT ![k] = TRUE])
    BY <1>1, <1>5, <2>2 DEF Q!Fold
  <2> QED BY <2>3, <2>4
<1>6. ASSUME e = "result", free = {} PROVE to = With(Append(st.steps, TRUE))
  BY <1>1, <1>6 DEF Q!Fold
<1>7. \E s : to = With(s) /\ (e = "started" => s = <<>>) /\ (e = "call" => s = Append(st.steps, FALSE))
            /\ (e = "result" /\ free # {} => \E k \in free : s = [st.steps EXCEPT ![k] = TRUE])
  <2> HIDE DEF With, free
  <2>1. CASE e = "started"
    BY <1>3, <2>1
  <2>2. CASE e = "call"
    BY <1>4, <2>2
  <2>3. CASE e = "result" /\ free # {}
    BY <1>5, <2>3, Zenon
  <2>4. CASE e = "result" /\ free = {}
    BY <1>6, <2>4
  <2> QED BY <2>1, <2>2, <2>3, <2>4 DEF Events
<1>8. (\E i \in DOMAIN st.steps : ~st.steps[i]) => free # {}
  BY Zenon
<1>9. \A k \in free : k \in DOMAIN st.steps /\ ~st.steps[k]
  BY Zenon
<1> HIDE DEF With, free
<1>10. PICK s : to = With(s) /\ Becomes(e, st.steps, s)
  BY <1>7, <1>8, <1>9, Zenon DEF Becomes
<1>11. to.last = n /\ to.steps = s /\ (s \in Seq(BOOLEAN) => to \in Streams)
  BY <1>2, <1>10
<1> QED BY <1>10, <1>11

LEMMA FoldMatches ==
  ASSUME NEW log \in Logs, Sound(log), NEW st, Matches(st, log), st.last < Len(log),
         NEW to, to = Q!Fold(st, log[st.last + 1], st.last + 1)
  PROVE  Matches(to, log) /\ to.last = st.last + 1
<1>1. PICK m, n, e, old : m = st.last /\ n = m + 1 /\ e = log[n] /\ old = st.steps
  OBVIOUS
<1>2. /\ st \in Streams /\ m \in Nat /\ n \in Nat /\ n <= Len(log) /\ old \in Seq(BOOLEAN)
      /\ m \in 0..Len(log) /\ n \in 0..Len(log) /\ e \in Events /\ Len(log) \in Nat
      /\ Len(old) = Many(log, m, "call") /\ Cardinality(Ticked(old)) = Many(log, m, "result")
  BY <1>1 DEF Matches, Streams, Logs
<1>3. /\ e = "started" => Many(log, n, "call") = 0 /\ Many(log, n, "result") = 0
      /\ e = "call" => Many(log, n, "call") = Many(log, m, "call") + 1 /\ Many(log, n, "result") = Many(log, m, "result")
      /\ e = "result" => Many(log, n, "call") = Many(log, m, "call") /\ Many(log, n, "result") = Many(log, m, "result") + 1
  <2>1. PICK c, r : c = "call" /\ r = "result"
    OBVIOUS
  <2>2. c \in {"call", "result"} /\ r \in {"call", "result"} /\ c # r /\ c # "started" /\ r # "started"
    BY <2>1
  <2> QED BY <1>1, <1>2, <2>1, <2>2, OneMore
<1>4. PICK new : new = to.steps /\ to.last = n /\ Becomes(e, old, new) /\ (new \in Seq(BOOLEAN) => to \in Streams)
  BY <1>1, <1>2, FoldIs
<1>5. new \in Seq(BOOLEAN) /\ Len(new) = Many(log, n, "call") /\ Cardinality(Ticked(new)) = Many(log, n, "result")
  <2>1. CASE e = "started"
    <3>1. Ticked(new) = {}
      BY <1>4, <2>1 DEF Becomes, Ticked
    <3>2. Cardinality(Ticked(new)) = 0
      BY <3>1, FS_EmptySet
    <3>3. new = <<>>
      BY <1>4, <2>1 DEF Becomes
    <3>4. new \in Seq(BOOLEAN) /\ Len(new) = 0
      BY <3>3
    <3> QED BY <1>3, <2>1, <3>2, <3>4
  <2>2. CASE e = "call"
    <3>1. new = Append(old, FALSE)
      BY <1>4, <2>2 DEF Becomes
    <3>2. new \in Seq(BOOLEAN) /\ Len(new) = Len(old) + 1 /\ Ticked(new) = Ticked(old)
      BY <1>2, <3>1, AskOne, Zenon
    <3> QED BY <1>2, <1>3, <2>2, <3>2
  <2>3. CASE e = "result"
    <3>1. Many(log, m, "result") + 1 <= Many(log, m, "call")
      BY <1>2, <1>3, <2>3 DEF Sound
    <3>2. /\ IsFiniteSet(Ticked(old)) /\ Cardinality(Ticked(old)) \in Nat
          /\ Cardinality(Ticked(old)) < Len(old) => \E i \in DOMAIN old : ~old[i]
      BY <1>2, AnsweredAre, Zenon DEF Ticked
    <3>3. Cardinality(Ticked(old)) < Len(old)
      BY <1>2, <3>1, <3>2
    <3>4. PICK k \in DOMAIN old : ~old[k] /\ new = [old EXCEPT ![k] = TRUE]
      BY <1>4, <2>3, <3>2, <3>3, Zenon DEF Becomes
    <3>5. new \in Seq(BOOLEAN) /\ Len(new) = Len(old) /\ Ticked(new) = Ticked(old) \cup {k} /\ k \notin Ticked(old)
      BY <1>2, <3>4, AnswerOne, Zenon
    <3>6. Cardinality(Ticked(new)) = Cardinality(Ticked(old)) + 1
      BY <3>2, <3>5, FS_AddElement
    <3> QED BY <1>2, <1>3, <2>3, <3>5, <3>6
  <2> QED BY <1>2, <2>1, <2>2, <2>3 DEF Events
<1> QED BY <1>1, <1>2, <1>4, <1>5 DEF Matches
-----------------------------------------------------------------------------
(* Folding a page of them. *)

\* The stream after event i of the page, from x before it.
Turned(page, i, x) == IF page.from + i > x.last THEN Q!Fold(x, page.events[i], page.from + i) ELSE x
Unfolds(st, page, n, f) == f = [i \in 0..n |-> IF i = 0 THEN st ELSE Turned(page, i, f[i - 1])]

LEMMA FoldsExist ==
  ASSUME NEW st, NEW page, NEW len \in Nat
  PROVE  \E f : Unfolds(st, page, len, f)
<1> DEFINE Bad == {n \in Nat : ~\E f : Unfolds(st, page, n, f)}
<1>1. SUFFICES ASSUME Bad # {} PROVE FALSE
  OBVIOUS
<1>2. PICK n \in Bad : \A m \in Bad : n <= m
  <2>1. Bad \in SUBSET Nat
    OBVIOUS
  <2> HIDE DEF Bad
  <2> QED BY <1>1, <2>1, LeastNat
<1>3. n \in Nat /\ ~\E f : Unfolds(st, page, n, f)
  BY <1>2
<1>4. n # 0
  <2>1. SUFFICES ASSUME n = 0 PROVE FALSE
    OBVIOUS
  <2>2. Unfolds(st, page, 0, [i \in 0..0 |-> st])
    BY DEF Unfolds
  <2> QED BY <1>3, <2>1, <2>2
<1>5. PICK m \in Nat : n = m + 1
  BY <1>3, <1>4
<1>6. m \notin Bad
  <2> HIDE DEF Bad
  <2> QED BY <1>2, <1>3, <1>5
<1>7. PICK f : Unfolds(st, page, m, f)
  BY <1>6
<1>8. PICK x : x = Turned(page, n, f[m])
  OBVIOUS
<1>9. PICK g : g = [i \in 0..n |-> IF i = n THEN x ELSE f[i]]
  OBVIOUS
<1>10. g = [i \in 0..n |-> IF i = 0 THEN st ELSE Turned(page, i, g[i - 1])]
  <2>1. \A i \in 0..n : g[i] = IF i = 0 THEN st ELSE Turned(page, i, g[i - 1])
    <3> SUFFICES ASSUME NEW i \in 0..n PROVE g[i] = IF i = 0 THEN st ELSE Turned(page, i, g[i - 1])
      OBVIOUS
    <3>1. CASE i = n
      <4>1. g[i] = x /\ g[i - 1] = f[m] /\ i # 0
        BY <1>3, <1>4, <1>5, <1>9, <3>1
      <4> QED BY <1>8, <3>1, <4>1
    <3>2. CASE i # n
      <4>1. i \in 0..m /\ g[i] = f[i] /\ (i # 0 => g[i - 1] = f[i - 1])
        BY <1>3, <1>5, <1>9, <3>2
      <4>2. f[i] = IF i = 0 THEN st ELSE Turned(page, i, f[i - 1])
        BY <1>7, <4>1 DEF Unfolds
      <4> QED BY <4>1, <4>2
    <3> QED BY <3>1, <3>2
  <2> QED BY <1>9, <2>1
<1> QED BY <1>3, <1>10 DEF Unfolds

\* A page read after the stream's last event.
PageFollows(page, st, log) ==
  /\ page.from = st.last /\ page.events \in Logs /\ st.last + Len(page.events) <= Len(log)
  /\ \A i \in 1..Len(page.events) : page.events[i] = log[st.last + i]

LEMMA FoldsMatch ==
  ASSUME NEW log \in Logs, Sound(log), NEW st, Matches(st, log), NEW page, PageFollows(page, st, log),
         NEW f, Unfolds(st, page, Len(page.events), f)
  PROVE  \A i \in 0..Len(page.events) : Matches(f[i], log) /\ f[i].last = st.last + i
<1> DEFINE Bad == {i \in 0..Len(page.events) : ~(Matches(f[i], log) /\ f[i].last = st.last + i)}
<1>1. SUFFICES ASSUME Bad # {} PROVE FALSE
  OBVIOUS
<1>2. st.last \in Nat /\ Len(page.events) \in Nat /\ Len(log) \in Nat
  BY DEF Matches, Streams, PageFollows, Logs
<1>3. PICK n \in Bad : \A m \in Bad : n <= m
  <2>1. Bad \in SUBSET Nat
    OBVIOUS
  <2> HIDE DEF Bad
  <2> QED BY <1>1, <2>1, LeastNat
<1>4. n \in 0..Len(page.events) /\ ~(Matches(f[n], log) /\ f[n].last = st.last + n)
  BY <1>3
<1>5. f[n] = IF n = 0 THEN st ELSE Turned(page, n, f[n - 1])
  BY <1>4 DEF Unfolds
<1>6. n # 0
  BY <1>2, <1>4, <1>5
<1>7. PICK m \in 0..Len(page.events) : n = m + 1
  <2> HIDE DEF Bad
  <2>1. ASSUME NEW k \in Nat, NEW j \in 0..k, j # 0 PROVE \E i \in 0..k : j = i + 1
    <3>1. j - 1 \in 0..k /\ j = j - 1 + 1
      BY ONLY <2>1
    <3> QED BY <3>1
  <2> QED BY <1>2, <1>4, <1>6, <2>1
<1>8. m \notin Bad
  <2> HIDE DEF Bad
  <2> QED BY <1>3, <1>4, <1>7
<1>9. Matches(f[m], log) /\ f[m].last = st.last + m
  BY <1>8
<1>10. /\ page.from + n > f[m].last /\ page.from + n = f[m].last + 1 /\ page.events[n] = log[f[m].last + 1]
       /\ f[m].last < Len(log)
  BY <1>2, <1>4, <1>7, <1>9 DEF PageFollows
<1>11. f[n] = Q!Fold(f[m], log[f[m].last + 1], f[m].last + 1)
  BY <1>2, <1>5, <1>6, <1>7, <1>10 DEF Turned
<1>12. PICK x, y : x = f[m] /\ y = f[n]
  OBVIOUS
<1>13. Matches(x, log) /\ x.last < Len(log) /\ y = Q!Fold(x, log[x.last + 1], x.last + 1)
  BY <1>9, <1>10, <1>11, <1>12
<1>14. Matches(y, log) /\ y.last = x.last + 1
  BY <1>13, FoldMatches
<1> QED BY <1>2, <1>4, <1>7, <1>9, <1>12, <1>14

LEMMA ReduceMatches ==
  ASSUME NEW log \in Logs, Sound(log), NEW st, Matches(st, log), NEW page, PageFollows(page, st, log),
         NEW to, to = Q!reduceEvents(st, page)
  PROVE  /\ Matches(to, log) /\ to.last = st.last + Len(page.events)
         /\ to.complete => ~Q!isLiveQuestion(page.status) /\ to.last >= page.lastSeq
<1>1. PICK len : len = Len(page.events)
  OBVIOUS
<1>2. len \in Nat
  BY <1>1 DEF PageFollows, Logs
<1>3. PICK f : f = CHOOSE g : Unfolds(st, page, len, g)
  OBVIOUS
<1>4. Unfolds(st, page, len, f)
  BY <1>2, <1>3, FoldsExist
<1>5. PICK all : all = f[len]
  OBVIOUS
<1>6. Matches(all, log) /\ all.last = st.last + len
  <2>1. len \in 0..len
    BY <1>2
  <2> QED BY <1>1, <1>4, <1>5, <2>1, FoldsMatch
<1>7. to = [all EXCEPT !.read = TRUE, !.complete = ~Q!isLiveQuestion(page.status) /\ all.last >= page.lastSeq]
  BY <1>1, <1>3, <1>5 DEF Q!reduceEvents, Unfolds, Turned
<1>8. /\ to \in Streams /\ to.last = all.last /\ to.steps = all.steps
      /\ to.complete => ~Q!isLiveQuestion(page.status) /\ all.last >= page.lastSeq
  BY <1>6, <1>7 DEF Matches, Streams
<1> QED BY <1>1, <1>6, <1>8 DEF Matches
\* A log that has grown by an event: what was read of it is still so.
LEMMA LogGrows ==
  ASSUME NEW log \in Logs, Sound(log), NEW e \in Events,
         e = "result" => Many(log, Len(log), "result") < Many(log, Len(log), "call"),
         NEW to, to = Append(log, e)
  PROVE  /\ to \in Logs /\ Len(to) = Len(log) + 1 /\ Sound(to)
         /\ \A st : Matches(st, log) => Matches(st, to)
         /\ \A page, st : Matches(st, log) /\ PageFollows(page, st, log) => PageFollows(page, st, to)
<1>1. /\ to \in Logs /\ Len(log) \in Nat /\ Len(to) = Len(log) + 1 /\ \A i \in 1..Len(log) : to[i] = log[i]
      /\ to[Len(log) + 1] = e
  BY DEF Logs
<1>2. ASSUME NEW m \in 0..Len(log), NEW x \in Events PROVE Many(to, m, x) = Many(log, m, x)
  <2>1. m <= Len(to) /\ \A i \in 1..m : to[i] = log[i]
    BY <1>1
  <2> QED BY <1>1, <2>1, SamePlaces
<1>3. PICK c, r : c = "call" /\ r = "result"
  OBVIOUS
<1>4. c \in Events /\ r \in Events /\ c \in {"call", "result"} /\ r \in {"call", "result"} /\ c # r /\ c # "started" /\ r # "started"
  BY <1>3 DEF Events
<1>5. Sound(to)
  <2>1. ASSUME NEW m \in 0..Len(to) PROVE Many(to, m, r) <= Many(to, m, c)
    <3>1. CASE m <= Len(log)
      <4>1. m \in 0..Len(log)
        BY <1>1, <3>1
      <4> QED BY <1>2, <1>3, <1>4, <4>1 DEF Sound
    <3>2. CASE m > Len(log)
      <4>1. PICK n : n = Len(log)
        OBVIOUS
      <4>2. n \in Nat /\ m = n + 1 /\ n + 1 <= Len(to) /\ n \in 0..Len(log) /\ n \in 0..Len(to) /\ to[n + 1] = e
        BY <1>1, <3>2, <4>1
      <4>3. /\ Many(to, n, c) = Many(log, n, c) /\ Many(to, n, r) = Many(log, n, r)
            /\ Many(to, n, c) \in Nat /\ Many(to, n, r) \in Nat
        BY <1>1, <1>2, <1>4, <4>2, PlacesCount
      <4>4. Many(log, n, r) <= Many(log, n, c) /\ (e = r => Many(log, n, r) < Many(log, n, c))
        BY <1>3, <4>1, <4>2 DEF Sound
      <4>5. ASSUME NEW x \in {"call", "result"}
            PROVE  /\ e = "started" => Many(to, n + 1, x) = 0
                   /\ e = x => Many(to, n + 1, x) = Many(to, n, x) + 1
                   /\ e \notin {"started", x} => Many(to, n + 1, x) = Many(to, n, x)
        <5>1. to \in Logs /\ n \in Nat /\ n + 1 <= Len(to)
          BY <1>1, <4>2
        <5>2. /\ to[n + 1] = "started" => Many(to, n + 1, x) = 0
              /\ to[n + 1] = x => Many(to, n + 1, x) = Many(to, n, x) + 1
              /\ to[n + 1] \notin {"started", x} => Many(to, n + 1, x) = Many(to, n, x)
          BY ONLY <4>5, <5>1, OneMore
        <5> QED BY <4>2, <5>2
      <4>6. /\ e = "started" => Many(to, m, c) = 0 /\ Many(to, m, r) = 0
            /\ e = c => Many(to, m, c) = Many(to, n, c) + 1 /\ Many(to, m, r) = Many(to, n, r)
            /\ e = r => Many(to, m, c) = Many(to, n, c) /\ Many(to, m, r) = Many(to, n, r) + 1
        BY <1>4, <4>2, <4>5
      <4>7. e = "started" \/ e = c \/ e = r
        BY <1>3 DEF Events
      <4> QED BY <4>3, <4>4, <4>6, <4>7
    <3> QED BY <1>1, <3>1, <3>2
  <2> QED BY <1>3, <2>1 DEF Sound
<1>6. ASSUME NEW st, Matches(st, log) PROVE Matches(st, to)
  <2>1. st \in Streams /\ st.last \in 0..Len(log)
    BY <1>1, <1>6 DEF Matches, Streams
  <2>2. Many(to, st.last, c) = Many(log, st.last, c) /\ Many(to, st.last, r) = Many(log, st.last, r)
    BY <1>2, <1>4, <2>1
  <2> QED BY <1>1, <1>3, <1>6, <2>1, <2>2 DEF Matches
<1>7. ASSUME NEW page, NEW st, Matches(st, log), PageFollows(page, st, log) PROVE PageFollows(page, st, to)
  <2>1. st.last \in Nat /\ Len(page.events) \in Nat
    BY <1>7 DEF Matches, Streams, PageFollows, Logs
  <2> QED BY <1>1, <1>7, <2>1, SMTT(30) DEF PageFollows
<1> QED BY <1>1, <1>5, <1>6, <1>7
-----------------------------------------------------------------------------
(* What the reads know of the service's rows.                                *)

Posed == [text : StreamTexts, token : Nat, at : {"sent", "made", "refused", "reads"}, no : Nat]
LoggedRows == [text : StreamTexts, token : Nat, status : Q!Statuses, log : Logs]
Lists == Seq(Q!Statuses)
\* A read of the list, or of a question's events, under way.
Listings == {Q!None, [at |-> "sent"]} \cup [at : {"read"}, statuses : Lists]
Pagings ==
  {Q!None, [at |-> "sent"]} \cup [at : {"half"}, status : Q!Statuses, lastSeq : Nat]
  \cup [at : {"read"}, status : Q!Statuses, lastSeq : Nat, from : Nat, events : Logs]

RowsTyped ==
  /\ text \in StreamTexts \cup {Q!NoText} /\ token \in Nat /\ asking \subseteq Posed /\ submits \in Nat
  /\ rows \in Seq(LoggedRows) /\ Len(rows) <= StreamQuestions
ListTyped ==
  /\ list \in Lists /\ Len(list) <= Len(rows)
  /\ listing \in Listings /\ (listing.at = "read" => Len(listing.statuses) <= Len(rows))
PagesTyped == stream \in [Q!Questions -> Streams] /\ paging \in [Q!Questions -> Pagings]

\* What is known at the end of an ended question's log stays so.
PagingFits(pg, st, log, status) ==
  /\ pg.at \in {"half", "read"} /\ ~Q!isLiveQuestion(pg.status) => pg.lastSeq = Len(log) /\ ~Q!isLiveQuestion(status)
  /\ pg.at = "read" => PageFollows(pg, st, log)
StreamFits(pg, st, log, status) ==
  /\ Sound(log) /\ Matches(st, log)
  /\ st.complete => st.last = Len(log) /\ ~Q!isLiveQuestion(status)
  /\ PagingFits(pg, st, log, status)
Asleep(pg, st) == st = Q!EMPTY_STREAM /\ pg = Q!None
StreamInv ==
  /\ RowsTyped /\ ListTyped /\ PagesTyped
  /\ \A q \in DOMAIN rows : StreamFits(paging[q], stream[q], rows[q].log, rows[q].status)
  /\ \A q \in Q!Questions \ DOMAIN rows : Asleep(paging[q], stream[q])

LEMMA NoMore ==
  ASSUME Q!ChatConstants
  PROVE  /\ StreamQuestions \in Nat /\ StreamSubmits \in Nat /\ StreamEvents \in Nat /\ EventPage \in Nat /\ EventPage > 0
         /\ Q!Questions = 1..StreamQuestions
BY DEF Q!ChatConstants, Q!Questions

LEMMA EmptyIs ==
  /\ Q!EMPTY_STREAM \in Streams /\ Q!EMPTY_STREAM.last = 0 /\ ~Q!EMPTY_STREAM.complete
  /\ Q!None.at = "none" /\ Q!None \in Pagings /\ Q!None \in Listings
  /\ <<>> \in Logs /\ Sound(<<>>) /\ Matches(Q!EMPTY_STREAM, <<>>)
<1>1. <<>> \in Logs /\ Len(<<>>) = 0
  BY DEF Logs
<1>2. Many(<<>>, 0, "call") = 0 /\ Many(<<>>, 0, "result") = 0
  BY <1>1, NoneYet DEF Events
<1>3. Sound(<<>>)
  BY <1>1, <1>2 DEF Sound
<1>4. Q!EMPTY_STREAM \in Streams /\ Q!EMPTY_STREAM.last = 0 /\ Q!EMPTY_STREAM.steps = <<>>
  BY DEF Q!EMPTY_STREAM, Streams
<1>5. ~Q!EMPTY_STREAM.complete
  BY DEF Q!EMPTY_STREAM
<1>6. Ticked(Q!EMPTY_STREAM.steps) = {}
  BY <1>4 DEF Ticked
<1>7. Cardinality(Ticked(Q!EMPTY_STREAM.steps)) = 0
  BY <1>6, FS_EmptySet
<1>8. Q!None.at = "none" /\ Q!None \in Pagings /\ Q!None \in Listings
  BY DEF Q!None, Pagings, Listings
<1> QED BY <1>1, <1>2, <1>3, <1>4, <1>5, <1>7, <1>8 DEF Matches

LEMMA StreamStart == ASSUME Q!ChatConstants, Q!ChatInit PROVE StreamInv
<1>1. rows = <<>> /\ DOMAIN rows = {} /\ list = <<>> /\ Len(rows) = 0 /\ Len(list) = 0
  BY DEF Q!ChatInit
<1>2. RowsTyped
  BY <1>1, NoMore DEF Q!ChatInit, RowsTyped
<1>3. ListTyped
  BY <1>1, EmptyIs DEF Q!ChatInit, ListTyped, Lists
<1>4. PagesTyped /\ \A q \in Q!Questions : Asleep(paging[q], stream[q])
  BY EmptyIs DEF Q!ChatInit, PagesTyped, Asleep
<1> QED BY <1>1, <1>2, <1>3, <1>4 DEF StreamInv

\* What no step changes but those that write the rows or the reads.
LEMMA RestStays ==
  ASSUME StreamInv, UNCHANGED <<rows, list, listing, stream, paging>>, RowsTyped'
  PROVE  StreamInv'
BY DEF StreamInv, ListTyped, PagesTyped

\* A question's row and reads change, within what fits.
LEMMA OneFits ==
  ASSUME StreamInv, RowsTyped', ListTyped', PagesTyped', DOMAIN rows' = DOMAIN rows,
         \A q \in DOMAIN rows : StreamFits(paging'[q], stream'[q], rows'[q].log, rows'[q].status),
         \A q \in Q!Questions \ DOMAIN rows : paging'[q] = paging[q] /\ stream'[q] = stream[q]
  PROVE  StreamInv'
BY DEF StreamInv

LEMMA InvalidatedFits ==
  ASSUME StreamInv, Q!Invalidated, Len(rows') = Len(rows)
  PROVE  /\ ListTyped' /\ PagesTyped' /\ UNCHANGED stream
         /\ \A q \in Q!Questions : paging'[q] = paging[q] \/ (q \in DOMAIN rows /\ paging'[q] = [at |-> "sent"])
<1>1. listing' = [at |-> "sent"] /\ UNCHANGED <<list, stream>>
  BY DEF Q!Invalidated
<1>2. ListTyped'
  BY <1>1 DEF StreamInv, ListTyped, Listings
<1>3. \A q \in Q!Questions : paging'[q] = paging[q] \/ (q \in DOMAIN list /\ paging'[q] = [at |-> "sent"])
  BY DEF Q!Invalidated
<1>4. DOMAIN list \subseteq DOMAIN rows
  BY DEF StreamInv, RowsTyped, ListTyped, Lists
<1>5. [at |-> "sent"] \in Pagings
  BY DEF Pagings
<1>6. paging' \in [Q!Questions -> Pagings]
  <2>1. DOMAIN paging' = Q!Questions /\ paging' = [q \in Q!Questions |-> paging'[q]]
    BY DEF Q!Invalidated
  <2>2. \A q \in Q!Questions : paging'[q] \in Pagings
    BY <1>3, <1>5 DEF StreamInv, PagesTyped
  <2> QED BY <2>1, <2>2
<1> QED BY <1>1, <1>2, <1>3, <1>4, <1>6 DEF StreamInv, PagesTyped
-----------------------------------------------------------------------------
(* Each step keeps it.                                                       *)

LEMMA AskingKeeps ==
  ASSUME Q!ChatConstants, StreamInv,
         \/ \E x \in StreamTexts : Q!Type(x)
         \/ \E b \in BOOLEAN : Q!Submit(b)
         \/ \E a \in asking : Q!NotMade(a) \/ Q!Asked(a)
  PROVE  StreamInv'
<1>1. UNCHANGED <<rows, list, listing, stream, paging>>
  BY DEF Q!Type, Q!Submit, Q!NotMade, Q!Asked, Q!reads
<1>2. RowsTyped
  BY DEF StreamInv
<1>3. CASE \E x \in StreamTexts : Q!Type(x)
  <2>1. RowsTyped'
    BY <1>2, <1>3 DEF RowsTyped, Q!Type
  <2> QED BY <1>1, <2>1, RestStays
<1>4. CASE \E b \in BOOLEAN : Q!Submit(b)
  <2>1. PICK a : a = [text |-> text, token |-> token, at |-> "sent", no |-> submits]
    OBVIOUS
  <2>2. /\ asking' = asking \cup {a} /\ text # Q!NoText /\ submits' = submits + 1 /\ UNCHANGED <<text, token, rows>>
    BY <1>4, <2>1 DEF Q!Submit
  <2>3. a \in Posed
    BY <1>2, <2>1, <2>2 DEF RowsTyped, Posed
  <2>4. RowsTyped'
    BY <1>2, <2>2, <2>3 DEF RowsTyped
  <2> QED BY <1>1, <2>4, RestStays
<1>5. CASE \E a \in asking : Q!NotMade(a) \/ Q!Asked(a)
  <2>1. RowsTyped'
    BY <1>2, <1>5 DEF RowsTyped, Q!NotMade, Q!Asked
  <2> QED BY <1>1, <2>1, RestStays
<1> QED BY <1>3, <1>4, <1>5

LEMMA RestartsKeep ==
  ASSUME Q!ChatConstants, StreamInv, \/ \E a \in asking : Q!Made(a)
                                     \/ \E n \in DOMAIN rows : Q!Cancel(n)
  PROVE  StreamInv'
<1>1. RowsTyped /\ ListTyped /\ PagesTyped
  BY DEF StreamInv
<1>2. Q!Invalidated
  BY DEF Q!Made, Q!Cancel
<1> DEFINE LogsStay ==
             /\ rows' \in Seq(LoggedRows) /\ Len(rows') = Len(rows) /\ DOMAIN rows' = DOMAIN rows
             /\ \A q \in DOMAIN rows : /\ rows'[q].log = rows[q].log
                                       /\ ~Q!isLiveQuestion(rows[q].status) => ~Q!isLiveQuestion(rows'[q].status)
<1>3. LogsStay
  <2>1. CASE \E a \in asking : Q!Made(a)
    BY <1>1, <2>1 DEF Q!Made, RowsTyped
  <2>2. ASSUME NEW n \in DOMAIN rows, Q!Cancel(n) PROVE LogsStay
    <3>1. rows' = [rows EXCEPT ![n].status = "cancelled"] /\ rows \in Seq(LoggedRows) /\ rows[n] \in LoggedRows
      BY <1>1, <2>2 DEF Q!Cancel, RowsTyped
    <3>2. PICK r : r = [rows[n] EXCEPT !.status = "cancelled"]
      OBVIOUS
    <3>3. r \in LoggedRows /\ r.log = rows[n].log /\ r.status = "cancelled"
      BY <3>1, <3>2 DEF LoggedRows, Q!Statuses
    <3>4. rows' = [rows EXCEPT ![n] = r]
      BY <3>1, <3>2
    <3> QED BY <3>1, <3>3, <3>4 DEF Q!isLiveQuestion
  <2> QED BY <2>1, <2>2
<1>4. /\ ListTyped' /\ PagesTyped' /\ UNCHANGED stream
      /\ \A q \in Q!Questions : paging'[q] = paging[q] \/ (q \in DOMAIN rows /\ paging'[q] = [at |-> "sent"])
  BY <1>2, <1>3, InvalidatedFits
<1>5. RowsTyped'
  <2>1. CASE \E a \in asking : Q!Made(a)
    <3>1. PICK a \in asking : Q!Made(a)
      BY <2>1
    <3>2. a \in Posed
      BY <1>1 DEF RowsTyped
    <3>3. [a EXCEPT !.at = "reads"] \in Posed
      BY <3>2 DEF Posed
    <3> QED BY <1>1, <1>3, <3>1, <3>3 DEF RowsTyped, Q!Made
  <2>2. CASE \E n \in DOMAIN rows : Q!Cancel(n)
    BY <1>1, <1>3, <2>2 DEF RowsTyped, Q!Cancel, Q!composer
  <2> QED BY <2>1, <2>2
<1>6. DOMAIN rows \subseteq Q!Questions
  BY <1>1, NoMore DEF RowsTyped
<1>7. \A q \in DOMAIN rows : StreamFits(paging'[q], stream'[q], rows'[q].log, rows'[q].status)
  <2> SUFFICES ASSUME NEW q \in DOMAIN rows PROVE StreamFits(paging'[q], stream'[q], rows'[q].log, rows'[q].status)
    OBVIOUS
  <2>1. StreamFits(paging[q], stream[q], rows[q].log, rows[q].status)
    BY DEF StreamInv
  <2>2. CASE paging'[q] = paging[q]
    BY <1>3, <1>4, <2>1, <2>2 DEF StreamFits, PagingFits
  <2>3. CASE paging'[q] = [at |-> "sent"]
    BY <1>3, <1>4, <2>1, <2>3 DEF StreamFits, PagingFits
  <2> QED BY <1>4, <1>6, <2>2, <2>3
<1> QED BY <1>3, <1>4, <1>5, <1>7, OneFits

\* A question is made: it has no log, and nothing of it was read.
LEMMA MakingKeeps ==
  ASSUME Q!ChatConstants, StreamInv, NEW a \in asking, Q!Create(a)
  PROVE  StreamInv'
<1>1. RowsTyped /\ ListTyped /\ PagesTyped
  BY DEF StreamInv
<1>2. a \in Posed /\ UNCHANGED <<text, token, submits>> /\ UNCHANGED <<list, listing, stream, paging>>
  BY <1>1 DEF RowsTyped, Q!Create, Q!reads
<1>3. asking' \subseteq Posed
  <2>1. [a EXCEPT !.at = "made"] \in Posed /\ [a EXCEPT !.at = "refused"] \in Posed
    BY <1>2 DEF Posed
  <2> QED BY <1>1, <2>1 DEF RowsTyped, Q!Create
<1>4. CASE UNCHANGED rows
  <2>1. RowsTyped'
    BY <1>1, <1>2, <1>3, <1>4 DEF RowsTyped
  <2> QED BY <1>2, <1>4, <2>1, RestStays
<1>5. PICK row : row = [text |-> a.text, token |-> a.token, status |-> "queued", log |-> <<>>]
  OBVIOUS
<1>6. row \in LoggedRows /\ row.log = <<>>
  BY <1>2, <1>5, EmptyIs DEF Posed, LoggedRows, Q!Statuses
<1>7. CASE Len(rows) < StreamQuestions /\ rows' = Append(rows, row)
  <2>1. PICK n : n = Len(rows) + 1
    OBVIOUS
  <2>2. /\ rows' \in Seq(LoggedRows) /\ Len(rows') = n /\ DOMAIN rows' = DOMAIN rows \cup {n} /\ n \notin DOMAIN rows
        /\ rows'[n] = row /\ (\A q \in DOMAIN rows : rows'[q] = rows[q]) /\ Len(rows) <= n /\ n <= StreamQuestions /\ n \in Nat
        /\ Len(rows) \in Nat
    BY <1>1, <1>6, <1>7, <2>1, NoMore DEF RowsTyped
  <2>3. RowsTyped'
    BY <1>1, <1>2, <1>3, <2>2 DEF RowsTyped
  <2>4. ListTyped' /\ PagesTyped'
    <3>1. \A k \in Nat : k <= Len(rows) => k <= n
      BY <2>2
    <3>2. Len(list) \in Nat /\ (listing.at = "read" => Len(listing.statuses) \in Nat)
      <4>1. Len(list) \in Nat
        BY <1>1 DEF ListTyped, Lists
      <4>2. listing.at = "read" => listing.statuses \in Lists
        BY <1>1 DEF ListTyped, Listings, Q!None
      <4> QED BY <4>1, <4>2 DEF Lists
    <3> QED BY <1>1, <1>2, <2>2, <3>1, <3>2 DEF ListTyped, PagesTyped
  <2>5. n \in Q!Questions \ DOMAIN rows
    BY <2>2, NoMore
  <2>6. StreamFits(paging[n], stream[n], <<>>, rows'[n].status)
    <3>1. stream[n] = Q!EMPTY_STREAM /\ paging[n] = Q!None
      BY <2>5 DEF StreamInv, Asleep
    <3> QED BY <3>1, EmptyIs DEF StreamFits, PagingFits
  <2>7. \A q \in DOMAIN rows' : StreamFits(paging'[q], stream'[q], rows'[q].log, rows'[q].status)
    BY <1>2, <1>6, <2>2, <2>6 DEF StreamInv
  <2>8. \A q \in Q!Questions \ DOMAIN rows' : Asleep(paging'[q], stream'[q])
    BY <1>2, <2>2 DEF StreamInv
  <2> QED BY <2>3, <2>4, <2>7, <2>8 DEF StreamInv
<1> QED BY <1>4, <1>5, <1>7 DEF Q!Create

\* The agent appends to a live question's log, or ends the question.
LEMMA AgentKeeps ==
  ASSUME Q!ChatConstants, StreamInv, NEW n \in DOMAIN rows, Q!Agent(n)
  PROVE  StreamInv'
<1>1. RowsTyped /\ ListTyped /\ PagesTyped
  BY DEF StreamInv
<1>2. UNCHANGED <<text, token, asking, submits>> /\ UNCHANGED <<list, listing, stream, paging>>
  BY DEF Q!Agent, Q!composer, Q!reads
<1>3. PICK r, log : r = rows[n] /\ log = r.log
  OBVIOUS
<1>4. r \in LoggedRows /\ log \in Logs /\ r.status \in Q!Statuses /\ rows \in Seq(LoggedRows)
  <2>1. rows \in Seq(LoggedRows) /\ r \in LoggedRows
    BY <1>1, <1>3 DEF RowsTyped
  <2> QED BY <1>3, <2>1 DEF LoggedRows
<1>5. StreamFits(paging[n], stream[n], log, r.status)
  BY <1>3 DEF StreamInv
<1>6. Q!isLiveQuestion(r.status)
  BY <1>3 DEF Q!Agent, Q!isLiveQuestion
<1>7. \E e \in Events, s \in Q!Statuses :
        /\ rows' = [rows EXCEPT ![n].status = s, ![n].log = Append(log, e)] \/ rows' = [rows EXCEPT ![n].status = s]
        /\ e = "result" => Q!CountOf(log, "result") < Q!CountOf(log, "call")
  <2>1. CASE r.status = "queued" /\ rows' = [rows EXCEPT ![n].status = "running", ![n].log = Append(log, "started")]
    <3>1. "running" \in Q!Statuses /\ "started" \in Events /\ "started" # "result"
      BY DEF Q!Statuses, Events
    <3> QED BY <2>1, <3>1
  <2>2. CASE \/ Q!Logs(n, "call")
             \/ Q!CountOf(log, "result") < Q!CountOf(log, "call") /\ Q!Logs(n, "result")
    <3>1. PICK e \in {"call", "result"} : Q!Logs(n, e) /\ (e = "result" => Q!CountOf(log, "result") < Q!CountOf(log, "call"))
      BY <2>2
    <3>2. rows' = [rows EXCEPT ![n].log = Append(log, e)]
      BY <1>3, <3>1 DEF Q!Logs
    <3>3. rows' = [rows EXCEPT ![n].status = r.status, ![n].log = Append(log, e)]
      BY <1>3, <1>4, <3>2 DEF LoggedRows
    <3> QED BY <1>4, <3>1, <3>3 DEF Events
  <2>3. CASE \E s \in {"queued", "answered"} : rows' = [rows EXCEPT ![n].status = s]
    <3>1. "call" \in Events /\ {"queued", "answered"} \subseteq Q!Statuses
      BY DEF Q!Statuses, Events
    <3> QED BY <2>3, <3>1
  <2> QED BY <1>3, <2>1, <2>2, <2>3 DEF Q!Agent
<1>8. PICK to : /\ rows' = [rows EXCEPT ![n] = to] /\ to \in LoggedRows
                /\ \/ to.log = log
                   \/ \E e \in Events : to.log = Append(log, e) /\ (e = "result" => Q!CountOf(log, "result") < Q!CountOf(log, "call"))
  <2>1. PICK e \in Events, s \in Q!Statuses :
          /\ rows' = [rows EXCEPT ![n].status = s, ![n].log = Append(log, e)] \/ rows' = [rows EXCEPT ![n].status = s]
          /\ e = "result" => Q!CountOf(log, "result") < Q!CountOf(log, "call")
    BY <1>7
  <2>2. PICK l : l = Append(log, e)
    OBVIOUS
  <2>3. l \in Logs
    BY <1>4, <2>2 DEF Logs
  <2>4. PICK one, two : one = [r EXCEPT !.status = s, !.log = l] /\ two = [r EXCEPT !.status = s]
    OBVIOUS
  <2>5. one \in LoggedRows /\ one.log = l /\ two \in LoggedRows /\ two.log = log
    BY <1>3, <1>4, <2>3, <2>4 DEF LoggedRows
  <2>6. rows' = [rows EXCEPT ![n] = one] \/ rows' = [rows EXCEPT ![n] = two]
    BY <1>3, <2>1, <2>2, <2>4
  <2> QED BY <2>1, <2>2, <2>5, <2>6
<1>9. /\ rows' \in Seq(LoggedRows) /\ Len(rows') = Len(rows) /\ DOMAIN rows' = DOMAIN rows /\ rows'[n] = to
      /\ \A q \in DOMAIN rows : q # n => rows'[q] = rows[q]
  BY <1>4, <1>8
<1>10. RowsTyped' /\ ListTyped' /\ PagesTyped'
  BY <1>1, <1>2, <1>9 DEF RowsTyped, ListTyped, PagesTyped
<1>11. StreamFits(paging[n], stream[n], to.log, to.status)
  <2>1. CASE to.log = log
    BY <1>5, <1>6, <2>1 DEF StreamFits, PagingFits
  <2>2. ASSUME NEW e \in Events, to.log = Append(log, e), e = "result" => Q!CountOf(log, "result") < Q!CountOf(log, "call")
        PROVE  StreamFits(paging[n], stream[n], to.log, to.status)
    <3>1. PICK new : new = to.log
      OBVIOUS
    <3>2. e = "result" => Many(log, Len(log), "result") < Many(log, Len(log), "call")
      <4>1. Len(log) \in 0..Len(log) /\ "result" \in Events /\ "call" \in Events
        BY <1>4 DEF Logs, Events
      <4>2. Q!CountOf(log, "result") = Many(log, Len(log), "result") /\ Q!CountOf(log, "call") = Many(log, Len(log), "call")
        BY <1>4, <4>1, CountIs
      <4> QED BY <2>2, <4>2
    <3>3. Sound(log) /\ Matches(stream[n], log) /\ ~stream[n].complete /\ PagingFits(paging[n], stream[n], log, r.status)
      BY <1>5, <1>6 DEF StreamFits
    <3>4. Sound(new) /\ Matches(stream[n], new) /\ (PageFollows(paging[n], stream[n], log) => PageFollows(paging[n], stream[n], new))
      <4>1. new = Append(log, e)
        BY <2>2, <3>1
      <4> QED BY <1>4, <3>2, <3>3, <4>1, LogGrows
    <3>5. PagingFits(paging[n], stream[n], new, to.status)
      BY <1>6, <3>3, <3>4 DEF PagingFits
    <3> QED BY <3>1, <3>3, <3>4, <3>5 DEF StreamFits
  <2> QED BY <1>8, <2>1, <2>2
<1> QED BY <1>2, <1>9, <1>10, <1>11, OneFits DEF StreamInv

\* The reads of the list.
LEMMA ListKeeps ==
  ASSUME Q!ChatConstants, StreamInv, Q!PollList \/ Q!ListRead \/ Q!ListLands \/ Q!ListFails
  PROVE  StreamInv'
<1>1. RowsTyped /\ ListTyped /\ PagesTyped
  BY DEF StreamInv
<1>2. UNCHANGED <<text, token, asking, submits, rows, stream, paging>>
  BY DEF Q!PollList, Q!ListRead, Q!ListLands, Q!ListFails, Q!composer
<1>3. rows \in Seq(LoggedRows) /\ Len(rows) \in Nat
  BY <1>1 DEF RowsTyped
<1>4. ListTyped'
  <2>1. CASE Q!PollList
    BY <1>1, <1>2, <2>1 DEF Q!PollList, ListTyped, Listings
  <2>2. CASE Q!ListRead
    <3>1. PICK s : s = [n \in DOMAIN rows |-> rows[n].status]
      OBVIOUS
    <3>2. \A n \in DOMAIN rows : rows[n].status \in Q!Statuses
      <4>1. \A n \in DOMAIN rows : rows[n] \in LoggedRows
        BY <1>3
      <4> QED BY <4>1 DEF LoggedRows
    <3>3. s \in Lists /\ Len(s) = Len(rows)
      <4>1. DOMAIN rows = 1..Len(rows)
        BY <1>3
      <4>2. s \in [1..Len(rows) -> Q!Statuses]
        BY <3>1, <3>2, <4>1
      <4> QED BY <1>3, <4>2 DEF Lists
    <3>4. listing' = [at |-> "read", statuses |-> s] /\ list' = list
      BY <2>2, <3>1 DEF Q!ListRead
    <3> QED BY <1>1, <1>2, <1>3, <3>3, <3>4 DEF ListTyped, Listings
  <2>3. CASE Q!ListLands
    <3>1. listing.at = "read" /\ list' = listing.statuses /\ listing' = Q!None
      BY <2>3 DEF Q!ListLands
    <3>2. listing.statuses \in Lists /\ Len(listing.statuses) <= Len(rows)
      BY <1>1, <3>1 DEF ListTyped, Listings, Q!None
    <3> QED BY <1>2, <3>1, <3>2, EmptyIs DEF ListTyped
  <2>4. CASE Q!ListFails
    BY <1>1, <1>2, <2>4, EmptyIs DEF Q!ListFails, ListTyped
  <2> QED BY <2>1, <2>2, <2>3, <2>4
<1>5. RowsTyped' /\ PagesTyped'
  BY <1>1, <1>2 DEF RowsTyped, PagesTyped
<1> QED BY <1>2, <1>4, <1>5 DEF StreamInv

\* The reads of a question's events.
LEMMA PageKeeps ==
  ASSUME Q!ChatConstants, StreamInv, NEW q \in Q!Questions,
         Q!PollEvents(q) \/ Q!EventsStatus(q) \/ Q!EventsPage(q) \/ Q!EventsLand(q) \/ Q!EventsFail(q)
  PROVE  StreamInv'
<1>1. RowsTyped /\ ListTyped /\ PagesTyped
  BY DEF StreamInv
<1>2. UNCHANGED <<text, token, asking, submits, rows, list, listing>>
  BY DEF Q!PollEvents, Q!EventsStatus, Q!EventsPage, Q!EventsLand, Q!EventsFail, Q!composer
<1>3. q \in DOMAIN rows
  <2>1. CASE Q!PollEvents(q)
    <3>1. Len(list) \in Nat /\ DOMAIN list = 1..Len(list) /\ Len(rows) \in Nat /\ DOMAIN rows = 1..Len(rows) /\ Len(list) <= Len(rows)
      BY <1>1 DEF RowsTyped, ListTyped, Lists
    <3> QED BY <2>1, <3>1 DEF Q!PollEvents
  <2>2. CASE paging[q] # Q!None
    BY <2>2 DEF StreamInv, Asleep
  <2>3. CASE paging[q].at \in {"sent", "half", "read"}
    BY <2>2, <2>3, EmptyIs
  <2> QED BY <2>1, <2>2, <2>3 DEF Q!EventsStatus, Q!EventsPage, Q!EventsLand, Q!EventsFail
<1>4. PICK log, status, st, pg : log = rows[q].log /\ status = rows[q].status /\ st = stream[q] /\ pg = paging[q]
  OBVIOUS
<1>5. log \in Logs /\ status \in Q!Statuses /\ st \in Streams /\ pg \in Pagings /\ Len(log) \in Nat
  <2>1. rows[q] \in LoggedRows
    BY <1>1, <1>3 DEF RowsTyped
  <2>2. st \in Streams /\ pg \in Pagings
    BY <1>1, <1>4 DEF PagesTyped
  <2> QED BY <1>4, <2>1, <2>2 DEF LoggedRows, Logs
<1>6. StreamFits(pg, st, log, status)
  BY <1>3, <1>4 DEF StreamInv
<1>7. ASSUME NEW st2 \in Streams, NEW pg2 \in Pagings, StreamFits(pg2, st2, log, status),
             stream' = [stream EXCEPT ![q] = st2], paging' = [paging EXCEPT ![q] = pg2]
      PROVE  StreamInv'
  <2>1. PagesTyped' /\ stream'[q] = st2 /\ paging'[q] = pg2
        /\ \A p \in Q!Questions : p # q => stream'[p] = stream[p] /\ paging'[p] = paging[p]
    BY <1>1, <1>7 DEF PagesTyped
  <2>2. RowsTyped' /\ ListTyped'
    BY <1>1, <1>2 DEF RowsTyped, ListTyped
  <2>3. DOMAIN rows \subseteq Q!Questions
    BY <1>1, NoMore DEF RowsTyped
  <2>4. \A p \in DOMAIN rows : StreamFits(paging'[p], stream'[p], rows'[p].log, rows'[p].status)
    BY <1>2, <1>4, <1>7, <2>1, <2>3 DEF StreamInv
  <2> QED BY <1>2, <1>3, <2>1, <2>2, <2>4, OneFits
<1>8. stream = [stream EXCEPT ![q] = st]
  BY <1>1, <1>4 DEF PagesTyped
<1>9. CASE Q!PollEvents(q)
  <2>1. PICK new : new = [at |-> "sent"]
    OBVIOUS
  <2>2. new \in Pagings /\ new.at = "sent"
    BY <2>1 DEF Pagings
  <2>3. StreamFits(new, st, log, status)
    BY <1>6, <2>2 DEF StreamFits, PagingFits
  <2> QED BY <1>5, <1>7, <1>8, <1>9, <2>1, <2>2, <2>3 DEF Q!PollEvents
<1>10. CASE Q!EventsFail(q)
  <2>1. StreamFits(Q!None, st, log, status)
    BY <1>6, EmptyIs DEF StreamFits, PagingFits
  <2> QED BY <1>5, <1>7, <1>8, <1>10, <2>1, EmptyIs DEF Q!EventsFail
<1>11. CASE Q!EventsStatus(q)
  <2>1. PICK new : new = [at |-> "half", status |-> status, lastSeq |-> Len(log)]
    OBVIOUS
  <2>2. new \in Pagings /\ new.at = "half" /\ new.status = status /\ new.lastSeq = Len(log)
    BY <1>5, <2>1 DEF Pagings
  <2>3. StreamFits(new, st, log, status)
    BY <1>6, <2>2 DEF StreamFits, PagingFits
  <2>4. UNCHANGED stream /\ paging' = [paging EXCEPT ![q] = new]
    BY <1>4, <1>11, <2>1 DEF Q!EventsStatus
  <2> QED BY <1>5, <1>7, <1>8, <2>2, <2>3, <2>4
<1>12. CASE Q!EventsPage(q)
  <2>1. PICK to : to = IF st.last + EventPage < Len(log) THEN st.last + EventPage ELSE Len(log)
    OBVIOUS
  <2>2. PICK read : read = SubSeq(log, st.last + 1, to)
    OBVIOUS
  <2>3. PICK new : new = [at |-> "read", status |-> pg.status, lastSeq |-> pg.lastSeq, from |-> st.last, events |-> read]
    OBVIOUS
  <2>4. st.last \in Nat /\ st.last <= Len(log) /\ to \in Nat /\ st.last <= to /\ to <= Len(log)
    BY <1>5, <1>6, <2>1, NoMore DEF StreamFits, Matches, Streams
  <2>5. read \in Logs /\ Len(read) = to - st.last /\ \A i \in 1..Len(read) : read[i] = log[st.last + i]
    <3>1. \A i \in st.last + 1..to : log[i] \in Events
      BY <1>5, <2>4 DEF Logs
    <3> QED BY <2>2, <2>4, <3>1 DEF Logs
  <2>6. pg.at = "half" /\ pg.status \in Q!Statuses /\ pg.lastSeq \in Nat
    BY <1>4, <1>5, <1>12 DEF Q!EventsPage, Pagings, Q!None
  <2>7. new \in Pagings /\ new.at = "read" /\ new.status = pg.status /\ new.lastSeq = pg.lastSeq /\ new.from = st.last /\ new.events = read
    BY <2>3, <2>4, <2>5, <2>6 DEF Pagings
  <2>8. PageFollows(new, st, log)
    BY <2>4, <2>5, <2>7 DEF PageFollows
  <2>9. StreamFits(new, st, log, status)
    BY <1>6, <2>6, <2>7, <2>8 DEF StreamFits, PagingFits
  <2>10. UNCHANGED stream /\ paging' = [paging EXCEPT ![q] = new]
    BY <1>4, <1>12, <2>1, <2>2, <2>3 DEF Q!EventsPage
  <2> QED BY <1>5, <1>7, <1>8, <2>7, <2>9, <2>10
<1>13. CASE Q!EventsLand(q)
  <2>1. pg.at = "read" /\ Sound(log) /\ Matches(st, log) /\ PageFollows(pg, st, log)
    BY <1>4, <1>6, <1>13 DEF Q!EventsLand, StreamFits, PagingFits
  <2>2. PICK new : new = Q!reduceEvents(st, pg)
    OBVIOUS
  <2>3. Matches(new, log) /\ (new.complete => ~Q!isLiveQuestion(pg.status) /\ new.last >= pg.lastSeq)
    BY <1>5, <2>1, <2>2, ReduceMatches
  <2>4. new.complete => new.last = Len(log) /\ ~Q!isLiveQuestion(status)
    <3>1. new.last \in Nat /\ new.last <= Len(log)
      BY <2>3 DEF Matches, Streams
    <3> QED BY <1>5, <1>6, <2>1, <2>3, <3>1 DEF StreamFits, PagingFits
  <2>5. StreamFits(Q!None, new, log, status)
    BY <2>1, <2>3, <2>4, EmptyIs DEF StreamFits, PagingFits
  <2>6. stream' = [stream EXCEPT ![q] = new] /\ paging' = [paging EXCEPT ![q] = Q!None]
    BY <1>4, <1>13, <2>2 DEF Q!EventsLand
  <2> QED BY <1>7, <2>3, <2>5, <2>6, EmptyIs DEF Matches
<1> QED BY <1>9, <1>10, <1>11, <1>12, <1>13

LEMMA StreamSteps ==
  ASSUME Q!ChatConstants, StreamInv, [Q!ChatNext]_Q!chatVars
  PROVE  StreamInv'
<1>1. ASSUME UNCHANGED Q!chatVars PROVE StreamInv'
  BY <1>1 DEF Q!chatVars, StreamInv, RowsTyped, ListTyped, PagesTyped
<1>2. CASE Q!ChatNext
  BY <1>2, AskingKeeps, RestartsKeep, MakingKeeps, AgentKeeps, ListKeeps, PageKeeps DEF Q!ChatNext, Q!AgentStep
<1> QED BY <1>1, <1>2

\* What a stream shows is the latest attempt of its log, and a stream no longer
\* polled holds all of it, however reads fail and start again, and whatever
\* the log's length and the pages'.
THEOREM StreamsHold ==
  ASSUME Q!ChatConstants
  PROVE  Q!ChatSpec => []Q!StreamIsTheLog
<1>1. ASSUME StreamInv PROVE Q!StreamIsTheLog
  <2> SUFFICES ASSUME NEW q \in DOMAIN rows,
                      NEW st, st = stream[q], NEW shown, shown = SubSeq(rows[q].log, 1, st.last)
               PROVE  /\ Len(st.steps) = Q!CountOf(shown, "call")
                      /\ Cardinality({i \in DOMAIN st.steps : st.steps[i]}) = Q!CountOf(shown, "result")
                      /\ st.complete => st.last = Len(rows[q].log) /\ ~Q!isLiveQuestion(rows[q].status)
    <3>1. \A W : Q!Cardinality(W) = Cardinality(W)
      BY DEF Q!Cardinality, Cardinality
    <3> QED BY <3>1, ZenonT(60) DEF Q!StreamIsTheLog
  <2>1. PICK log : log = rows[q].log
    OBVIOUS
  <2>2. StreamFits(paging[q], st, log, rows[q].status) /\ log \in Logs
    <3>1. rows[q] \in LoggedRows
      BY <1>1 DEF StreamInv, RowsTyped
    <3> QED BY <1>1, <2>1, <3>1 DEF StreamInv, LoggedRows
  <2>3. st.last \in 0..Len(log)
    BY <2>2 DEF StreamFits, Matches, Streams, Logs
  <2>4. Q!CountOf(shown, "call") = Many(log, st.last, "call") /\ Q!CountOf(shown, "result") = Many(log, st.last, "result")
    <3>1. "call" \in Events /\ "result" \in Events
      BY DEF Events
    <3> QED BY <2>1, <2>2, <2>3, <3>1, CountIs
  <2>5. Cardinality({i \in DOMAIN st.steps : st.steps[i]}) = Cardinality(Ticked(st.steps))
    BY Zenon DEF Ticked
  <2> QED BY <2>1, <2>2, <2>4, <2>5 DEF StreamFits, Matches
<1> QED BY StreamStart, StreamSteps, <1>1, PTL DEF Q!ChatSpec

-----------------------------------------------------------------------------
(* The types of the composer's thread and of the streams' (ChatProofs). *)

CT == INSTANCE ChatProofs WITH
  PageSize <- EventPage,
  text <- v1, token <- v2, pending <- v3, asking <- v4, rows <- v5, list <- v6, listing <- v7,
  stream <- v8, paging <- v9, submits <- v10, meant <- v11, asks <- v12
QT == INSTANCE ChatProofs WITH
  Texts <- StreamTexts, MaxQuestions <- StreamQuestions, MaxSubmits <- StreamSubmits,
  MaxEvents <- StreamEvents, PageSize <- EventPage,
  text <- v1, token <- v2, pending <- v3, asking <- v4, rows <- v5, list <- v6, listing <- v7,
  stream <- v8, paging <- v9, submits <- v10, meant <- v11, asks <- v12

\* Both are the module that ChatProofs is about.
LEMMA ComposerTypes == ASSUME C!ChatConstants PROVE C!ChatSpec => []C!ChatTypeOK
<1>1. CT!ChatConstants
  BY Zenon DEF C!ChatConstants, CT!ChatConstants
<1>2. C!ChatInit => CT!ChatInit
  BY Zenon
  DEF C!ChatInit, CT!ChatInit, C!NoText, CT!NoText, C!None, CT!None, C!EMPTY_STREAM, CT!EMPTY_STREAM, C!Questions,
      CT!Questions
<1>3. C!ChatNext => CT!ChatNext
  BY Zenon
  DEF C!NoText, CT!NoText, C!None, CT!None, C!EMPTY_STREAM, CT!EMPTY_STREAM, C!Questions, CT!Questions, C!Statuses,
      CT!Statuses, C!isLiveQuestion, CT!isLiveQuestion, C!composer, CT!composer, C!reads, CT!reads, C!Type, CT!Type,
      C!Disabled, CT!Disabled, C!Submit, CT!Submit, C!Create, CT!Create, C!Invalidated, CT!Invalidated, C!Made,
      CT!Made, C!NotMade, CT!NotMade, C!Asked, CT!Asked, C!Cancel, CT!Cancel, C!Logs, CT!Logs, C!Started, CT!Started,
      C!Latest, CT!Latest, C!CountOf, CT!CountOf, C!Agent, CT!Agent, C!PollList, CT!PollList, C!ListRead,
      CT!ListRead, C!ListLands, CT!ListLands, C!ListFails, CT!ListFails, C!PollEvents, CT!PollEvents, C!EventsStatus,
      CT!EventsStatus, C!EventsPage, CT!EventsPage, C!Fold, CT!Fold, C!reduceEvents, CT!reduceEvents, C!EventsLand,
      CT!EventsLand, C!EventsFail, CT!EventsFail, C!AgentStep, CT!AgentStep, C!ChatNext, CT!ChatNext, C!Cardinality, CT!Cardinality
<1>4. [C!ChatNext]_(C!chatVars) => [CT!ChatNext]_(CT!chatVars)
  BY <1>3, Zenon DEF C!chatVars, CT!chatVars
<1>5. CT!ChatTypeOK => C!ChatTypeOK
  BY Zenon
  DEF C!ChatTypeOK, CT!ChatTypeOK, C!NoText, CT!NoText, C!Statuses, CT!Statuses, C!Questions, CT!Questions
<1> QED BY <1>1, <1>2, <1>4, <1>5, CT!ChatHolds, PTL DEF C!ChatSpec, CT!ChatSpec

LEMMA StreamTypes == ASSUME Q!ChatConstants PROVE Q!ChatSpec => []Q!ChatTypeOK
<1>1. QT!ChatConstants
  BY Zenon DEF Q!ChatConstants, QT!ChatConstants
<1>2. Q!ChatInit => QT!ChatInit
  BY Zenon
  DEF Q!ChatInit, QT!ChatInit, Q!NoText, QT!NoText, Q!None, QT!None, Q!EMPTY_STREAM, QT!EMPTY_STREAM, Q!Questions,
      QT!Questions
<1>3. Q!ChatNext => QT!ChatNext
  BY Zenon
  DEF Q!NoText, QT!NoText, Q!None, QT!None, Q!EMPTY_STREAM, QT!EMPTY_STREAM, Q!Questions, QT!Questions, Q!Statuses,
      QT!Statuses, Q!isLiveQuestion, QT!isLiveQuestion, Q!composer, QT!composer, Q!reads, QT!reads, Q!Type, QT!Type,
      Q!Disabled, QT!Disabled, Q!Submit, QT!Submit, Q!Create, QT!Create, Q!Invalidated, QT!Invalidated, Q!Made,
      QT!Made, Q!NotMade, QT!NotMade, Q!Asked, QT!Asked, Q!Cancel, QT!Cancel, Q!Logs, QT!Logs, Q!Started, QT!Started,
      Q!Latest, QT!Latest, Q!CountOf, QT!CountOf, Q!Agent, QT!Agent, Q!PollList, QT!PollList, Q!ListRead,
      QT!ListRead, Q!ListLands, QT!ListLands, Q!ListFails, QT!ListFails, Q!PollEvents, QT!PollEvents, Q!EventsStatus,
      QT!EventsStatus, Q!EventsPage, QT!EventsPage, Q!Fold, QT!Fold, Q!reduceEvents, QT!reduceEvents, Q!EventsLand,
      QT!EventsLand, Q!EventsFail, QT!EventsFail, Q!AgentStep, QT!AgentStep, Q!ChatNext, QT!ChatNext, Q!Cardinality, QT!Cardinality
<1>4. [Q!ChatNext]_(Q!chatVars) => [QT!ChatNext]_(QT!chatVars)
  BY <1>3, Zenon DEF Q!chatVars, QT!chatVars
<1>5. QT!ChatTypeOK => Q!ChatTypeOK
  BY Zenon
  DEF Q!ChatTypeOK, QT!ChatTypeOK, Q!NoText, QT!NoText, Q!Statuses, QT!Statuses, Q!Questions, QT!Questions
<1> QED BY <1>1, <1>2, <1>4, <1>5, QT!ChatHolds, PTL DEF Q!ChatSpec, QT!ChatSpec

-----------------------------------------------------------------------------
(* The console: a behaviour is of the part that it starts with, so what holds *)
(* of a part holds of it.                                                    *)

LEMMA FormsBegin ==
  Init => /\ part = "uploads" => U!UploadInit
          /\ part = "revision" => R!RevisionInit
          /\ part = "tour" => T!TourInit
          /\ part = "composer" => C!ChatInit
          /\ part = "stream" => Q!ChatInit
BY DEF Init, Starts

LEMMA FormsGoOn ==
  [Next]_vars => /\ (part = "uploads")' <=> part = "uploads"
                 /\ part = "uploads" => [U!UploadNext]_(U!uploadVars)
                 /\ (part = "revision")' <=> part = "revision"
                 /\ part = "revision" => [R!RevisionNext]_(R!revisionVars)
                 /\ (part = "tour")' <=> part = "tour"
                 /\ part = "tour" => [T!TourNext]_(T!tourVars)
                 /\ (part = "composer")' <=> part = "composer"
                 /\ part = "composer" => [C!ChatNext]_(C!chatVars)
                 /\ (part = "stream")' <=> part = "stream"
                 /\ part = "stream" => [Q!ChatNext]_(Q!chatVars)
<1>1. CASE UNCHANGED vars
  BY <1>1 DEF vars, after5, after6, after9, after11, after12, U!uploadVars, R!revisionVars, T!tourVars, C!chatVars,
              Q!chatVars
<1>2. CASE Next
  BY <1>2 DEF Next, Is
<1> QED BY <1>1, <1>2

\* A card says it is done only of bytes that are in, and read since: whatever
\* the batches, the retries, the others and the order of the answers.
THEOREM CardsTellTheTruth ==
  ASSUME U!UploadConstants
  PROVE  Spec => []DoneIsUploaded
<1>1. DoneIsUploaded <=> (part = "uploads" => U!DoneIsUploaded)
  BY DEF DoneIsUploaded
<1> QED BY FormsBegin, FormsGoOn, UploadsHold, <1>1, PTL DEF Spec, U!UploadSpec

\* Every version asked for is of a batch that a clean preview checked whole,
\* however items are staged, calls answered and the tab left.
THEOREM VersionsWerePreviewed ==
  ASSUME R!RevisionConstants
  PROVE  Spec => []CreatedWasPreviewed
<1>1. CreatedWasPreviewed <=> (part = "revision" => R!CreatedWasPreviewed)
  BY DEF CreatedWasPreviewed
<1> QED BY FormsBegin, FormsGoOn, PreviewsHold, <1>1, PTL DEF Spec, R!RevisionSpec

\* While the tab stays open, each clean preview makes one version at most.
THEOREM PreviewsPay ==
  ASSUME R!RevisionConstants
  PROVE  Spec => []OneVersionEach
<1>1. OneVersionEach <=> (part = "revision" => R!OneVersionEach)
  BY DEF OneVersionEach
<1> QED BY FormsBegin, FormsGoOn, PaymentsHold, <1>1, PTL DEF Spec, R!RevisionSpec

\* Whatever fails, is lost, is left and tried again, the tab makes one of each.
THEOREM TourMakesOne ==
  ASSUME T!TourConstants
  PROVE  Spec => []MakesOne
<1>1. MakesOne <=> (part = "tour" => T!MakesOne)
  BY DEF MakesOne
<1> QED BY FormsBegin, FormsGoOn, TourHolds, <1>1, PTL DEF Spec, T!TourSpec

\* However often an ask is submitted again, one question is made of it.
THEOREM AskedIsMadeOnce == Spec => []AskedOnce
<1>1. AskedOnce <=> (part = "composer" => C!AskedOnce)
  BY DEF AskedOnce
<1> QED BY FormsBegin, FormsGoOn, ComposerHolds, <1>1, PTL DEF Spec, C!ChatSpec

\* A question's stream shows the latest attempt of its log, each event once,
\* and one no longer polled all of it.
THEOREM StreamsAreTheirLog ==
  ASSUME Q!ChatConstants
  PROVE  Spec => []StreamIsTheLog
<1>1. StreamIsTheLog <=> (part = "stream" => Q!StreamIsTheLog)
  BY DEF StreamIsTheLog
<1> QED BY FormsBegin, FormsGoOn, StreamsHold, <1>1, PTL DEF Spec, Q!ChatSpec

\* The types of the forms' parts: among them, no more is asked, submitted,
\* tried or left than is counted, no question is listed that the service has
\* not, and no stream is ahead of its log.
THEOREM FormsAreTyped ==
  ASSUME U!UploadConstants, R!RevisionConstants, T!TourConstants, C!ChatConstants, Q!ChatConstants
  PROVE  Spec => [](part \in {"uploads", "revision", "tour", "composer", "stream"} => TypesOK)
<1>1. part = "uploads" /\ U!UploadTypeOK => TypesOK
  BY DEF TypesOK
<1>2. part = "revision" /\ R!RevisionTypeOK => TypesOK
  BY DEF TypesOK
<1>3. part = "tour" /\ T!TourTypeOK => TypesOK
  BY DEF TypesOK
<1>4. part = "composer" /\ C!ChatTypeOK => TypesOK
  BY DEF TypesOK
<1>5. part = "stream" /\ Q!ChatTypeOK => TypesOK
  BY DEF TypesOK
<1>6. /\ (part = "uploads" => U!UploadTypeOK) /\ (part = "revision" => R!RevisionTypeOK)
      /\ (part = "tour" => T!TourTypeOK) /\ (part = "composer" => C!ChatTypeOK)
      /\ (part = "stream" => Q!ChatTypeOK)
      => (part \in {"uploads", "revision", "tour", "composer", "stream"} => TypesOK)
  BY <1>1, <1>2, <1>3, <1>4, <1>5, Zenon
<1> QED
  BY FormsBegin, FormsGoOn, UploadsHold, PreviewsHold, TourHolds, ComposerTypes, StreamTypes, <1>6, PTL
  DEF Spec, U!UploadSpec, R!RevisionSpec, T!TourSpec, C!ChatSpec, Q!ChatSpec
=============================================================================

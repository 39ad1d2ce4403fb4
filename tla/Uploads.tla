------------------------------ MODULE Uploads ------------------------------
(* The upload cards of a tab: each file is created as a document of the      *)
(* workspace under the card's token, its bytes PUT to storage, the upload    *)
(* completed; a card that failed is retried.  The workspace keeps one copy   *)
(* of any bytes, and others upload too.  Deleting documents is left out, and *)
(* so is the answer a completion gets whose document was deleted beside it.  *)
EXTENDS Naturals, FiniteSets

CONSTANTS
  Cards,       \* files chosen in this tab, a card and a token each
  BytesOf,     \* their contents
  Others,      \* the token of an upload made elsewhere
  BatchOf,     \* the cards chosen at once with each
  MaxTries     \* bound: runs of a card

\* Those chosen at once are one batch.
UploadConstants ==
  /\ BatchOf \in [Cards -> SUBSET Cards]
  /\ \A c \in Cards : c \in BatchOf[c] /\ \A d \in BatchOf[c] : BatchOf[d] = BatchOf[c]
  /\ MaxTries \in Nat \ {0}

Bytes == {BytesOf[c] : c \in Cards}
Tokens == Cards \cup {Others}

VARIABLES
  card,        \* per card: its step, the document's owner as the answer told, its runs
  doc,         \* per bytes, the workspace's document: whose it is, and its status
  stored,      \* bytes in storage
  counted,     \* per bytes, document_uploaded events
  stale        \* documents completed since the reads were invalidated
uploadVars == <<card, doc, stored, counted, stale>>

NoDoc == [owner |-> "none", status |-> "none"]
Running == {"checking", "uploading", "completing"}
Ended == {"done", "failed"}

UploadInit ==
  /\ card = [c \in Cards |-> [step |-> "idle", theirs |-> FALSE, tries |-> 0, at |-> "none", kind |-> "none"]]
  /\ doc = [b \in Bytes |-> NoDoc] /\ stored = {}
  /\ counted = [b \in Bytes |-> 0] /\ stale = {}

\* add: a batch of files, run together.
Add(batch) ==
  /\ \A c \in batch : card[c].step = "idle"
  /\ card' = [c \in Cards |-> IF c \in batch THEN [card[c] EXCEPT !.step = "checking", !.tries = 1] ELSE card[c]]
  /\ UNCHANGED <<doc, stored, counted, stale>>

retried(c) == card[c].tries > 1

\* The service: the document of the token or of the bytes, else a new one;
\* with a URL to upload to while its bytes are not in.
CreateDocument(c) ==
  LET b == BytesOf[c] IN
  /\ card[c].step = "checking" /\ card[c].at = "none"
  /\ doc' = IF doc[b] = NoDoc THEN [doc EXCEPT ![b] = [owner |-> c, status |-> "pending"]] ELSE doc
  /\ card' = [card EXCEPT ![c].at = IF doc[b] = NoDoc THEN "created" ELSE "existing",
                          ![c].kind = doc'[b].status]
  /\ UNCHANGED <<stored, counted, stale>>

\* The run of a card ends: counted unless it found another's document; the
\* reads start again once its batch has ended and one of it is done.
Batch(c) == IF retried(c) THEN {c} ELSE {d \in BatchOf[c] : card[d].tries = 1}
\* Mutant: a batch of which this one failed is not read again.
EndsBatchFault(c, step) == step = "done" /\ \A d \in Batch(c) \ {c} : card[d].step \in Ended
EndsBatch(c, step) ==
  /\ \A d \in Batch(c) \ {c} : card[d].step \in Ended
  /\ step = "done" \/ \E d \in Batch(c) \ {c} : card[d].step = "done"
End(c, step, theirs) ==
  LET b == BytesOf[c] IN
  /\ card' = [card EXCEPT ![c].step = step, ![c].at = "none", ![c].theirs = theirs]
  /\ counted' = IF step = "done" /\ ~theirs THEN [counted EXCEPT ![b] = @ + 1] ELSE counted
  /\ stale' = IF EndsBatch(c, step) THEN {} ELSE stale

\* The answer: another upload's document, unless this is the card's retry;
\* nothing to upload, or its bytes go to the URL.
Created(c) ==
  LET theirs == card[c].at = "existing" /\ ~retried(c) IN
  /\ card[c].step = "checking" /\ card[c].at # "none"
  /\ IF card[c].kind = "uploaded" THEN End(c, "done", theirs)
     ELSE /\ card' = [card EXCEPT ![c].step = "uploading", ![c].at = "none", ![c].theirs = theirs]
          /\ UNCHANGED <<counted, stale>>
  /\ UNCHANGED <<doc, stored>>

\* putBytes, then the complete call.
PutBytes(c) ==
  /\ card[c].step = "uploading"
  /\ stored' = stored \cup {BytesOf[c]}
  /\ card' = [card EXCEPT ![c].step = "completing"]
  /\ UNCHANGED <<doc, counted, stale>>

\* The service checks what is in storage; completing again is no error.
Complete(c) ==
  LET b == BytesOf[c] IN
  /\ card[c].step = "completing" /\ card[c].at = "none" /\ b \in stored
  /\ doc' = [doc EXCEPT ![b].status = "uploaded"]
  /\ card' = [card EXCEPT ![c].at = "completed"]
  /\ stale' = IF doc[b].status = "uploaded" THEN stale ELSE stale \cup {b}
  /\ UNCHANGED <<stored, counted>>

Completed(c) ==
  /\ card[c].step = "completing" /\ card[c].at = "completed"
  /\ End(c, "done", card[c].theirs)
  /\ UNCHANGED <<doc, stored>>

\* A step failed, or its answer was lost, whatever the service had done.
Fails(c) ==
  /\ card[c].step \in {"checking", "uploading", "completing"}
  /\ End(c, "failed", card[c].theirs)
  /\ UNCHANGED <<doc, stored>>

\* retry: the same token again.
Retry(c) ==
  /\ card[c].step = "failed" /\ card[c].tries < MaxTries
  /\ card' = [card EXCEPT ![c].step = "checking", ![c].tries = @ + 1]
  /\ UNCHANGED <<doc, stored, counted, stale>>

\* The same bytes, uploaded elsewhere: its own tab counts them.
Elsewhere(b) ==
  /\ \/ /\ doc[b] = NoDoc
        /\ doc' = [doc EXCEPT ![b] = [owner |-> Others, status |-> "pending"]]
        /\ counted' = [counted EXCEPT ![b] = @ + 1]
        /\ UNCHANGED stored
     \/ /\ doc[b].owner = Others /\ doc[b].status = "pending"
        /\ stored' = stored \cup {b}
        /\ doc' = [doc EXCEPT ![b].status = "uploaded"]
        /\ UNCHANGED counted
  /\ UNCHANGED <<card, stale>>

UploadNext ==
  \/ \E c \in Cards : Add(BatchOf[c])
  \/ \E c \in Cards : CreateDocument(c) \/ Created(c) \/ PutBytes(c) \/ Complete(c) \/ Completed(c) \/ Fails(c) \/ Retry(c)
  \/ \E b \in Bytes : Elsewhere(b)
UploadSpec == UploadInit /\ [][UploadNext]_uploadVars

-----------------------------------------------------------------------------
UploadTypeOK ==
  /\ card \in [Cards -> [step : {"idle"} \cup Running \cup Ended, theirs : BOOLEAN, tries : 0..MaxTries,
                         at : {"none", "created", "existing", "completed"}, kind : {"none", "pending", "uploaded"}]]
  /\ \A b \in Bytes : doc[b] = NoDoc \/ doc[b] \in [owner : Tokens \cup {Others}, status : {"pending", "uploaded"}]
  /\ stored \subseteq Bytes /\ stale \subseteq Bytes

\* A card says it is done only of a document whose bytes are in, whoever
\* uploaded them, in whatever order; once nothing runs, the lists have been
\* read again since.
DoneIsUploaded ==
  \A c \in Cards : card[c].step = "done" =>
    /\ doc[BytesOf[c]].status = "uploaded" /\ BytesOf[c] \in stored
    /\ (\A d \in Cards : card[d].step \notin Running) => BytesOf[c] \notin stale

=============================================================================

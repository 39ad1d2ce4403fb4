------------------------------ MODULE DataTree ------------------------------
(* How a team arranges its connections (areas/data/use-tree.ts, layout.ts):  *)
(* one stored layout, which each page reads with its lists, changes at once  *)
(* on screen and saves one PUT at a time at the revision it read.  A refused *)
(* PUT reads everything again and makes the same change once more.  Sets and *)
(* documents, ordered the same way, are left out, as is a layout of another  *)
(* version, which nothing arranges.                                          *)
EXTENDS Naturals, Sequences, SequencesExt, FiniteSets

CONSTANTS
  Pages,         \* open pages, of people who may arrange
  MaxConnectors, \* bound: connectors, numbered as they are created
  KindOf,        \* Connectors -> Kinds
  KindOrder,     \* the kinds, in the WFE's order
  Folders, Names,
  First,         \* the connectors there are at first
  Start,         \* the layout stored at first
  Wanted,        \* the changes people make, of Changes
  MaxChanges,    \* bound: how many of them
  MaxMishaps     \* bound: lost writes, failed and repeated reads, connections deleted

None == "none"
Connectors == 1..MaxConnectors
Kinds == ToSet(KindOrder)
Keys == Kinds \cup Folders \cup {"documents"}
Holders == Kinds \cup Folders

VARIABLES
  stored,        \* the WFE's: [revision, layout]
  exists,        \* the connectors there are
  created,       \* those there ever were
  page,          \* what each page holds and does
  changes, mishaps   \* how many there were
treeVars == <<stored, exists, created, page, changes, mishaps>>

-----------------------------------------------------------------------------
(* The layout and its tree. *)

EMPTY_LAYOUT == [names |-> [k \in Keys |-> None], folders |-> <<>>, order |-> [k \in Holders \cup {"root"} |-> <<>>]]

\* The sequence s with only what is in S, and without what is in S.
Only(s, S) ==
  LET kept[i \in 0..Len(s)] ==
        IF i = 0 THEN <<>> ELSE IF s[i] \in S THEN Append(kept[i - 1], s[i]) ELSE kept[i - 1]
  IN  kept[Len(s)]
Without(s, S) == Only(s, ToSet(s) \ S)

Listed(layout, f) == ToSet(layout.order[f])
\* The connectors the folder f holds: those no folder before it lists.
Before(layout, f) == {i \in DOMAIN layout.folders : \A j \in 1..i : layout.folders[j] # f}
Held(layout, conns, f) ==
  Only(layout.order[f], conns \ UNION {Listed(layout, layout.folders[i]) : i \in Before(layout, f)})
Placed(layout) == UNION {Listed(layout, f) : f \in ToSet(layout.folders)}

inOrder(items, listed) == Only(listed, ToSet(items)) \o Without(items, ToSet(listed))
\* As the list has them: in the order of their creation.
Unplaced(layout, conns, k) == Only([c \in Connectors |-> c], {c \in conns \ Placed(layout) : KindOf[c] = k})
Items(layout, conns, k) ==
  IF k \in Kinds THEN inOrder(Unplaced(layout, conns, k), layout.order[k])
    ELSE IF k \in ToSet(layout.folders) THEN Held(layout, conns, k) ELSE <<>>
Filled(layout, conns) == {k \in Kinds : Items(layout, conns, k) # <<>>}
Root(layout, conns) ==
  inOrder(Only(KindOrder, Filled(layout, conns)) \o layout.folders \o <<"documents">>, layout.order["root"])

\* Without what the lists do not have: all of an order's ids that are not in
\* its container.
prune(layout, conns) ==
  LET held(k) == IF k = "root" THEN Kinds \cup ToSet(layout.folders) \cup {"documents"}
                               ELSE ToSet(Items(layout, conns, k))
  IN  [layout EXCEPT !.order = [k \in DOMAIN @ |-> Only(@[k], held(k))]]

placeBefore(ids, id, before) ==
  LET rest == Without(ids, {id})
      at == {i \in DOMAIN rest : rest[i] = before}
  IN  IF at = {} THEN Append(rest, id)
      ELSE LET i == CHOOSE i \in at : TRUE IN SubSeq(rest, 1, i - 1) \o <<id>> \o SubSeq(rest, i, Len(rest))

-----------------------------------------------------------------------------
(* Changes. *)

Moves ==
  [type : {"move-root"}, key : Keys, before : Keys \cup {None}]
    \cup [type : {"move-connector"}, id : Connectors, to : Folders \cup {None}, before : Connectors \cup {0}]
FolderChanges ==
  [type : {"create-folder", "rename"}, key : Folders, name : Names] \cup [type : {"delete-folder"}, key : Folders]
Renames == [type : {"rename"}, key : Kinds \cup {"documents"}, name : Names \cup {None}]
Changes == Moves \cup FolderChanges \cup Renames
\* An order lists what its container holds: folders, or connectors.
IsLayout(l) ==
  /\ l = [names |-> l.names, folders |-> l.folders, order |-> [k \in Holders \cup {"root"} |-> l.order[k]]]
  /\ l.names \in [Keys -> Names \cup {None}] /\ l.folders \in Seq(Folders)
  /\ l.order["root"] \in Seq(Keys) /\ \A k \in Holders : l.order[k] \in Seq(Connectors)
\* The keys of kinds, folders, documents/ and the root are told apart.
DataTreeConstants ==
  /\ MaxConnectors \in Nat /\ KindOrder \in Seq(Kinds) /\ KindOf \in [Connectors -> Kinds]
  /\ Kinds \cap Folders = {} /\ Holders \cap {"documents", "root", None} = {}
  /\ First \subseteq Connectors /\ IsLayout(Start) /\ Wanted \subseteq Changes
  /\ MaxChanges \in Nat /\ MaxMishaps \in Nat

\* A shown folder's name may not be another's; None is a built-in folder's own.
Free(layout, conns, key, name) ==
  name = None \/ \A k \in ToSet(Root(layout, conns)) \ {key} : layout.names[k] # name
Home(c, change) == IF change.to = None THEN KindOf[c] ELSE change.to

\* The layouts a change makes of a pruned one: none when it can't be made.
Applied(base, conns, change) ==
  LET root == Root(base, conns) IN
  CASE change.type = "move-root" ->
         {[base EXCEPT !.order["root"] = placeBefore(root, change.key, change.before)] : x \in {change.key} \cap ToSet(root)}
    [] change.type = "move-connector" ->
         LET to == Home(change.id, change)
             from == CHOOSE k \in Holders : change.id \in ToSet(Items(base, conns, k))
             left == IF from = to THEN base.order
                     ELSE [base.order EXCEPT ![from] = Without(@, {change.id})]
         IN  IF change.id \in conns /\ (change.to = None \/ to \in ToSet(base.folders))
               THEN {[base EXCEPT !.order = [left EXCEPT ![to] = placeBefore(Items(base, conns, to), change.id, change.before)]]}
               ELSE {}
    [] change.type = "create-folder" ->
         IF change.key \notin ToSet(base.folders) /\ Free(base, conns, change.key, change.name)
           THEN {[base EXCEPT !.folders = Append(@, change.key), !.names[change.key] = change.name]}
           ELSE {}
    [] change.type = "rename" ->
         IF (change.key \in Folders => change.key \in ToSet(base.folders)) /\ Free(base, conns, change.key, change.name)
           THEN {[base EXCEPT !.names[change.key] = change.name]}
           ELSE {}
    [] change.type = "delete-folder" ->
         IF change.key \in ToSet(base.folders)
           THEN {[names |-> [base.names EXCEPT ![change.key] = None],
                  folders |-> Without(base.folders, {change.key}),
                  order |-> [base.order EXCEPT ![change.key] = <<>>, !["root"] = Without(@, {change.key})]]}
           ELSE {}
applyChange(layout, conns, change) == Applied(prune(layout, conns), conns, change)

-----------------------------------------------------------------------------
(* A page: the layout and the lists as it last read them, the changes shown  *)
(* before they are saved, the save under way and the layout's GET.           *)

Unread == [revision |-> 0, layout |-> EMPTY_LAYOUT]
\* need: what a save still reads again; known: the connectors its lists are of.
NoSave == [step |-> "idle", need |-> {}, read |-> Unread, lists |-> {}, known |-> {}]
Opened == [read |-> Unread, isSuccess |-> FALSE, lists |-> {}, listed |-> FALSE, missed |-> {},
           pending |-> <<>>, save |-> NoSave, get |-> "asked", answer |-> Unread]
Init ==
  /\ stored = [revision |-> 1, layout |-> Start] /\ exists = First /\ created = First
  /\ page = [t \in Pages |-> Opened] /\ changes = 0 /\ mishaps = 0

ready(p) == p.isSuccess /\ p.listed
Made(layout, conns, ch) ==
  LET made == applyChange(layout, conns, ch) IN IF made = {} THEN layout ELSE CHOOSE l \in made : TRUE
\* The layout read with every change still saving applied on top.
Shown(p) == FoldLeft(LAMBDA l, ch : Made(l, p.lists, ch), p.read.layout, p.pending)

Becomes(t, p) == page' = [page EXCEPT ![t] = p]
Settled(p) == [p EXCEPT !.pending = Tail(@), !.save = NoSave]
\* A toast says why, and the layout is read again, whatever read is under way.
Undone(p) == [Settled(p) EXCEPT !.get = "asked", !.answer = Unread]

change(t, ch) ==
  LET p == page[t] IN
  /\ ready(p)
  /\ applyChange(Shown(p), p.lists, ch) \notin {{}, {prune(Shown(p), p.lists)}}
  /\ Becomes(t, [p EXCEPT !.pending = Append(@, ch)])
  /\ UNCHANGED <<stored, exists, created>>

Written(s, ch) == applyChange(s.read.layout, s.lists, ch)
\* save's first write: of the layout and the lists the page has.
Save(t) ==
  LET p == page[t]
      s == [step |-> "put", need |-> {}, read |-> p.read, lists |-> p.lists, known |-> exists \ p.missed]
  IN
  /\ p.save.step = "idle" /\ p.pending # <<>>
  /\ Becomes(t, IF ready(p) /\ Written(s, Head(p.pending)) # {} THEN [p EXCEPT !.save = s] ELSE Undone(p))
  /\ UNCHANGED <<stored, exists, created>>
\* Its second, of what it read again.
SaveAgain(t) ==
  LET p == page[t] IN
  /\ p.save.step = "read-again" /\ p.save.need = {}
  /\ Becomes(t, IF Written(p.save, Head(p.pending)) # {} THEN [p EXCEPT !.save.step = "put-again"] ELSE Undone(p))
  /\ UNCHANGED <<stored, exists, created>>

\* The WFE stores what was made of the revision it holds ...
PutDataLayout(t) ==
  LET p == page[t] IN
  /\ p.save.step \in {"put", "put-again"} /\ p.save.read.revision = stored.revision
  /\ stored' = [revision |-> stored.revision + 1, layout |-> Made(p.save.read.layout, p.save.lists, Head(p.pending))]
  /\ Becomes(t, [p EXCEPT !.save.step = "saved"])
  /\ UNCHANGED <<exists, created>>
\* ... and refuses any other.  The first time everything is read again, by the
\* GET under way if there is one.
Stale(t) ==
  LET p == page[t] IN
  /\ p.save.step \in {"put", "put-again"} /\ p.save.read.revision # stored.revision
  /\ Becomes(t, IF p.save.step = "put-again" THEN Undone(p)
                ELSE [p EXCEPT !.save.step = "read-again", !.save.need = {"layout", "lists"},
                               !.get = IF @ = "none" THEN "asked" ELSE @])
  /\ UNCHANGED <<stored, exists, created>>
Saved(t) ==
  LET p == page[t]
      layout == Made(p.save.read.layout, p.save.lists, Head(p.pending))
  IN
  /\ p.save.step = "saved"
  /\ Becomes(t, [Settled(p) EXCEPT !.read = [revision |-> p.save.read.revision + 1, layout |-> layout],
                                   !.isSuccess = TRUE])
  /\ UNCHANGED <<stored, exists, created>>
\* The write, or its answer, is lost.
SaveFails(t) ==
  /\ page[t].save.step \in {"put", "put-again", "saved"}
  /\ Becomes(t, Undone(page[t]))
  /\ UNCHANGED <<stored, exists, created>>

-----------------------------------------------------------------------------
(* Reads. *)

Refocus(t) ==
  /\ page[t].get = "none"
  /\ Becomes(t, [page[t] EXCEPT !.get = "asked"])
  /\ UNCHANGED <<stored, exists, created>>
GetDataLayout(t) ==
  /\ page[t].get = "asked"
  /\ Becomes(t, [page[t] EXCEPT !.get = "answered", !.answer = stored])
  /\ UNCHANGED <<stored, exists, created>>
\* Fault: what is made again is what the page had.
LayoutReadFault(t) ==
  LET p == page[t]
      r == [p EXCEPT !.read = p.answer, !.isSuccess = TRUE, !.get = "none", !.answer = Unread]
  IN
  /\ p.get = "answered"
  /\ Becomes(t, IF "layout" \in p.save.need
                  THEN [r EXCEPT !.save.need = @ \ {"layout"}, !.save.read.revision = p.answer.revision] ELSE r)
  /\ UNCHANGED <<stored, exists, created>>
LayoutRead(t) ==
  LET p == page[t]
      r == [p EXCEPT !.read = p.answer, !.isSuccess = TRUE, !.get = "none", !.answer = Unread]
  IN
  /\ p.get = "answered"
  /\ Becomes(t, IF "layout" \in p.save.need
                  THEN [r EXCEPT !.save.need = @ \ {"layout"}, !.save.read = p.answer] ELSE r)
  /\ UNCHANGED <<stored, exists, created>>
\* A failed read keeps the data and isn't a success.
LayoutUnread(t) ==
  LET p == [page[t] EXCEPT !.isSuccess = FALSE, !.get = "none", !.answer = Unread] IN
  /\ page[t].get # "none"
  /\ Becomes(t, IF "layout" \in p.save.need THEN Undone(p) ELSE p)
  /\ UNCHANGED <<stored, exists, created>>
ListsRead(t) ==
  LET p == page[t]
      r == [p EXCEPT !.lists = exists, !.listed = TRUE, !.missed = {}]
  IN
  /\ Becomes(t, IF "lists" \in p.save.need
                  THEN [r EXCEPT !.save.need = @ \ {"lists"}, !.save.lists = exists, !.save.known = exists] ELSE r)
  /\ UNCHANGED <<stored, exists, created>>
ListsUnread(t) ==
  LET p == [page[t] EXCEPT !.listed = FALSE] IN
  /\ Becomes(t, IF "lists" \in p.save.need THEN Undone(p) ELSE p)
  /\ UNCHANGED <<stored, exists, created>>

\* Elsewhere, someone connects data or deletes a connection.
Connect ==
  /\ \E c \in Connectors \ created :
       /\ \A d \in Connectors \ created : c <= d
       /\ exists' = exists \cup {c} /\ created' = created \cup {c}
       /\ page' = [t \in Pages |-> [page[t] EXCEPT !.missed = @ \cup {c}]]
  /\ UNCHANGED stored
Disconnect ==
  /\ \E c \in exists : exists' = exists \ {c}
  /\ UNCHANGED <<stored, created, page>>

PageStep(t) ==
  Save(t) \/ SaveAgain(t) \/ PutDataLayout(t) \/ Stale(t) \/ Saved(t) \/ GetDataLayout(t) \/ LayoutRead(t) \/ ListsRead(t)
Mishap(t) == SaveFails(t) \/ Refocus(t) \/ LayoutUnread(t) \/ ListsUnread(t)
TreeNext ==
  \/ UNCHANGED <<changes, mishaps>> /\ (Connect \/ \E t \in Pages : PageStep(t))
  \/ changes < MaxChanges /\ changes' = changes + 1 /\ UNCHANGED mishaps /\ \E t \in Pages, ch \in Wanted : change(t, ch)
  \/ mishaps < MaxMishaps /\ mishaps' = mishaps + 1 /\ UNCHANGED changes /\ (Disconnect \/ \E t \in Pages : Mishap(t))
TreeSpec == Init /\ [][TreeNext]_treeVars

-----------------------------------------------------------------------------
(* Properties. *)

TreeTypeOK ==
  /\ stored.revision \in 1..MaxChanges + 1 /\ exists \subseteq created /\ created \subseteq Connectors
  /\ \A t \in Pages : page[t].lists \subseteq created /\ Len(page[t].pending) <= MaxChanges
                      /\ page[t].read.revision <= stored.revision
  /\ changes \in 0..MaxChanges /\ mishaps \in 0..MaxMishaps

SameOrder(a, b, moved) ==
  LET both == (ToSet(a) \cap ToSet(b)) \ moved IN Only(a, both) = Only(b, both)
\* id is where it was put: just before `before`, or last.
IsBefore(ids, id, before, none) ==
  /\ id \in ToSet(ids)
  /\ before \in ToSet(ids) \ {id} => \E i \in DOMAIN ids : i > 1 /\ ids[i] = before /\ ids[i - 1] = id
  /\ before = none => Last(ids) = id

\* The tree the layout m shows is the one l shows with the change ch made of
\* it, and nothing else, as far as the connectors conns go.
MadeOf(l, m, conns, ch) ==
  LET moved == CASE ch.type = "move-connector" -> {ch.id}
                 [] ch.type = "delete-folder" -> ToSet(Items(l, conns, ch.key))
                 [] OTHER -> {}
      named == IF ch.type \in {"create-folder", "rename", "delete-folder"} THEN {ch.key} ELSE {}
  IN
  /\ \A k \in Holders : Without(Items(l, conns, k), moved) = Without(Items(m, conns, k), moved)
  /\ SameOrder(Root(l, conns), Root(m, conns), IF ch.type = "move-root" THEN {ch.key} ELSE {})
  /\ \A k \in Keys \ named : l.names[k] = m.names[k]
  /\ ToSet(m.folders) = CASE ch.type = "create-folder" -> ToSet(l.folders) \cup {ch.key}
                          [] ch.type = "delete-folder" -> ToSet(l.folders) \ {ch.key}
                          [] OTHER -> ToSet(l.folders)
  /\ ch.type \in {"create-folder", "rename"} =>
       m.names[ch.key] = ch.name /\ (ch.key \in ToSet(Root(l, conns)) \cup Folders => Free(l, conns, ch.key, ch.name))
  /\ (ch.type = "move-connector" /\ ch.id \in conns) =>
       IsBefore(Items(m, conns, Home(ch.id, ch)), ch.id, ch.before, 0)
  /\ (ch.type = "move-root" /\ ch.key \in ToSet(Root(l, conns))) => IsBefore(Root(m, conns), ch.key, ch.before, None)

\* Whoever else writes meanwhile, each write makes its own change of the tree
\* stored and nothing else: it undoes nobody's, of any connector its page's
\* lists were not too old to have.
WritesOnlyItsChange ==
  stored' # stored =>
    \E t \in Pages :
      /\ page[t].save.step \in {"put", "put-again"} /\ page'[t].save.step = "saved"
      /\ MadeOf(stored.layout, stored'.layout, exists \cap page[t].save.known, Head(page[t].pending))
=============================================================================

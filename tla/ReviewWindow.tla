---------------------------- MODULE ReviewWindow ----------------------------
(***************************************************************************)
(* The review window of the desktop client (features/review/Review.tsx and *)
(* ItemEditor.tsx): the cached details and summaries with their polls, the *)
(* item editor with its autosaved draft, navigation and application, over  *)
(* the review tables of the server, which other clients write too.         *)
(*                                                                         *)
(* A callback and the render it causes are one action, and a request is    *)
(* carried out and answered in separate actions wherever something can     *)
(* come between.  The editor that is rendered owns the variables of        *)
(* Autosave; revisions are numbered on from editor to editor, so MaxEdits  *)
(* bounds all edits.  A value stands for all the texts and tags of an      *)
(* item; no match is exact, and an item without unknown tags needs no      *)
(* taxonomy decision.                                                      *)
(***************************************************************************)
EXTENDS Autosave, FiniteSets

CONSTANTS
    Conspects,
    Items,
    ItemsOf,    \* the items of each conspect
    Terms,      \* the items that are terms; the others are thoughts
    Extracted,  \* the terms that each thought was extracted with
    Matched,    \* the items with a canonical match
    Tagged,     \* the items whose value has an unknown tag
    Typed,      \* the values a user may type
    MaxFaults   \* bound on requests that fail and on writes of the matches

None == "none"

\* Identifiers are UUIDs, and none is a word of the window's.
ASSUME WindowAssumption ==
    /\ {None, "summary"} \cap (Conspects \cup Items) = {}
    /\ ItemsOf \in [Conspects -> (SUBSET Items) \ {{}}]
    /\ \A c, k \in Conspects : c # k => ItemsOf[c] \cap ItemsOf[k] = {}
    /\ Terms \cup Matched \cup Tagged \subseteq Items
    /\ Extracted \in [Items -> SUBSET Terms]
    /\ Typed \subseteq {"edited", "blank"}
    /\ MaxFaults \in Nat

VARIABLES
    status,      \* conspects.status
    rows,        \* the review_items
    decided,     \* the items whose unknown tag has a taxonomy decision
    matched,     \* the graph version each conspect was prepared with
    graph,       \* the version of the matches in the graph
    details,     \* detailQuery.data of each conspect
    summaries,   \* summariesQuery.data
    unavailable, \* the queries that are loading or have failed
    poll,        \* the detail request in flight, with what it will answer
    list,        \* the summaries request in flight, likewise
    selectedId,
    page,        \* an item, "summary" or "none"
    orderedItems,\* orderedItems.current.conspect
    switching,   \* the move that waits for a flush
    apply,       \* the application request
    answered,    \* conspects whose application succeeded
    shown,       \* the item whose editor is rendered
    draft,       \* saver.value
    snapshot,    \* the draft persist() was called with
    request,     \* what persist() does next
    left,        \* saves of editors that are gone
    behind,      \* the row of the rendered item is not as its editor read or wrote it last
    faults

serverVars == <<status, rows, decided, matched, graph>>
cacheVars  == <<details, summaries, unavailable, poll, list>>
pageVars   == <<selectedId, page, orderedItems>>
draftVars  == <<draft, snapshot, request>>
editorVars == <<autosaveVars, draftVars, shown, left, behind>>
windowVars == <<serverVars, cacheVars, pageVars, switching, apply, answered,
                editorVars, faults>>

Editable    == {"review_pending", "ready_to_apply"}
Statuses    == Editable \cup {"preparing_review", "applied"}
Pending     == ""
Resolutions == {Pending, "create", "update", "keep_existing", "reject"}
Targeted(r) == r \in {"update", "keep_existing"}
Written(r)  == r \in {"create", "update"}
Values      == {"extracted", "edited", "blank", "canonical"}

\* target is the version of the match the decision was taken on, 0 without one.
Row   == [resolution : Resolutions, target : Nat, value : Values, related : SUBSET Terms]
Draft == [resolution : Resolutions, focused : BOOLEAN, value : Values, related : SUBSET Terms]
\* What persist() is about to do, or waits for.
Requests == {"tags", "decision", "refresh", "conflict"}
Steps    == Requests \cup {"nothing", "invalid"}
NoDraft == [resolution |-> Pending, focused |-> FALSE, value |-> "extracted", related |-> {}]

\* A save: the draft, the version of the match it saw, the latest draft of
\* the same editor, and whether a move waits for it.
Save == [item : Items, draft : Draft, version : Nat, last : Draft,
         request : Steps, resumes : BOOLEAN]

NoSave   == [item |-> None]
NoDetail == [status |-> None]
Detail(c) == [status  |-> status[c],  rows |-> [i \in ItemsOf[c] |-> rows[i]],
              matched |-> matched[c], decided |-> decided \cap ItemsOf[c]]
NoPoll  == [of |-> None]
NoList  == [of |-> None]
NoMove  == [kind |-> None]

ConspectOf(i) == CHOOSE c \in Conspects : i \in ItemsOf[c]
IsOpen(c)  == status[c] # "applied"
OpenList   == [of |-> "open", answer |-> {c \in Conspects : IsOpen(c)}]
Thought(i) == i \in Items \ Terms

-----------------------------------------------------------------------------
(* The server.                                                             *)

\* refreshReviewState
ReviewState(c, rw, dec) ==
    IF \A i \in ItemsOf[c] : /\ rw[i].resolution # Pending
                             /\ i \in Tagged /\ Written(rw[i].resolution) => i \in dec
    THEN "ready_to_apply" ELSE "review_pending"

\* A row whose decision is taken back.
Reopened(row) == [row EXCEPT !.resolution = Pending, !.target = 0]

\* rematchConflict
Rematched(c) ==
    /\ status' = [status EXCEPT ![c] = "preparing_review"]
    /\ rows' = [i \in Items |->
          IF i \in ItemsOf[c] /\ Targeted(rows[i].resolution)
          THEN Reopened(rows[i]) ELSE rows[i]]
    /\ UNCHANGED <<decided, matched, graph>>

Rejects(T) == \E i \in T : rows[i].resolution = "reject"

\* The decision of a save as SaveReviewDecision writes it; a rejected term
\* reopens the thoughts that relate to it.
Accepts(s) ==
    LET c == ConspectOf(s.item)
        d == s.draft
    IN  /\ status[c] \in Editable
        /\ Targeted(d.resolution) => s.version = graph
        /\ Thought(s.item) /\ d.resolution # "reject" => ~Rejects(d.related)

DecisionWritten(s) ==
    LET c == ConspectOf(s.item)
        d == s.draft
        row == [resolution |-> d.resolution,
                target |-> IF Targeted(d.resolution) THEN s.version ELSE 0,
                value  |-> CASE d.resolution = "reject"        -> rows[s.item].value
                             [] d.resolution = "keep_existing" -> "canonical"
                             [] OTHER                          -> d.value,
                related |-> d.related]
        reopened(i) == /\ s.item \in Terms /\ d.resolution = "reject"
                       /\ i \in ItemsOf[c] /\ Thought(i)
                       /\ rows[i].resolution \notin {Pending, "reject"}
                       /\ s.item \in rows[i].related
    IN  /\ rows' = [i \in Items |->
              IF i = s.item  THEN row
              ELSE IF reopened(i) THEN Reopened(rows[i])
              ELSE rows[i]]
        /\ status' = [status EXCEPT ![c] = ReviewState(c, rows', decided)]
        /\ UNCHANGED <<decided, matched, graph>>

Conflicts(s) ==
    /\ status[ConspectOf(s.item)] \in Editable
    /\ Targeted(s.draft.resolution) /\ s.version # graph

\* Saving the taxonomy decision for an item's unknown tag.
TagWritten(i) ==
    LET c == ConspectOf(i)
    IN  /\ status[c] \in Editable
        /\ decided' = decided \cup {i}
        /\ status'  = [status EXCEPT ![c] = ReviewState(c, rows, decided')]
        /\ UNCHANGED <<rows, matched, graph>>

-----------------------------------------------------------------------------
(* What is rendered.                                                       *)

Ready(d) ==
    /\ d.status = "ready_to_apply"
    /\ \A i \in DOMAIN d.rows : d.rows[i].resolution # Pending

\* The page that is shown, unless a query loads or has failed or the conspect
\* cannot be edited.
ShownPage ==
    IF /\ selectedId # None /\ unavailable = {}
       /\ details[selectedId].status \in Editable
    THEN page ELSE None

ShownItem ==
    IF ShownPage \in Items /\ page \in ItemsOf[selectedId] THEN page ELSE None

\* initialPage: the first item that is not resolved, or the first one.
InitialPages(d) ==
    LET open == {i \in DOMAIN d.rows : d.rows[i].resolution = Pending}
    IN  IF open = {} THEN DOMAIN d.rows ELSE open

\* The draft of a new editor.  The detail has no related_item_ids: the
\* relations are those of the extraction.
InitialDraft(i) ==
    IF i = None THEN NoDraft
    ELSE LET row == details[selectedId].rows[i]
         IN  [resolution |-> row.resolution, focused |-> row.target # 0,
              value |-> row.value, related |-> Extracted[i]]

\* Selection and page, and the effect that opens a conspect whose detail has
\* come for the first time since another one was open.
Opens(c, p, ordered) ==
    /\ selectedId' = c
    /\ IF c # None /\ details'[c] # NoDetail /\ ordered # c
       THEN orderedItems' = c /\ page' \in InitialPages(details'[c])
       ELSE orderedItems' = ordered /\ page' = p

\* A selection that is empty goes to a summary, as soon as there is one.
Selects(c, p, ordered) ==
    IF c = None /\ summaries' # {} THEN \E k \in summaries' : Opens(k, None, ordered)
                                   ELSE Opens(c, p, ordered)

\* The detail that an editor begins with is older than the row.
BeginsBehind == ShownItem # None /\ details[selectedId].rows[ShownItem] # rows[ShownItem]

\* What the SaveIndicator of the rendered editor shows.
Indicator ==
    IF saveStatus = "idle" /\ details[selectedId].rows[shown].resolution # Pending
    THEN "saved" ELSE saveStatus

SaveOf(d) == [item |-> shown, draft |-> d, version |-> details[selectedId].matched]

\* A move waits for the rendered editor, and not for a save that was left.
Waiting == switching # NoMove /\ ~ \E s \in left : s.resumes

\* A save that goes on without its editor, with a request in state r to come.
Leaving(s, r) ==
    {[item |-> s.item, draft |-> s.draft, version |-> s.version, last |-> draft,
      request |-> r, resumes |-> Waiting]}

OnItsWay == IF request # None THEN Leaving(snapshot, request) ELSE {}

\* Another editor, or none, takes the place of the one that is rendered; the
\* saves L go on.
Remount(L) ==
    /\ shown'  = ShownItem'
    /\ editor' = IF ShownItem' = None THEN "gone" ELSE "mounted"
    /\ draft'  = (InitialDraft(ShownItem))'
    /\ left'   = L
    /\ savedRevision' = revision
    /\ stored'  = revision
    /\ timer'   = "off"
    /\ flight'  = NoFlight
    /\ request' = None /\ snapshot' = NoSave
    /\ saveStatus' = "idle"
    /\ behind' = (BeginsBehind)'
    /\ UNCHANGED revision

\* The render after a change that is no business of the saver.
Rerenders == IF ShownItem' = shown THEN UNCHANGED editorVars ELSE Remount(left \cup OnItsWay)

\* The row of the rendered item may change without its editor.
FallsBehind == behind' = (behind \/ (shown # None /\ rows'[shown] # rows[shown]))

\* refresh(): the detail is read into the cache, and the summaries are asked
\* for again, which cancels a request for them in flight.
Caches(c) ==
    /\ details' = [k \in Conspects |-> IF k = c THEN (Detail(k))' ELSE details[k]]
    /\ list' = (OpenList)'
    /\ UNCHANGED <<summaries, unavailable, poll>>

-----------------------------------------------------------------------------
(* The user edits the rendered item.                                       *)

Edits(d) ==
    /\ Edit
    /\ draft' = d
    /\ UNCHANGED <<serverVars, cacheVars, pageVars, switching, apply, answered,
                   snapshot, request, shown, left, behind, faults>>

ChooseResolution ==
    \E r \in IF draft.focused THEN {"keep_existing", "update"} ELSE {"create", "reject"} :
        Edits([draft EXCEPT !.resolution = r])

EditValue ==
    /\ draft.resolution \notin {"keep_existing", "reject"}
    /\ \E v \in Typed \ {draft.value} :
          Edits([draft EXCEPT !.value = v,
                    !.resolution = IF @ # Pending THEN @ ELSE IF draft.focused THEN "update" ELSE "create"])

\* A match that is chosen again is left again; both ask for a new decision.
ChooseTarget ==
    /\ shown \in Matched
    /\ Edits([draft EXCEPT !.focused = ~@,
                 !.resolution = IF draft.focused /\ ~Targeted(@) THEN @ ELSE Pending])

ToggleRelationship ==
    /\ Thought(shown) /\ draft.resolution # "reject"
    /\ \E t \in Terms \cap ItemsOf[selectedId] :
          Edits([draft EXCEPT !.related = IF t \in @ THEN @ \ {t} ELSE @ \cup {t},
                              !.resolution = IF @ = Pending THEN "create" ELSE @])

-----------------------------------------------------------------------------
(* persist() of the rendered item.                                         *)

\* What persist() does first with draft d of item i.
FirstRequest(i, d) ==
    LET cached == details[ConspectOf(i)].rows
    IN  CASE d.resolution = Pending -> "nothing"
          [] /\ Thought(i) /\ d.resolution # "reject"
             /\ \E t \in d.related : cached[t].resolution = "reject" -> "invalid"
          [] Targeted(d.resolution) /\ ~d.focused -> "invalid"
          [] Written(d.resolution) /\ d.value = "blank" -> "invalid"
          [] Written(d.resolution) /\ i \in Tagged -> "tags"
          [] OTHER -> "decision"

\* The saver's flush, with the request it may start.
Flushes ==
    /\ Flush
    /\ IF flight = NoFlight /\ Dirty
       THEN request' = FirstRequest(shown, draft) /\ snapshot' = SaveOf(draft)
       ELSE UNCHANGED <<request, snapshot>>
    /\ UNCHANGED <<draft, shown, left, behind>>

Saves ==
    /\ editor = "mounted"
    /\ timer = "armed" \/ saveStatus = "failed"
    /\ Flushes
    /\ UNCHANGED <<serverVars, cacheVars, pageVars, switching, apply, answered, faults>>

\* Where a move leads: another item or the summary of the conspect, or another
\* conspect.
Goes(to) ==
    IF to.kind = "conspect"
    THEN /\ Opens(to.id, None, orderedItems)
    ELSE IF details[selectedId] # NoDetail THEN Opens(selectedId, to.page, orderedItems)
    ELSE UNCHANGED pageVars

\* Mutant of Resumes: a move goes on when one save has succeeded.
ResumesEarly == IF Waiting THEN Goes(switching) ELSE Opens(selectedId, page, orderedItems)

\* The drain is over if nothing was edited meanwhile, and a move that waits
\* for it goes on.
Resumes == IF revision = flight /\ Waiting THEN Goes(switching)
           ELSE Opens(selectedId, page, orderedItems)

\* A persist() that succeeded; the drain goes on with what is left to save.
PersistSucceeds ==
    /\ Resumes
    /\ switching' = IF revision = flight /\ Waiting THEN NoMove ELSE switching
    /\ IF ShownItem' = shown
       THEN /\ Settled
            /\ UNCHANGED <<revision, timer, editor, stored, draft, shown, left, behind>>
            /\ IF revision = flight
               THEN request' = None /\ snapshot' = NoSave
               ELSE request' = (FirstRequest(shown, draft))' /\ snapshot' = (SaveOf(draft))'
       ELSE Remount(IF revision = flight THEN left
                    ELSE left \cup Leaving(SaveOf(draft), FirstRequest(shown, draft)))
    /\ UNCHANGED <<apply, answered>>

\* Mutant of PersistFails: the move is not released.
PersistFailsBusy ==
    /\ UNCHANGED <<pageVars, switching, apply, answered>>
    /\ IF ShownItem' = shown
       THEN /\ Failed
            /\ request' = None /\ snapshot' = NoSave
            /\ UNCHANGED <<editor, stored, draft, shown, left, behind>>
       ELSE Remount(left)

\* A persist() that threw; a move that waits for it does not take place.
PersistFails ==
    /\ switching' = IF Waiting THEN NoMove ELSE switching
    /\ UNCHANGED <<pageVars, apply, answered>>
    /\ IF ShownItem' = shown
       THEN /\ Failed
            /\ request' = None /\ snapshot' = NoSave
            /\ UNCHANGED <<editor, stored, draft, shown, left, behind>>
       ELSE Remount(left)

\* persist() returns before a request: an undecided draft is not sent.
PersistNothing ==
    /\ request = "nothing"
    /\ UNCHANGED <<serverVars, cacheVars, faults>>
    /\ PersistSucceeds

PersistInvalid ==
    /\ request = "invalid"
    /\ UNCHANGED <<serverVars, cacheVars, faults>>
    /\ PersistFails

\* Mutant of PutTag: persist() is over when the tag is saved.
PutTagOnly ==
    /\ request = "tags"
    /\ TagWritten(shown)
    /\ Caches(selectedId)
    /\ UNCHANGED <<pageVars, switching, apply, answered, faults>>
    /\ IF ShownItem' = shown
       THEN /\ request' = "refresh"
            /\ UNCHANGED <<autosaveVars, draft, snapshot, shown, left, behind>>
       ELSE Remount(left \cup Leaving(snapshot, "refresh"))

\* saveTag and its refresh.
PutTag ==
    /\ request = "tags"
    /\ TagWritten(shown)
    /\ Caches(selectedId)
    /\ UNCHANGED <<pageVars, switching, apply, answered, faults>>
    /\ IF ShownItem' = shown
       THEN request' = "decision" /\ UNCHANGED <<autosaveVars, draft, snapshot, shown, left, behind>>
       ELSE Remount(left \cup Leaving(snapshot, "decision"))

PutDecision ==
    /\ request = "decision"
    /\ \/ /\ Accepts(snapshot) /\ DecisionWritten(snapshot)
          /\ Stored /\ behind' = FALSE
          /\ request' = "refresh"
       \/ /\ Conflicts(snapshot) /\ Rematched(selectedId)
          /\ FallsBehind
          /\ request' = "conflict" /\ UNCHANGED autosaveVars
    /\ UNCHANGED <<cacheVars, pageVars, switching, apply, answered, draft, snapshot,
                   shown, left, faults>>

\* The server refuses the save and is not changed.
PutRefused ==
    /\ \/ request = "tags" /\ status[selectedId] \notin Editable
       \/ request = "decision" /\ ~Accepts(snapshot) /\ ~Conflicts(snapshot)
    /\ UNCHANGED <<serverVars, cacheVars, faults>>
    /\ PersistFails

Refreshed ==
    /\ request = "refresh"
    /\ UNCHANGED <<serverVars, faults>>
    /\ Caches(selectedId)
    /\ PersistSucceeds

ConflictRefreshed ==
    /\ request = "conflict"
    /\ UNCHANGED <<serverVars, faults>>
    /\ Caches(selectedId)
    /\ PersistFails

\* A request of persist() fails, whether it was carried out or not.
RequestLost ==
    /\ request \in Requests
    /\ faults < MaxFaults
    /\ faults' = faults + 1
    /\ UNCHANGED <<serverVars, cacheVars>>
    /\ PersistFails

-----------------------------------------------------------------------------
(* Saves whose editor is gone.                                             *)

\* Save s is over; its drain goes on with the last draft, or a move that
\* waits for it does, unless it failed.
LeftEnds(s, ok) ==
    LET next == FirstRequest(s.item, s.last)
        more == IF ok /\ s.last # s.draft
                THEN {[s EXCEPT !.draft = s.last, !.request = next]} ELSE {}
        over == more = {} /\ s.resumes
    IN  /\ IF over /\ ok THEN Goes(switching) ELSE Opens(selectedId, page, orderedItems)
        /\ switching' = IF over THEN NoMove ELSE switching
        /\ IF ShownItem' = shown
           THEN /\ left' = (left \ {s}) \cup more
                /\ FallsBehind
                /\ UNCHANGED <<autosaveVars, draftVars, shown>>
           ELSE Remount((left \ {s}) \cup more \cup OnItsWay)
        /\ UNCHANGED <<apply, answered>>

\* Its next request is carried out and answered.
LeftGoesOn(s) ==
    LET c == ConspectOf(s.item)
    IN  /\ \/ /\ s.request = "tags" /\ TagWritten(s.item)
              /\ Caches(c)
              /\ UNCHANGED <<pageVars, switching, apply, answered>>
              /\ IF ShownItem' = shown
                 THEN /\ left' = (left \ {s}) \cup {[s EXCEPT !.request = "decision"]}
                      /\ UNCHANGED <<autosaveVars, draftVars, shown, behind>>
                 ELSE Remount((left \ {s}) \cup {[s EXCEPT !.request = "decision"]} \cup OnItsWay)
           \/ /\ s.request = "decision" /\ Accepts(s) /\ DecisionWritten(s)
              /\ Caches(c) /\ LeftEnds(s, TRUE)
           \/ /\ s.request = "decision" /\ Conflicts(s) /\ Rematched(c)
              /\ Caches(c) /\ LeftEnds(s, FALSE)
           \/ /\ s.request \in {"refresh", "conflict"} /\ UNCHANGED serverVars
              /\ Caches(c) /\ LeftEnds(s, s.request = "refresh")
           \/ /\ s.request \in {"nothing", "invalid"} /\ UNCHANGED <<serverVars, cacheVars>>
              /\ LeftEnds(s, s.request = "nothing")
        /\ UNCHANGED faults

LeftRefused(s) ==
    /\ \/ s.request = "tags" /\ status[ConspectOf(s.item)] \notin Editable
       \/ s.request = "decision" /\ ~Accepts(s) /\ ~Conflicts(s)
    /\ UNCHANGED <<serverVars, cacheVars>>
    /\ LeftEnds(s, FALSE)
    /\ UNCHANGED faults

-----------------------------------------------------------------------------
(* Navigation.                                                             *)

Moves ==
    (IF selectedId = None \/ details[selectedId] = NoDetail THEN {}
     ELSE {[kind |-> "page", page |-> p] :
              p \in (ItemsOf[selectedId] \cup
                     IF Ready(details[selectedId]) THEN {"summary"} ELSE {}) \ {page}})
    \cup {[kind |-> "conspect", id |-> c] : c \in summaries \ {selectedId}}

\* move(): the editor is flushed first, and the move waits for a flight.
Move ==
    /\ switching = NoMove /\ apply = "idle"
    /\ UNCHANGED <<serverVars, cacheVars, apply, answered, faults>>
    /\ \E to \in Moves :
          IF editor = "mounted" /\ (flight # NoFlight \/ Dirty)
          THEN switching' = to /\ Flushes /\ UNCHANGED pageVars
          ELSE Goes(to) /\ Rerenders /\ UNCHANGED switching

-----------------------------------------------------------------------------
(* Polls: a request is answered with what the server held when it came.    *)

AskDetail ==
    /\ selectedId # None /\ poll = NoPoll
    /\ poll' = [of |-> selectedId, answer |-> Detail(selectedId)]
    /\ UNCHANGED <<serverVars, details, summaries, unavailable, list, pageVars,
                   switching, apply, answered, editorVars, faults>>

DetailAnswered ==
    /\ poll # NoPoll
    /\ poll' = NoPoll
    /\ details' = [details EXCEPT ![poll.of] = poll.answer]
    /\ unavailable' = IF poll.of = selectedId THEN unavailable \ {"detail"} ELSE unavailable
    /\ Opens(selectedId, page, orderedItems)
    /\ UNCHANGED <<serverVars, summaries, list, switching, apply, answered, faults>>
    /\ Rerenders

AskSummaries ==
    /\ list = NoList
    /\ list' = OpenList
    /\ UNCHANGED <<serverVars, details, summaries, unavailable, poll, pageVars,
                   switching, apply, answered, editorVars, faults>>

SummariesAnswered ==
    /\ list # NoList
    /\ list' = NoList
    /\ summaries' = list.answer
    /\ unavailable' = unavailable \ {"list"}
    /\ UNCHANGED <<details, poll>>
    /\ Selects(selectedId, page, orderedItems)
    /\ UNCHANGED <<serverVars, switching, apply, answered, faults>>
    /\ Rerenders

\* A poll has failed, with its retries; the data it had are kept.
PollFailed ==
    /\ faults < MaxFaults
    /\ faults' = faults + 1
    /\ \/ /\ poll # NoPoll /\ poll' = NoPoll /\ UNCHANGED list
          /\ unavailable' = IF poll.of = selectedId THEN unavailable \cup {"detail"} ELSE unavailable
       \/ /\ list # NoList /\ list' = NoList /\ UNCHANGED poll
          /\ unavailable' = unavailable \cup {"list"}
    /\ UNCHANGED <<serverVars, details, summaries, pageVars, switching, apply, answered>>
    /\ Rerenders

-----------------------------------------------------------------------------
(* Application.                                                            *)

Apply ==
    /\ ShownPage = "summary" /\ Ready(details[selectedId])
    /\ switching = NoMove /\ apply = "idle"
    /\ apply' = "sent"
    /\ UNCHANGED <<serverVars, cacheVars, pageVars, switching, answered, editorVars, faults>>

\* ApplyConspect: done, in conflict with the graph, or not ready.  An update
\* raises the version; "applied" also stands for rejected as a whole.
ApplyConspect ==
    LET c == selectedId
        stale == \E i \in ItemsOf[c] : Targeted(rows[i].resolution) /\ rows[i].target # graph
    IN  /\ apply = "sent"
        /\ CASE status[c] = "ready_to_apply" /\ ~stale ->
                    /\ status' = [status EXCEPT ![c] = "applied"] /\ apply' = "done"
                    /\ graph' = IF \E i \in ItemsOf[c] : rows[i].resolution = "update"
                                THEN graph + 1 ELSE graph
                    /\ UNCHANGED <<rows, decided, matched>>
             [] status[c] = "ready_to_apply" /\ stale -> Rematched(c) /\ apply' = "refused"
             [] status[c] = "applied" -> apply' = "done" /\ UNCHANGED serverVars
             [] OTHER -> apply' = "refused" /\ UNCHANGED serverVars
        /\ UNCHANGED <<cacheVars, pageVars, switching, answered, editorVars, faults>>

\* Mutant of ApplySucceeded: the summaries are not asked for again.
ApplySucceededOnce ==
    LET c == selectedId
    IN  /\ apply = "done"
        /\ apply'     = "idle"
        /\ answered'  = answered \cup {c}
        /\ details'   = [details EXCEPT ![c] = NoDetail]
        /\ summaries' = summaries \ {c}
        /\ unavailable' = unavailable \ {"detail"}
        /\ poll' = IF poll # NoPoll /\ poll.of = c THEN NoPoll ELSE poll
        /\ UNCHANGED list
        /\ Selects(None, None, None)
        /\ UNCHANGED <<serverVars, switching, faults>>
        /\ Rerenders

\* onSuccess: the conspect leaves the cache, and the summaries are asked for
\* again, which cancels a request for them in flight.
ApplySucceeded ==
    LET c == selectedId
    IN  /\ apply = "done"
        /\ apply'     = "idle"
        /\ answered'  = answered \cup {c}
        /\ details'   = [details EXCEPT ![c] = NoDetail]
        /\ summaries' = summaries \ {c}
        /\ unavailable' = unavailable \ {"detail"}
        /\ list' = OpenList
        /\ poll' = IF poll # NoPoll /\ poll.of = c THEN NoPoll ELSE poll
        /\ Selects(None, None, None)
        /\ UNCHANGED <<serverVars, switching, faults>>
        /\ Rerenders

\* onError of a 409: the window goes to an item that is to be decided.
ApplyRefused ==
    /\ apply = "refused"
    /\ apply' = "idle"
    /\ UNCHANGED <<serverVars, switching, answered, faults>>
    /\ Caches(selectedId)
    /\ \E p \in InitialPages(details'[selectedId]) : Opens(selectedId, p, orderedItems)
    /\ Rerenders

ApplyLost ==
    /\ apply # "idle"
    /\ faults < MaxFaults
    /\ faults' = faults + 1
    /\ apply' = "idle"
    /\ UNCHANGED <<serverVars, cacheVars, pageVars, switching, answered, editorVars>>

-----------------------------------------------------------------------------
(* Other clients and the queue.                                            *)

\* The application of another conspect writes the matches.
MatchesWritten ==
    /\ faults < MaxFaults
    /\ faults' = faults + 1
    /\ graph' = graph + 1
    /\ UNCHANGED <<status, rows, decided, matched, cacheVars, pageVars, switching, apply,
                   answered, editorVars>>

\* Another client's call on the conspect meets a conflict.
OthersConflict(c) ==
    /\ status[c] \in Editable /\ matched[c] # graph
    /\ ItemsOf[c] \cap Matched # {}
    /\ Rematched(c)
    /\ FallsBehind
    /\ UNCHANGED <<cacheVars, pageVars, switching, apply, answered, autosaveVars, draftVars,
                   shown, left, faults>>

\* The preparation of the conspect ends.
Prepared(c) ==
    /\ status[c] = "preparing_review"
    /\ status'  = [status EXCEPT ![c] = ReviewState(c, rows, decided)]
    /\ matched' = [matched EXCEPT ![c] = graph]
    /\ UNCHANGED <<rows, decided, graph, cacheVars, pageVars, switching, apply, answered,
                   editorVars, faults>>

-----------------------------------------------------------------------------
WindowInit ==
    /\ status  = [c \in Conspects |-> "review_pending"]
    /\ rows    = [i \in Items |-> [resolution |-> Pending, target |-> 0, value |-> "extracted",
                                   related |-> Extracted[i]]]
    /\ decided = {}
    /\ matched = [c \in Conspects |-> 1]
    /\ graph   = 1
    /\ details = [c \in Conspects |-> NoDetail]
    /\ summaries   = {}
    /\ unavailable = {"list"}
    /\ poll = NoPoll
    /\ list = OpenList
    /\ selectedId \in Conspects \cup {None}
    /\ page = None
    /\ orderedItems = None
    /\ switching = NoMove
    /\ apply = "idle"
    /\ answered = {}
    /\ NewSaver /\ editor = "gone" /\ stored = 0
    /\ draft = NoDraft
    /\ snapshot = NoSave
    /\ request = None
    /\ shown = None
    /\ left = {}
    /\ behind = FALSE
    /\ faults = 0

UserStep ==
    \/ ChooseResolution \/ EditValue \/ ChooseTarget \/ ToggleRelationship
    \/ Saves \/ Move \/ Apply

PersistStep ==
    \/ PersistNothing \/ PersistInvalid \/ PutTag \/ PutDecision \/ PutRefused
    \/ Refreshed \/ ConflictRefreshed

ApplyStep == ApplyConspect \/ ApplySucceeded \/ ApplyRefused

WindowNext ==
    \/ UserStep \/ PersistStep \/ ApplyStep
    \/ RequestLost \/ ApplyLost \/ PollFailed
    \/ \E s \in left : LeftGoesOn(s) \/ LeftRefused(s)
    \/ AskDetail \/ DetailAnswered \/ AskSummaries \/ SummariesAnswered
    \/ MatchesWritten
    \/ \E c \in Conspects : OthersConflict(c) \/ Prepared(c)

WindowSpec == WindowInit /\ [][WindowNext]_windowVars

-----------------------------------------------------------------------------
(* Properties.                                                             *)

WindowTypeOK ==
    /\ AutosaveTypeOK
    /\ status \in [Conspects -> Statuses]
    /\ rows \in [Items -> Row]
    /\ decided \subseteq Items
    /\ selectedId \in Conspects \cup {None}
    /\ page \in Items \cup {"summary", None}
    /\ apply \in {"idle", "sent", "done", "refused"}
    /\ draft \in Draft
    /\ left \subseteq Save
    /\ request \in Steps \cup {None}
    /\ shown = ShownItem
    /\ flight # NoFlight <=> request # None
    /\ summaries \subseteq Conspects

\* The server has carried out the draft; an undecided one is not sent.
Kept == stored = revision \/ draft.resolution = Pending

\* An editor that has saved has nothing unsaved or on its way, and the server
\* has carried out the draft as it is shown, or the draft is undecided and
\* persist() sent nothing.
SavedWasWritten == saveStatus = "saved" => ~Dirty /\ flight = NoFlight /\ Kept

\* Where the indicator says "saved" of a decision, the row holds it with the
\* value the user sees, and with the relations if this editor saved them,
\* though a save is several requests that fail one by one and edits come in
\* between.  Excepted are editors whose row is not as they read or wrote it
\* last: another client wrote it, or a save that an earlier editor of this
\* window left behind, or the editor began with a detail that a late poll had
\* brought back.  In all three the indicator still says "saved".
IndicatorIsTrue ==
    (shown # None /\ Indicator = "saved" /\ ~behind /\ draft.resolution # Pending) =>
        /\ rows[shown].resolution = draft.resolution
        /\ Written(draft.resolution) => rows[shown].value = draft.value
        /\ saveStatus = "saved" => rows[shown].related = draft.related

\* A move leaves the editor that it flushed, and waits for, only when persist()
\* has carried out the latest edit, also one that was typed while the move
\* waited.  An editor that has taken that one's place is not waited for:
\* NavigationWaits.
MoveWaitsForItsEditor == [][
    (shown # None /\ <<selectedId, page>>' # <<selectedId, page>>
        /\ (Waiting \/ switching = NoMove)) => Kept]_windowVars

\* "Navigation waits for autosave" (frontend/desktop/README.md): no move leaves
\* an editor whose latest edit is not carried out.
NavigationWaits == [][
    (shown # None /\ <<selectedId, page>>' # <<selectedId, page>>) => Kept]_windowVars

\* An applied conspect does not come back: neither a summary nor the selection
\* brings it up again.
AppliedIsGone == answered \cap (summaries \cup {selectedId}) = {}

\* A move that waits is waited for: the save whose end lets it go on is under
\* way.
MoveIsPursued ==
    switching # NoMove =>
        \/ shown # None /\ flight # NoFlight
        \/ \E s \in left : s.resumes
=============================================================================

------------------------- MODULE ReviewWindowProofs -------------------------
(***************************************************************************)
(* Theorems about ReviewWindow, for any conspects and items and any number *)
(* of edits and faults: every property that a run checks of the window.    *)
(***************************************************************************)
EXTENDS ReviewWindow, TLAPS

-----------------------------------------------------------------------------
(* The inductive invariant, in parts.                                      *)

ServerOK ==
    /\ status  \in [Conspects -> Statuses]
    /\ rows    \in [Items -> Row]
    /\ decided \subseteq Items
    /\ matched \in [Conspects -> Nat]
    /\ graph   \in Nat

DetailsOf(c) == [status : Statuses, rows : [ItemsOf[c] -> Row], matched : Nat,
                 decided : SUBSET ItemsOf[c]]

CacheOK ==
    /\ DOMAIN details = Conspects
    /\ \A c \in Conspects : details[c] = NoDetail \/ details[c] \in DetailsOf(c)
    /\ summaries \subseteq Conspects
    /\ poll # NoPoll => poll.of \in Conspects /\ poll.answer \in DetailsOf(poll.of)
    /\ list # NoList => list.answer \subseteq Conspects

\* A page is one of a conspect that has been opened.
PageOK ==
    /\ selectedId \in Conspects \cup {None}
    /\ page \in Items \cup {"summary", None}
    /\ page # None => /\ selectedId # None /\ details[selectedId] # NoDetail
                      /\ orderedItems = selectedId

\* The row of item i says what draft d says.
Holds(i, d) ==
    /\ rows[i].resolution = d.resolution
    /\ Written(d.resolution) => rows[i].value = d.value
    /\ rows[i].related = d.related

\* The saver of the rendered editor.  The server never runs ahead of the draft,
\* a flight carries an edit that no request has succeeded with, and a draft
\* with nothing unsaved is carried out or undecided.
SaverOK ==
    /\ AutosaveTypeOK
    /\ stored <= revision /\ savedRevision <= revision
    /\ flight # NoFlight => /\ stored <= flight /\ savedRevision < flight /\ flight <= revision
                            /\ saveStatus # "idle"
    /\ ~Dirty => Kept
    /\ SavedWasWritten /\ UnsavedIsPursued

\* An editor whose row is as it read or wrote it last: it shows what it read
\* until the first edit, and what it wrote when it has saved.
ShownIsRow ==
    shown # None /\ ~behind =>
        /\ saveStatus = "idle" => /\ draft.resolution = rows[shown].resolution
                                  /\ draft.value = rows[shown].value
        /\ saveStatus = "saved" /\ draft.resolution # Pending => Holds(shown, draft)

\* A save under way is of the rendered item and, until the next edit, of the
\* draft as it is shown; before its refresh the server has carried it out.
SnapshotOK ==
    /\ snapshot.item = shown
    /\ snapshot.draft \in Draft
    /\ snapshot.version \in Nat
    /\ flight = revision => snapshot.draft = draft
    /\ request = "nothing" => snapshot.draft.resolution = Pending
    /\ request = "refresh" => stored = flight /\ (behind \/ Holds(shown, snapshot.draft))

EditorOK ==
    /\ shown = ShownItem
    /\ editor = IF shown = None THEN "gone" ELSE "mounted"
    /\ draft \in Draft
    /\ request \in Steps \cup {None}
    /\ flight # NoFlight <=> request # None
    /\ request # None => shown # None /\ SnapshotOK
    /\ left \subseteq Save

MoveType(to) ==
    \/ /\ to.kind = "page" /\ to.page \in Items \cup {"summary"}
       /\ selectedId # None /\ details[selectedId] # NoDetail
    \/ to.kind = "conspect" /\ to.id \in Conspects \ answered

\* A move that waits is waited for, by the rendered editor or by one save whose
\* editor is gone.
MoveOK ==
    /\ switching # NoMove => MoveType(switching)
    /\ \A s \in left : s.resumes => switching # NoMove
    /\ \A s, t \in left : s.resumes /\ t.resumes => s = t
    /\ MoveIsPursued

\* Nothing moves while the application is under way.
ApplyOK ==
    /\ apply \in {"idle", "sent", "done", "refused"}
    /\ apply # "idle" => page = "summary" /\ switching = NoMove
    /\ apply = "done" => status[selectedId] = "applied"

\* What has been applied stays so, and no answer on its way lists it.
GoneOK ==
    /\ answered \subseteq {c \in Conspects : status[c] = "applied"}
    /\ list # NoList => list.answer \cap answered = {}
    /\ AppliedIsGone

WindowInv ==
    /\ ServerOK /\ CacheOK /\ PageOK
    /\ SaverOK /\ EditorOK /\ ShownIsRow
    /\ MoveOK /\ ApplyOK /\ GoneOK

USE WindowAssumption, EditsAssumption

-----------------------------------------------------------------------------
(* The server.                                                             *)

\* What the server holds keeps its types, and an applied conspect stays
\* applied.
ServerStep == ServerOK' /\ \A c \in Conspects : status[c] = "applied" => status'[c] = "applied"

LEMMA ServerStays == ASSUME ServerOK, UNCHANGED serverVars PROVE ServerStep
  BY DEF ServerOK, ServerStep, serverVars

LEMMA ReviewStateType == ASSUME NEW c, NEW rw, NEW dec PROVE ReviewState(c, rw, dec) \in Editable
  BY DEF ReviewState, Editable

LEMMA ReopenedType == ASSUME NEW row \in Row PROVE Reopened(row) \in Row
  <1> DEFINE x == [row EXCEPT !.resolution = Pending]
  <1>1. x \in Row
    BY DEF Row, Resolutions
  <1>2. Reopened(row) = [x EXCEPT !.target = 0]
    BY DEF Reopened
  <1> HIDE DEF x
  <1> QED BY <1>1, <1>2 DEF Row

LEMMA RematchedOK ==
    ASSUME ServerOK, NEW c, c \in Conspects => status[c] # "applied", Rematched(c)
    PROVE  ServerStep
  <1>1. status' \in [Conspects -> Statuses]
    BY DEF ServerOK, Rematched, Statuses
  <1>2. rows' \in [Items -> Row]
    <2>1. \A i \in Items : rows[i] \in Row /\ Reopened(rows[i]) \in Row
      BY ReopenedType DEF ServerOK
    <2> QED BY <2>1 DEF Rematched
  <1> QED BY <1>1, <1>2 DEF ServerOK, ServerStep, Rematched

LEMMA TagWrittenOK == ASSUME ServerOK, NEW i \in Items, TagWritten(i) PROVE ServerStep
  <1> DEFINE c == ConspectOf(i)
  <1>1. status[c] \in Editable /\ status' = [status EXCEPT ![c] = ReviewState(c, rows, decided')]
    BY DEF TagWritten
  <1>2. ReviewState(c, rows, decided') \in Editable
    BY ReviewStateType
  <1> HIDE DEF c
  <1>3. status' \in [Conspects -> Statuses]
    BY <1>1, <1>2 DEF ServerOK, Statuses
  <1>4. \A k \in Conspects : status[k] = "applied" => status'[k] = "applied"
    BY <1>1 DEF ServerOK, Editable
  <1> QED BY <1>3, <1>4 DEF ServerOK, ServerStep, TagWritten

\* Holds, after the step.
HoldsNext(i, d) ==
    /\ rows'[i].resolution = d.resolution
    /\ Written(d.resolution) => rows'[i].value = d.value
    /\ rows'[i].related = d.related

\* What a save carries.
SaveOK(s) == s.item \in Items /\ s.draft \in Draft /\ s.version \in Nat

LEMMA DecisionWrittenOK ==
    ASSUME ServerOK, NEW s, SaveOK(s), Accepts(s), DecisionWritten(s)
    PROVE  ServerStep /\ HoldsNext(s.item, s.draft)
  <1> DEFINE c == ConspectOf(s.item)
             d == s.draft
             row == [resolution |-> d.resolution,
                     target |-> IF Targeted(d.resolution) THEN s.version ELSE 0,
                     value  |-> CASE d.resolution = "reject"        -> rows[s.item].value
                                  [] d.resolution = "keep_existing" -> "canonical"
                                  [] OTHER                          -> d.value,
                     related |-> d.related]
  <1>1. status[c] \in Editable /\ status' = [status EXCEPT ![c] = ReviewState(c, rows', decided)]
    BY DEF Accepts, DecisionWritten
  <1>2. ReviewState(c, rows', decided) \in Editable
    BY ReviewStateType
  <1>3. d \in Draft /\ s.item \in Items /\ rows[s.item] \in Row /\ s.version \in Nat
    BY DEF ServerOK, SaveOK
  <1>4. row \in Row
    BY <1>3 DEF Row, Draft, Values
  <1>5. /\ DOMAIN rows' = Items /\ rows'[s.item] = row
        /\ \A i \in Items : \/ rows'[i] = row \/ rows'[i] = rows[i]
                            \/ rows'[i] = Reopened(rows[i])
        /\ rows' = [i \in Items |-> rows'[i]]
    BY <1>3 DEF DecisionWritten
  <1>6. HoldsNext(s.item, d)
    <2>1. /\ row.resolution = d.resolution /\ row.related = d.related
          /\ d.resolution \notin {"reject", "keep_existing"} => row.value = d.value
      OBVIOUS
    <2>2. Written(d.resolution) => d.resolution \notin {"reject", "keep_existing"}
      BY DEF Written
    <2>3. rows'[s.item] = row
      BY <1>5
    <2> HIDE DEF row
    <2> QED BY <2>1, <2>2, <2>3 DEF HoldsNext
  <1>7. \A i \in Items : Reopened(rows[i]) \in Row
    BY ReopenedType DEF ServerOK
  <1> HIDE DEF c, row
  <1>8. rows' \in [Items -> Row]
    <2>1. \A i \in Items : rows'[i] \in Row
      BY <1>4, <1>5, <1>7 DEF ServerOK
    <2> QED BY <1>5, <2>1
  <1>9. status' \in [Conspects -> Statuses]
    BY <1>1, <1>2 DEF ServerOK, Statuses
  <1>10. \A k \in Conspects : status[k] = "applied" => status'[k] = "applied"
    BY <1>1 DEF ServerOK, Editable
  <1>11. UNCHANGED <<decided, matched, graph>>
    BY DEF DecisionWritten
  <1> QED BY <1>6, <1>8, <1>9, <1>10, <1>11 DEF ServerOK, ServerStep

-----------------------------------------------------------------------------
(* The cache and the page.                                                 *)

LEMMA DetailType == ServerOK => \A c \in Conspects : Detail(c) \in DetailsOf(c)
  <1> SUFFICES ASSUME ServerOK, NEW c \in Conspects PROVE Detail(c) \in DetailsOf(c)
    OBVIOUS
  <1>1. ItemsOf[c] \subseteq Items
    OBVIOUS
  <1>2. [i \in ItemsOf[c] |-> rows[i]] \in [ItemsOf[c] -> Row]
    BY <1>1 DEF ServerOK
  <1>3. status[c] \in Statuses /\ matched[c] \in Nat /\ decided \cap ItemsOf[c] \in SUBSET ItemsOf[c]
    BY DEF ServerOK
  <1> QED BY <1>2, <1>3 DEF Detail, DetailsOf

LEMMA DetailTypeNext == (ServerOK => \A c \in Conspects : Detail(c) \in DetailsOf(c))'
  BY DetailType, PTL

\* No detail leaves the cache.
DetailsKept == \A c \in Conspects : details[c] # NoDetail => details'[c] # NoDetail

\* The summaries that are asked for are of conspects that are open, and those
\* that come are those that were asked for.
ListAsked ==
    /\ list' \in {list, NoList, (OpenList)'}
    /\ summaries' = summaries \/ (list # NoList /\ summaries' = list.answer)

LEMMA NotDetail == \A c : NoDetail \notin DetailsOf(c)
  BY DEF NoDetail, DetailsOf, Statuses, Editable, None

LEMMA CacheStays == ASSUME CacheOK, UNCHANGED cacheVars PROVE CacheOK' /\ DetailsKept /\ ListAsked
  BY DEF CacheOK, cacheVars, DetailsKept, ListAsked

LEMMA CachesOK ==
    ASSUME CacheOK, ServerOK', NEW c, Caches(c)
    PROVE  CacheOK' /\ DetailsKept /\ ListAsked
  <1>1. \A k \in Conspects : (Detail(k))' \in DetailsOf(k)
    BY DetailTypeNext
  <1>2. details' = [k \in Conspects |-> IF k = c THEN (Detail(k))' ELSE details[k]]
    BY DEF Caches
  <1>3. (OpenList)'.answer \subseteq Conspects
    BY DEF OpenList
  <1>4. list' = (OpenList)' /\ UNCHANGED <<summaries, unavailable, poll>>
    BY DEF Caches
  <1>5. list'.answer \subseteq Conspects
    BY <1>3, <1>4
  <1> QED BY <1>1, <1>2, <1>4, <1>5, NotDetail DEF CacheOK, DetailsKept, ListAsked

\* The rendered item is the page of a conspect whose detail is there.
ShowsPage ==
    /\ ShownItem \in Items \cup {None}
    /\ ShownItem # None => /\ page = ShownItem /\ selectedId \in Conspects
                           /\ ShownItem \in ItemsOf[selectedId]
                           /\ details[selectedId] \in DetailsOf(selectedId)
    /\ InitialDraft(ShownItem) \in Draft

LEMMA PageShown == CacheOK /\ PageOK => ShowsPage
  <1> SUFFICES ASSUME CacheOK, PageOK
               PROVE  /\ ShownItem \in Items \cup {None}
                      /\ ShownItem # None => /\ page = ShownItem /\ selectedId \in Conspects
                                             /\ ShownItem \in ItemsOf[selectedId]
                                             /\ details[selectedId] \in DetailsOf(selectedId)
                      /\ InitialDraft(ShownItem) \in Draft
    BY DEF ShowsPage
  <1>1. ShownItem \in Items \cup {None}
    BY DEF ShownItem, ShownPage
  <1>2. ASSUME ShownItem # None
        PROVE  /\ page = ShownItem /\ selectedId \in Conspects
               /\ ShownItem \in ItemsOf[selectedId]
               /\ details[selectedId] \in DetailsOf(selectedId)
    <2>1. page \in Items /\ page \in ItemsOf[selectedId] /\ page = ShownItem
      BY <1>2 DEF ShownItem, ShownPage
    <2>2. page # None
      BY <2>1
    <2> QED BY <2>1, <2>2 DEF PageOK, CacheOK
  <1>3. CASE ShownItem = None
    <2>1. NoDraft \in Draft
      BY DEF NoDraft, Draft, Resolutions, Values
    <2> QED BY <1>1, <1>3, <2>1 DEF InitialDraft
  <1>4. CASE ShownItem # None
    <2> DEFINE i == ShownItem
               row == details[selectedId].rows[i]
    <2>1. row \in Row /\ Extracted[i] \in SUBSET Terms
      BY <1>1, <1>2, <1>4 DEF DetailsOf
    <2>2. InitialDraft(i) = [resolution |-> row.resolution, focused |-> row.target # 0,
                             value |-> row.value, related |-> Extracted[i]]
      BY <1>4 DEF InitialDraft
    <2>3. (row.target # 0) \in BOOLEAN
      OBVIOUS
    <2> HIDE DEF i, row
    <2>4. row.resolution \in Resolutions /\ row.value \in Values
      BY <2>1 DEF Row
    <2>5. InitialDraft(i) \in Draft
      BY <2>1, <2>2, <2>3, <2>4 DEF Draft
    <2> QED BY <1>1, <1>2, <2>5 DEF i
  <1> QED BY <1>3, <1>4

LEMMA PageShownNext == (CacheOK /\ PageOK => ShowsPage)'
  BY PageShown, PTL

LEMMA OpensOK ==
    ASSUME CacheOK', NEW c \in Conspects \cup {None}, NEW p \in Items \cup {"summary", None},
           NEW o, Opens(c, p, o), p # None => c # None /\ details'[c] # NoDetail /\ o = c
    PROVE  PageOK' /\ selectedId' = c /\ (p # None => page' = p)
  <1>1. CASE c # None /\ details'[c] # NoDetail /\ o # c
    <2>1. selectedId' = c /\ orderedItems' = c /\ page' \in InitialPages(details'[c]) /\ p = None
      BY <1>1 DEF Opens
    <2>2. c \in Conspects /\ details'[c] \in DetailsOf(c)
      BY <1>1 DEF CacheOK
    <2>3. InitialPages(details'[c]) \subseteq Items
      BY <2>2 DEF InitialPages, DetailsOf
    <2> QED BY <1>1, <2>1, <2>2, <2>3 DEF PageOK
  <1>2. CASE ~(c # None /\ details'[c] # NoDetail /\ o # c)
    <2>1. selectedId' = c /\ orderedItems' = o /\ page' = p
      BY <1>2 DEF Opens
    <2> QED BY <2>1 DEF PageOK
  <1> QED BY <1>1, <1>2

\* The page stays, unless none was shown.
Stays == UNCHANGED pageVars \/ Opens(selectedId, page, orderedItems)

LEMMA StaysOK ==
    ASSUME PageOK, CacheOK', DetailsKept, Stays
    PROVE  PageOK' /\ selectedId' = selectedId /\ (page # None => page' = page)
  <1>1. CASE UNCHANGED pageVars
    BY <1>1 DEF pageVars, PageOK, DetailsKept
  <1>2. CASE Opens(selectedId, page, orderedItems)
    <2>1. /\ selectedId \in Conspects \cup {None} /\ page \in Items \cup {"summary", None}
          /\ page # None => /\ selectedId # None /\ details'[selectedId] # NoDetail
                            /\ orderedItems = selectedId
      BY DEF PageOK, DetailsKept
    <2> QED BY <1>2, <2>1, OpensOK
  <1> QED BY <1>1, <1>2 DEF Stays

LEMMA GoesOK ==
    ASSUME PageOK, CacheOK', DetailsKept, NEW to, MoveType(to), Goes(to)
    PROVE  PageOK' /\ (selectedId' = selectedId \/ selectedId' \in Conspects \ answered)
  <1>1. CASE to.kind = "conspect"
    <2>1. Opens(to.id, None, orderedItems) /\ to.id \in Conspects \ answered
      BY <1>1 DEF Goes, MoveType
    <2>2. PageOK' /\ selectedId' = to.id
      BY <2>1, OpensOK
    <2> QED BY <2>1, <2>2
  <1>2. CASE to.kind # "conspect"
    <2>1. /\ to.page \in Items \cup {"summary"} /\ selectedId \in Conspects
          /\ details[selectedId] # NoDetail /\ Opens(selectedId, to.page, orderedItems)
      BY <1>2 DEF Goes, MoveType, PageOK
    <2>2. CASE orderedItems = selectedId
      BY <2>1, <2>2, OpensOK DEF DetailsKept
    <2>3. CASE orderedItems # selectedId
      <3>1. details'[selectedId] # NoDetail
        BY <2>1 DEF DetailsKept
      <3>2. Opens(selectedId, None, orderedItems)
        BY <2>1, <2>3, <3>1 DEF Opens
      <3> QED BY <2>1, <3>2, OpensOK
    <2> QED BY <2>2, <2>3
  <1> QED BY <1>1, <1>2

-----------------------------------------------------------------------------
(* The editor.                                                             *)

EditorInv == SaverOK /\ EditorOK /\ ShownIsRow

LEMMA LeavingType ==
    ASSUME NEW s, SaveOK(s), NEW r \in Steps, draft \in Draft
    PROVE  Leaving(s, r) \subseteq Save
  <1>1. Waiting \in BOOLEAN
    BY DEF Waiting
  <1> QED BY <1>1 DEF Leaving, Save, SaveOK

LEMMA SnapshotType ==
    ASSUME CacheOK, PageOK, EditorOK, request # None
    PROVE  shown \in Items /\ SaveOK(snapshot)
  <1>1. shown \in Items
    BY PageShown DEF EditorOK, ShowsPage
  <1> QED BY <1>1 DEF EditorOK, SnapshotOK, SaveOK

LEMMA OnItsWayType ==
    ASSUME CacheOK, PageOK, EditorOK
    PROVE  OnItsWay \subseteq Save
  <1>1. CASE request # None
    <2>1. SaveOK(snapshot) /\ request \in Steps /\ draft \in Draft
      BY <1>1, SnapshotType DEF EditorOK
    <2> QED BY <2>1, LeavingType DEF OnItsWay
  <1> QED BY <1>1 DEF OnItsWay

LEMMA RemountOK ==
    ASSUME SaverOK, CacheOK', PageOK', NEW L \in SUBSET Save, Remount(L)
    PROVE  EditorInv'
  <1>1. ShowsPage'
    BY PageShownNext
  <1>2. SaverOK'
    <2>1. /\ savedRevision' = revision /\ stored' = revision /\ revision' = revision
          /\ timer' = "off" /\ flight' = NoFlight /\ saveStatus' = "idle"
          /\ editor' \in {"gone", "mounted"}
      BY DEF Remount
    <2>2. revision \in 0..MaxEdits
      BY DEF SaverOK, AutosaveTypeOK
    <2>3. AutosaveTypeOK'
      BY <2>1, <2>2 DEF AutosaveTypeOK, NoFlight, SaveStatuses
    <2>4. Kept' /\ SavedWasWritten' /\ UnsavedIsPursued'
      BY <2>1 DEF Kept, SavedWasWritten, UnsavedIsPursued, Dirty
    <2> QED BY <2>1, <2>2, <2>3, <2>4 DEF SaverOK
  <1>3. ShownIsRow'
    <2>1. /\ shown' = ShownItem' /\ draft' = (InitialDraft(ShownItem))' /\ saveStatus' = "idle"
          /\ behind' = (BeginsBehind)'
      BY DEF Remount
    <2>2. ASSUME ShownItem' # None, ~(BeginsBehind)'
          PROVE  /\ (InitialDraft(ShownItem))'.resolution = rows'[ShownItem'].resolution
                 /\ (InitialDraft(ShownItem))'.value = rows'[ShownItem'].value
      BY <2>2 DEF BeginsBehind, InitialDraft
    <2> QED BY <2>1, <2>2 DEF ShownIsRow
  <1>4. EditorOK'
    BY <1>1 DEF EditorOK, ShowsPage, Remount, NoFlight
  <1> QED BY <1>2, <1>3, <1>4 DEF EditorInv

\* The rendered editor goes on, whatever others do to its row.
LEMMA EditorKept ==
    ASSUME EditorInv, ShownItem' = shown, UNCHANGED <<autosaveVars, draftVars, shown>>,
           left' \subseteq Save, behind => behind',
           shown # None /\ rows'[shown] # rows[shown] => behind'
    PROVE  EditorInv'
  <1>1. UNCHANGED <<revision, savedRevision, timer, flight, saveStatus, editor, stored, draft,
                    snapshot, request>>
    BY DEF autosaveVars, saverVars, draftVars
  <1>2. SaverOK'
    BY <1>1 DEF EditorInv, SaverOK, AutosaveTypeOK, Kept, SavedWasWritten, UnsavedIsPursued, Dirty
  <1>3. ShownIsRow'
    BY <1>1 DEF EditorInv, ShownIsRow, Holds
  <1>4. request # None => SnapshotOK'
    BY <1>1 DEF EditorInv, EditorOK, SnapshotOK, Holds
  <1>5. EditorOK'
    BY <1>1, <1>4 DEF EditorInv, EditorOK
  <1> QED BY <1>2, <1>3, <1>5 DEF EditorInv

LEMMA RerendersOK ==
    ASSUME EditorInv, CacheOK, PageOK, CacheOK', PageOK', UNCHANGED rows, Rerenders
    PROVE  EditorInv'
  <1>1. CASE ShownItem' = shown
    <2>1. UNCHANGED <<autosaveVars, draftVars, shown, left, behind>>
      BY <1>1 DEF Rerenders, editorVars
    <2>2. left' \subseteq Save
      BY <2>1 DEF EditorInv, EditorOK
    <2> QED BY <1>1, <2>1, <2>2, EditorKept
  <1>2. CASE ShownItem' # shown
    <2>1. Remount(left \cup OnItsWay) /\ left \cup OnItsWay \in SUBSET Save
      BY <1>2, OnItsWayType DEF Rerenders, EditorInv, EditorOK
    <2> QED BY <2>1, RemountOK DEF EditorInv
  <1> QED BY <1>1, <1>2

-----------------------------------------------------------------------------
(* Steps of the rendered editor.                                           *)

FirstRequests == Steps \ {"refresh", "conflict"}

LEMMA FirstRequestType ==
    ASSUME NEW i, NEW d
    PROVE  /\ FirstRequest(i, d) \in FirstRequests
           /\ FirstRequest(i, d) = "nothing" => d.resolution = Pending
  BY DEF FirstRequest, FirstRequests, Steps, Requests

LEMMA FirstRequestNext ==
    /\ (FirstRequest(shown, draft))' \in FirstRequests
    /\ (FirstRequest(shown, draft))' = "nothing" => draft'.resolution = Pending
  BY DEF FirstRequest, FirstRequests, Steps, Requests

LEMMA EditKeeps ==
    ASSUME EditorInv, ShownItem' = shown, Edit, draft' \in Draft,
           UNCHANGED <<rows, snapshot, request, shown, left, behind>>
    PROVE  EditorInv'
  <1>0. /\ UNCHANGED <<savedRevision, flight, editor, stored>> /\ revision' = revision + 1
        /\ saveStatus' = "waiting" /\ timer' = "armed" /\ revision < MaxEdits
    BY DEF Edit
  <1>1. SaverOK'
    <2>1. revision \in 0..MaxEdits /\ savedRevision \in 0..MaxEdits /\ savedRevision <= revision
      BY DEF EditorInv, SaverOK, AutosaveTypeOK
    <2>2. AutosaveTypeOK' /\ Dirty'
      BY <1>0, <2>1 DEF EditorInv, SaverOK, AutosaveTypeOK, SaveStatuses, Dirty
    <2> QED BY <1>0, <2>2 DEF EditorInv, SaverOK, AutosaveTypeOK, SavedWasWritten, UnsavedIsPursued
  <1>3. ShownIsRow'
    BY <1>0 DEF ShownIsRow
  <1>4. request # None => flight # revision'
    BY <1>0 DEF EditorInv, EditorOK, SaverOK, AutosaveTypeOK
  <1>5. request # None => SnapshotOK'
    BY <1>0, <1>4 DEF EditorInv, EditorOK, SnapshotOK, Holds
  <1>6. EditorOK'
    BY <1>0, <1>5 DEF EditorInv, EditorOK
  <1> QED BY <1>1, <1>3, <1>6 DEF EditorInv

LEMMA FlushesOK ==
    ASSUME EditorInv, CacheOK, PageOK, shown # None, ShownItem' = shown, UNCHANGED rows, Flushes
    PROVE  EditorInv' /\ (flight # NoFlight \/ Dirty => flight' # NoFlight)
  <1>1. SaverOK'
    <2>1. /\ UNCHANGED <<revision, savedRevision, editor, stored, draft>> /\ timer' = "off"
          /\ IF flight = NoFlight /\ Dirty THEN flight' = revision /\ saveStatus' = "saving"
                                           ELSE UNCHANGED <<flight, saveStatus>>
      BY DEF Flushes, Flush, Send
    <2>2. CASE flight = NoFlight /\ Dirty
      BY <2>1, <2>2 DEF EditorInv, SaverOK, AutosaveTypeOK, SaveStatuses, NoFlight, Dirty, Kept,
                        SavedWasWritten, UnsavedIsPursued
    <2>3. CASE ~(flight = NoFlight /\ Dirty)
      BY <2>1, <2>3 DEF EditorInv, SaverOK, AutosaveTypeOK, Dirty, Kept, SavedWasWritten,
                        UnsavedIsPursued
    <2> QED BY <2>2, <2>3
  <1>2. UNCHANGED <<revision, editor, stored, draft, shown, left, behind>>
    BY DEF Flushes, Flush
  <1>3. CASE flight = NoFlight /\ Dirty
    <2>1. /\ request' = FirstRequest(shown, draft) /\ snapshot' = SaveOf(draft)
          /\ flight' = revision /\ saveStatus' = "saving"
      BY <1>3 DEF Flushes, Flush, Send
    <2>2. revision # NoFlight
      BY <1>3 DEF EditorInv, SaverOK, AutosaveTypeOK, Dirty, NoFlight
    <2>3. request' \in FirstRequests /\ (request' = "nothing" => draft.resolution = Pending)
      BY <2>1, FirstRequestType
    <2>4. snapshot'.item = shown /\ snapshot'.draft = draft /\ snapshot'.version \in Nat
      <3>1. details[selectedId].matched \in Nat
        BY PageShown DEF EditorInv, EditorOK, ShowsPage, DetailsOf
      <3> QED BY <2>1, <3>1 DEF SaveOf
    <2>5. request' \in Steps /\ request' \notin {None, "refresh"}
      BY <2>3 DEF FirstRequests, Steps, Requests, None
    <2>6. SnapshotOK'
      BY <1>2, <2>3, <2>4, <2>5 DEF EditorInv, EditorOK, SnapshotOK
    <2>7. EditorOK'
      BY <1>2, <2>1, <2>2, <2>5, <2>6 DEF EditorInv, EditorOK
    <2>8. ShownIsRow'
      BY <2>1 DEF ShownIsRow
    <2> QED BY <1>1, <2>1, <2>2, <2>7, <2>8 DEF EditorInv
  <1>4. CASE ~(flight = NoFlight /\ Dirty)
    <2>1. UNCHANGED <<request, snapshot, flight, saveStatus>>
      BY <1>4 DEF Flushes, Flush
    <2>2. request # None => SnapshotOK'
      BY <1>2, <2>1 DEF EditorInv, EditorOK, SnapshotOK, Holds
    <2>3. EditorOK'
      BY <1>2, <2>1, <2>2 DEF EditorInv, EditorOK
    <2>4. ShownIsRow'
      BY <1>2, <2>1 DEF EditorInv, ShownIsRow, Holds
    <2> QED BY <1>1, <1>4, <2>1, <2>3, <2>4 DEF EditorInv
  <1> QED BY <1>3, <1>4

\* A persist() that succeeds while its editor stays.
Succeeds ==
    /\ Settled
    /\ UNCHANGED <<revision, timer, editor, stored, draft, shown, left, behind>>
    /\ IF revision = flight
       THEN request' = None /\ snapshot' = NoSave
       ELSE request' = (FirstRequest(shown, draft))' /\ snapshot' = (SaveOf(draft))'

LEMMA SucceedsOK ==
    ASSUME EditorInv, CacheOK', PageOK', ShownItem' = shown, UNCHANGED rows,
           request \in {"nothing", "refresh"}, Succeeds
    PROVE  EditorInv' /\ (revision # flight => flight' # NoFlight)
  <1>0. /\ shown # None /\ SnapshotOK /\ flight # NoFlight
        /\ revision \in 0..MaxEdits /\ flight \in 0..MaxEdits /\ flight <= revision
    BY DEF EditorInv, EditorOK, SaverOK, AutosaveTypeOK, None
  <1>1. /\ UNCHANGED <<revision, timer, editor, stored, draft, shown, left, behind>>
        /\ savedRevision' = flight
    BY DEF Succeeds, Settled
  <1>2. CASE revision = flight
    <2>1. flight' = NoFlight /\ saveStatus' = "saved" /\ request' = None /\ snapshot' = NoSave
      BY <1>2 DEF Succeeds, Settled
    <2>0. Kept
      BY <1>0, <1>2 DEF SnapshotOK, Kept
    <2>2. SaverOK'
      BY <1>0, <1>1, <1>2, <2>0, <2>1 DEF EditorInv, SaverOK, AutosaveTypeOK, Kept,
                    SavedWasWritten, UnsavedIsPursued, Dirty, NoFlight, SaveStatuses
    <2>3. ~behind /\ draft.resolution # Pending => Holds(shown, draft)
      BY <1>0, <1>2 DEF SnapshotOK
    <2>4. ShownIsRow'
      BY <1>1, <2>1, <2>3 DEF ShownIsRow, Holds
    <2>5. EditorOK'
      BY <1>1, <2>1 DEF EditorInv, EditorOK
    <2> QED BY <1>2, <2>2, <2>4, <2>5 DEF EditorInv
  <1>3. CASE revision # flight
    <2>1. /\ request' = (FirstRequest(shown, draft))' /\ snapshot' = (SaveOf(draft))'
          /\ flight' = revision /\ saveStatus' = "saving"
      BY <1>3 DEF Succeeds, Settled, Send
    <2>2. revision # NoFlight
      BY <1>0, <1>3 DEF NoFlight
    <2>3. SaverOK'
      BY <1>0, <1>1, <1>3, <2>1, <2>2 DEF EditorInv, SaverOK, AutosaveTypeOK, Kept,
                    SavedWasWritten, UnsavedIsPursued, Dirty, NoFlight, SaveStatuses
    <2>4. request' \in FirstRequests /\ (request' = "nothing" => draft'.resolution = Pending)
      BY <2>1, FirstRequestNext
    <2>5. snapshot'.item = shown' /\ snapshot'.draft = draft' /\ snapshot'.version \in Nat
      <3>1. details'[selectedId'].matched \in Nat
        BY <1>0, PageShownNext DEF ShowsPage, DetailsOf
      <3> QED BY <2>1, <3>1 DEF SaveOf
    <2>6. request' \in Steps /\ request' \notin {None, "refresh"}
      BY <2>4 DEF FirstRequests, Steps, Requests, None
    <2>7. SnapshotOK'
      BY <1>1, <2>4, <2>5, <2>6 DEF EditorInv, EditorOK, SnapshotOK
    <2>8. EditorOK'
      BY <1>0, <1>1, <2>1, <2>2, <2>6, <2>7 DEF EditorInv, EditorOK
    <2>9. ShownIsRow'
      BY <2>1 DEF ShownIsRow
    <2> QED BY <2>1, <2>2, <2>3, <2>8, <2>9 DEF EditorInv
  <1> QED BY <1>2, <1>3

LEMMA FailsOK ==
    ASSUME EditorInv, request # None, ShownItem' = shown, UNCHANGED rows, Failed,
           request' = None, snapshot' = NoSave,
           UNCHANGED <<editor, stored, draft, shown, left, behind>>
    PROVE  EditorInv'
  <1>1. flight' = NoFlight /\ saveStatus' = "failed" /\ UNCHANGED <<revision, savedRevision, timer>>
    BY DEF Failed
  <1>2. SaverOK'
    BY <1>1 DEF EditorInv, SaverOK, AutosaveTypeOK, Kept, SavedWasWritten, UnsavedIsPursued,
                Dirty, NoFlight, SaveStatuses
  <1>3. EditorOK'
    BY <1>1 DEF EditorInv, EditorOK
  <1>4. ShownIsRow'
    BY <1>1 DEF ShownIsRow
  <1> QED BY <1>2, <1>3, <1>4 DEF EditorInv

\* persist() goes on to request r.
LEMMA RequestGoesOn ==
    ASSUME EditorInv, request # None, ShownItem' = shown, request' \in Requests,
           UNCHANGED <<saverVars, editor, draft, snapshot, shown, left>>,
           stored' = stored \/ stored' = flight,
           request' = "refresh" => stored' = flight /\ Holds(shown, snapshot.draft)'
    PROVE  EditorInv'
  <1>0. UNCHANGED <<revision, savedRevision, timer, flight, saveStatus>>
    BY DEF saverVars
  <1>1. /\ shown # None /\ SnapshotOK /\ flight # NoFlight
        /\ stored <= flight /\ flight <= revision /\ savedRevision < flight
        /\ stored \in 0..MaxEdits /\ flight \in 0..MaxEdits /\ savedRevision \in 0..MaxEdits
        /\ revision \in 0..MaxEdits
        /\ saveStatus \notin {"idle", "saved"}
    BY DEF EditorInv, EditorOK, SaverOK, AutosaveTypeOK, SavedWasWritten
  <1>2. SaverOK'
    <2>1. AutosaveTypeOK'
      BY <1>0, <1>1 DEF EditorInv, SaverOK, AutosaveTypeOK
    <2>2. Dirty'
      BY <1>0, <1>1 DEF Dirty
    <2>3. SavedWasWritten' /\ UnsavedIsPursued'
      BY <1>0, <1>1 DEF SavedWasWritten, UnsavedIsPursued
    <2> QED BY <1>0, <1>1, <2>1, <2>2, <2>3 DEF SaverOK
  <1>4. ShownIsRow'
    BY <1>0, <1>1 DEF ShownIsRow
  <1>5. request' \in Steps /\ request' \notin {None, "nothing"}
    BY DEF Requests, Steps, None
  <1>6. SnapshotOK'
    BY <1>0, <1>1, <1>5 DEF SnapshotOK
  <1>7. EditorOK'
    BY <1>0, <1>1, <1>5, <1>6 DEF EditorInv, EditorOK
  <1> QED BY <1>2, <1>4, <1>7 DEF EditorInv

-----------------------------------------------------------------------------
(* Moves.                                                                  *)

\* A waiting move is still waited for after the step.
Pursues ==
    /\ \A s \in left' : s.resumes => switching # NoMove
    /\ \A s, t \in left' : s.resumes /\ t.resumes => s = t
    /\ switching # NoMove => \/ shown' # None /\ flight' # NoFlight
                             \/ \E s \in left' : s.resumes

LEMMA MoveKept ==
    ASSUME MoveOK, PageOK, DetailsKept, Pursues, selectedId' = selectedId,
           UNCHANGED <<switching, answered>>
    PROVE  MoveOK'
  <1>1. switching # NoMove => MoveType(switching)'
    BY DEF MoveOK, MoveType, DetailsKept, PageOK
  <1> QED BY <1>1 DEF MoveOK, Pursues, MoveIsPursued

LEMMA MoveOver ==
    ASSUME switching' = NoMove, \A s \in left' : ~s.resumes
    PROVE  MoveOK'
  BY DEF MoveOK, MoveIsPursued

\* A save that is left carries on for the move that waits for it.
LEMMA LeavingResumes ==
    ASSUME NEW s, NEW r
    PROVE  \E t : Leaving(s, r) = {t} /\ t.resumes = Waiting
  <1> DEFINE t == [item |-> s.item, draft |-> s.draft, version |-> s.version, last |-> draft,
                   request |-> r, resumes |-> Waiting]
  <1>1. Leaving(s, r) = {t}
    BY DEF Leaving
  <1>2. t.resumes = Waiting
    OBVIOUS
  <1> HIDE DEF t
  <1> QED BY <1>1, <1>2

\* One more save, that of the editor, joins the saves L, one of which a waiting
\* move may wait for.
LEMMA OneMorePursues ==
    ASSUME NEW L, NEW t, t.resumes = Waiting, left' = L \cup {t},
           \A s \in L : s.resumes => switching # NoMove,
           \A s, u \in L : s.resumes /\ u.resumes => s = u,
           (\E s \in left : s.resumes) <=> (\E s \in L : s.resumes)
    PROVE  Pursues
  <1>1. CASE Waiting
    <2>1. t \in left' /\ t.resumes /\ switching # NoMove
      BY <1>1 DEF Waiting
    <2>2. \A s \in left' : s.resumes => s = t
      BY <1>1 DEF Waiting
    <2> QED BY <2>1, <2>2 DEF Pursues
  <1>2. CASE ~Waiting
    <2>1. switching # NoMove => \E s \in L : s.resumes
      BY <1>2 DEF Waiting
    <2> QED BY <1>2, <2>1 DEF Pursues
  <1> QED BY <1>1, <1>2

LEMMA JoinedPursues ==
    ASSUME EditorInv, MoveOK, NEW L,
           \A s \in L : s.resumes => switching # NoMove,
           \A s, t \in L : s.resumes /\ t.resumes => s = t,
           (\E s \in left : s.resumes) <=> (\E s \in L : s.resumes),
           left' = L \cup OnItsWay
    PROVE  Pursues
  <1>1. CASE request # None
    <2>1. PICK t : OnItsWay = {t} /\ t.resumes = Waiting
      BY <1>1, LeavingResumes DEF OnItsWay
    <2> QED BY <2>1, OneMorePursues
  <1>2. CASE request = None
    <2>1. left' = L /\ ~Waiting
      BY <1>2 DEF OnItsWay, MoveOK, MoveIsPursued, Waiting, EditorInv, EditorOK
    <2>2. switching # NoMove => \E s \in L : s.resumes
      BY <2>1 DEF Waiting
    <2> QED BY <2>1, <2>2 DEF Pursues
  <1> QED BY <1>1, <1>2

LEMMA RerendersPursues ==
    ASSUME EditorInv, MoveOK, Rerenders
    PROVE  Pursues
  <1>1. CASE ShownItem' = shown
    <2>1. UNCHANGED <<autosaveVars, shown, left>>
      BY <1>1 DEF Rerenders, editorVars
    <2>2. UNCHANGED <<flight, shown, left>>
      BY <2>1 DEF autosaveVars, saverVars
    <2> QED BY <2>2 DEF Pursues, MoveOK, MoveIsPursued
  <1>2. CASE ShownItem' # shown
    <2>1. left' = left \cup OnItsWay
      BY <1>2 DEF Rerenders, Remount
    <2> QED BY <2>1, JoinedPursues DEF MoveOK
  <1> QED BY <1>1, <1>2

-----------------------------------------------------------------------------
(* The ends of persist().                                                  *)

\* MoveWaitsForItsEditor, of one step.
KeepsEdits ==
    (shown # None /\ <<selectedId, page>>' # <<selectedId, page>>
        /\ (Waiting \/ switching = NoMove)) => Kept

\* What a step owes to the page, the editor and the moves.
StepOK ==
    /\ PageOK' /\ EditorInv' /\ MoveOK' /\ KeepsEdits
    /\ selectedId' = selectedId \/ selectedId' \in Conspects \ answered

\* No page that is shown is left, except by a move that has waited.
Still == page # None /\ switching = NoMove => UNCHANGED <<selectedId, page, switching>>

LEMMA EditorPage ==
    ASSUME CacheOK, PageOK, EditorOK, shown # None
    PROVE  /\ shown \in Items /\ page = shown /\ page \notin {None, "summary"}
           /\ shown \in ItemsOf[selectedId]
           /\ selectedId \in Conspects /\ details[selectedId] \in DetailsOf(selectedId)
  BY PageShown DEF EditorOK, ShowsPage

LEMMA SaveOfType ==
    ASSUME CacheOK, PageOK, EditorOK, shown # None
    PROVE  SaveOK(SaveOf(draft))
  <1>1. shown \in Items /\ details[selectedId].matched \in Nat /\ draft \in Draft
    BY EditorPage DEF DetailsOf, EditorOK
  <1> QED BY <1>1 DEF SaveOK, SaveOf

LEMMA PersistSucceedsOK ==
    ASSUME CacheOK, PageOK, EditorInv, MoveOK, CacheOK', DetailsKept, UNCHANGED rows,
           request \in {"nothing", "refresh"}, PersistSucceeds
    PROVE  StepOK /\ Still /\ UNCHANGED <<apply, answered>>
  <1>0. UNCHANGED <<apply, answered>>
    BY DEF PersistSucceeds
  <1>1. /\ shown # None /\ request \in Steps /\ left \subseteq Save /\ draft \in Draft
        /\ request = "refresh" => stored = flight
        /\ request = "nothing" /\ revision = flight => draft.resolution = Pending
    BY DEF EditorInv, EditorOK, SnapshotOK, None
  <1>2. page # None
    BY <1>1, EditorPage DEF EditorInv
  <1>3. ShownItem' = shown => Succeeds
    BY DEF PersistSucceeds, Succeeds
  <1>4. ASSUME PageOK' PROVE EditorInv'
    <2>1. CASE ShownItem' = shown
      BY <1>3, <1>4, <2>1, SucceedsOK
    <2>2. CASE ShownItem' # shown
      <3> DEFINE L == IF revision = flight THEN left
                      ELSE left \cup Leaving(SaveOf(draft), FirstRequest(shown, draft))
      <3>1. Remount(L)
        BY <2>2 DEF PersistSucceeds
      <3>2. FirstRequest(shown, draft) \in Steps
        BY FirstRequestType DEF FirstRequests
      <3>3. Leaving(SaveOf(draft), FirstRequest(shown, draft)) \subseteq Save
        BY <1>1, <3>2, SaveOfType, LeavingType DEF EditorInv
      <3>4. L \in SUBSET Save
        BY <1>1, <3>3
      <3> HIDE DEF L
      <3> QED BY <1>4, <3>1, <3>4, RemountOK DEF EditorInv
    <2> QED BY <2>1, <2>2
  <1>5. CASE revision = flight /\ Waiting
    <2>1. Goes(switching) /\ switching' = NoMove /\ MoveType(switching)
      BY <1>5 DEF PersistSucceeds, Resumes, MoveOK, Waiting
    <2>2. PageOK' /\ (selectedId' = selectedId \/ selectedId' \in Conspects \ answered)
      BY <2>1, GoesOK
    <2>3. left' = left
      <3>1. CASE ShownItem' = shown
        BY <1>3, <3>1 DEF Succeeds
      <3>2. CASE ShownItem' # shown
        BY <1>5, <3>2 DEF PersistSucceeds, Remount
      <3> QED BY <3>1, <3>2
    <2>4. MoveOK'
      BY <1>5, <2>1, <2>3, MoveOver DEF Waiting
    <2>5. KeepsEdits
      BY <1>1, <1>5 DEF KeepsEdits, Kept
    <2>6. Still
      BY <1>5 DEF Still, Waiting
    <2> QED BY <1>0, <1>4, <2>2, <2>4, <2>5, <2>6 DEF StepOK
  <1>6. CASE ~(revision = flight /\ Waiting)
    <2>1. Opens(selectedId, page, orderedItems) /\ UNCHANGED switching
      BY <1>6 DEF PersistSucceeds, Resumes
    <2>2. PageOK' /\ selectedId' = selectedId /\ page' = page
      BY <1>2, <2>1, StaysOK DEF Stays
    <2>3. Pursues
      <3>1. CASE ShownItem' = shown
        <4>1. left' = left /\ shown' = shown
          BY <1>3, <3>1 DEF Succeeds
        <4>2. revision # flight => flight' # NoFlight
          BY <1>3, <2>2, <3>1, SucceedsOK
        <4>3. revision = flight => ~Waiting
          BY <1>6
        <4> QED BY <1>1, <4>1, <4>2, <4>3 DEF Pursues, MoveOK, Waiting
      <3>2. CASE ShownItem' # shown /\ revision = flight
        <4>1. left' = left /\ ~Waiting
          BY <1>6, <3>2 DEF PersistSucceeds, Remount
        <4> QED BY <4>1 DEF Pursues, MoveOK, Waiting
      <3>3. CASE ShownItem' # shown /\ revision # flight
        <4>1. PICK t : Leaving(SaveOf(draft), FirstRequest(shown, draft)) = {t} /\ t.resumes = Waiting
          BY LeavingResumes
        <4>2. left' = left \cup {t}
          BY <3>3, <4>1 DEF PersistSucceeds, Remount
        <4> QED BY <4>1, <4>2, OneMorePursues DEF MoveOK
      <3> QED BY <3>1, <3>2, <3>3
    <2>4. MoveOK'
      BY <1>0, <2>1, <2>2, <2>3, MoveKept
    <2> QED BY <1>0, <1>4, <2>1, <2>2, <2>4 DEF StepOK, KeepsEdits, Still
  <1> QED BY <1>5, <1>6

LEMMA PersistFailsOK ==
    ASSUME CacheOK, PageOK, EditorInv, MoveOK, CacheOK', DetailsKept, UNCHANGED rows,
           request # None, PersistFails
    PROVE  StepOK /\ Still /\ UNCHANGED <<apply, answered>>
  <1>0. UNCHANGED <<apply, answered>> /\ UNCHANGED <<selectedId, page>>
    BY DEF PersistFails, pageVars
  <1>1. PageOK'
    BY StaysOK DEF PersistFails, Stays
  <1>2. left' = left
    BY DEF PersistFails, Remount
  <1>3. EditorInv'
    <2>1. CASE ShownItem' = shown
      BY <2>1, FailsOK DEF PersistFails
    <2>2. CASE ShownItem' # shown
      <3>1. Remount(left) /\ left \in SUBSET Save
        BY <2>2 DEF PersistFails, EditorInv, EditorOK
      <3> QED BY <1>1, <3>1, RemountOK DEF EditorInv
    <2> QED BY <2>1, <2>2
  <1>4. MoveOK'
    <2>1. CASE Waiting
      BY <1>2, <2>1, MoveOver DEF PersistFails, Waiting
    <2>2. CASE ~Waiting
      <3>1. Pursues
        BY <1>2, <2>2 DEF Pursues, MoveOK, Waiting
      <3>2. UNCHANGED switching
        BY <2>2 DEF PersistFails
      <3> QED BY <1>0, <3>1, <3>2, MoveKept
    <2> QED BY <2>1, <2>2
  <1>5. Still
    BY <1>0 DEF PersistFails, Still
  <1> QED BY <1>0, <1>1, <1>3, <1>4, <1>5 DEF StepOK, KeepsEdits

-----------------------------------------------------------------------------
(* Saves whose editor is gone.                                             *)

LEMMA SaveAgain ==
    ASSUME NEW s \in Save, NEW r \in Steps
    PROVE  /\ [s EXCEPT !.draft = s.last, !.request = r] \in Save
           /\ [s EXCEPT !.draft = s.last, !.request = r].resumes = s.resumes
           /\ [s EXCEPT !.request = r] \in Save
           /\ [s EXCEPT !.request = r].resumes = s.resumes
  <1> DEFINE x == [s EXCEPT !.draft = s.last]
  <1>1. x \in Save /\ x.resumes = s.resumes
    BY DEF Save
  <1> HIDE DEF x
  <1>2. [x EXCEPT !.request = r] \in Save /\ [x EXCEPT !.request = r].resumes = s.resumes
    BY <1>1 DEF Save
  <1>3. [s EXCEPT !.request = r] \in Save /\ [s EXCEPT !.request = r].resumes = s.resumes
    BY DEF Save
  <1>4. [s EXCEPT !.draft = s.last, !.request = r] = [x EXCEPT !.request = r]
    BY DEF x
  <1> QED BY <1>2, <1>3, <1>4

\* A save that was left is replaced by those in M, of which one resumes if it
\* does.
LEMMA ReplacedPursues ==
    ASSUME EditorInv, MoveOK, NEW s \in left, NEW M,
           \A m \in M : m.resumes = s.resumes, \A m, n \in M : m = n, s.resumes => M # {},
           \/ left' = (left \ {s}) \cup M /\ UNCHANGED <<shown, flight>>
           \/ left' = (left \ {s}) \cup M \cup OnItsWay
    PROVE  Pursues
  <1> DEFINE L == (left \ {s}) \cup M
  <1>1. /\ \A t \in L : t.resumes => switching # NoMove
        /\ \A t, u \in L : t.resumes /\ u.resumes => t = u
        /\ (\E t \in left : t.resumes) <=> (\E t \in L : t.resumes)
    BY DEF MoveOK
  <1>2. CASE left' = L /\ UNCHANGED <<shown, flight>>
    <2> HIDE DEF L
    <2> QED BY <1>1, <1>2 DEF Pursues, MoveOK, MoveIsPursued
  <1>3. CASE left' = L \cup OnItsWay
    <2> HIDE DEF L
    <2> QED BY <1>1, <1>3, JoinedPursues
  <1> QED BY <1>2, <1>3

LEMMA LeftEndsOK ==
    ASSUME CacheOK, PageOK, EditorInv, MoveOK, CacheOK', DetailsKept,
           NEW s \in left, NEW ok \in BOOLEAN, LeftEnds(s, ok)
    PROVE  StepOK /\ Still /\ UNCHANGED <<apply, answered>>
  <1> DEFINE next == FirstRequest(s.item, s.last)
             more == IF ok /\ s.last # s.draft
                     THEN {[s EXCEPT !.draft = s.last, !.request = next]} ELSE {}
             over == more = {} /\ s.resumes
  <1>0. /\ IF over /\ ok THEN Goes(switching) ELSE Opens(selectedId, page, orderedItems)
        /\ switching' = IF over THEN NoMove ELSE switching
        /\ IF ShownItem' = shown
           THEN /\ left' = (left \ {s}) \cup more
                /\ behind' = (behind \/ (shown # None /\ rows'[shown] # rows[shown]))
                /\ UNCHANGED <<autosaveVars, draftVars, shown>>
           ELSE Remount((left \ {s}) \cup more \cup OnItsWay)
        /\ UNCHANGED <<apply, answered>>
    BY DEF LeftEnds, FallsBehind
  <1>1. s \in Save /\ next \in Steps /\ left \subseteq Save
    BY FirstRequestType DEF EditorInv, EditorOK, FirstRequests
  <1>2. /\ more \subseteq Save
        /\ \A m \in more : m.resumes = s.resumes
        /\ \A m, n \in more : m = n
    <2> HIDE DEF next
    <2> QED BY <1>1, SaveAgain
  <1> HIDE DEF more
  <1>3. UNCHANGED <<autosaveVars, draftVars, shown>> => UNCHANGED <<shown, flight>>
    BY DEF autosaveVars, saverVars
  <1>4. ASSUME PageOK' PROVE EditorInv'
    <2>1. CASE ShownItem' = shown
      BY <1>0, <1>1, <1>2, <2>1, EditorKept
    <2>2. CASE ShownItem' # shown
      <3>1. (left \ {s}) \cup more \cup OnItsWay \in SUBSET Save
        BY <1>1, <1>2, OnItsWayType DEF EditorInv
      <3> QED BY <1>0, <1>4, <2>2, <3>1, RemountOK DEF EditorInv
    <2> QED BY <2>1, <2>2
  <1>5. s.resumes => switching # NoMove /\ ~Waiting
    BY DEF MoveOK, Waiting
  <1>6. CASE over
    <2>1. PageOK' /\ (selectedId' = selectedId \/ selectedId' \in Conspects \ answered)
          /\ (~ok => selectedId' = selectedId)
      <3>1. CASE ok
        <4>1. Goes(switching) /\ MoveType(switching)
          BY <1>0, <1>5, <1>6, <3>1 DEF MoveOK
        <4> QED BY <3>1, <4>1, GoesOK
      <3>2. CASE ~ok
        <4>1. Stays
          BY <1>0, <3>2 DEF Stays
        <4> QED BY <4>1, StaysOK
      <3> QED BY <3>1, <3>2
    <2>2. \A t \in OnItsWay : ~t.resumes
      <3>1. CASE request = None
        BY <3>1 DEF OnItsWay
      <3>2. CASE request # None
        <4>1. PICK t : OnItsWay = {t} /\ t.resumes = Waiting
          BY <3>2, LeavingResumes DEF OnItsWay
        <4> QED BY <1>5, <1>6, <4>1
      <3> QED BY <3>1, <3>2
    <2>3. left' \subseteq (left \ {s}) \cup OnItsWay
      BY <1>0, <1>6 DEF Remount
    <2>4. \A t \in left' : ~t.resumes
      BY <1>6, <2>2, <2>3 DEF MoveOK
    <2>5. MoveOK'
      BY <1>0, <1>6, <2>4, MoveOver
    <2>6. KeepsEdits /\ Still
      BY <1>5, <1>6 DEF KeepsEdits, Still
    <2> QED BY <1>0, <1>4, <2>1, <2>5, <2>6 DEF StepOK
  <1>7. CASE ~over
    <2>1. Stays /\ UNCHANGED switching
      BY <1>0, <1>7 DEF Stays
    <2>2. PageOK' /\ selectedId' = selectedId /\ (page # None => page' = page)
      BY <2>1, StaysOK
    <2>3. Pursues
      <3>1. \/ left' = (left \ {s}) \cup more /\ UNCHANGED <<shown, flight>>
            \/ left' = (left \ {s}) \cup more \cup OnItsWay
        BY <1>0, <1>3 DEF Remount
      <3>2. s.resumes => more # {}
        BY <1>7
      <3> QED BY <1>2, <3>1, <3>2, ReplacedPursues
    <2>4. MoveOK'
      BY <1>0, <2>1, <2>2, <2>3, MoveKept
    <2>5. shown # None => page # None
      BY EditorPage DEF EditorInv
    <2>6. KeepsEdits /\ Still
      BY <2>1, <2>2, <2>5 DEF KeepsEdits, Still
    <2> QED BY <1>0, <1>4, <2>2, <2>4, <2>6 DEF StepOK
  <1> QED BY <1>6, <1>7

-----------------------------------------------------------------------------
(* Steps put together.                                                     *)

\* What a step owes to the server and the cache.
DataOK == ServerStep /\ CacheOK' /\ DetailsKept /\ ListAsked

LEMMA DataStays == ASSUME WindowInv, UNCHANGED <<serverVars, cacheVars>> PROVE DataOK
  BY ServerStays, CacheStays DEF WindowInv, DataOK

LEMMA DataCached == ASSUME WindowInv, ServerStep, NEW c, Caches(c) PROVE DataOK
  BY CachesOK DEF WindowInv, DataOK, ServerStep

LEMMA ApplyKept ==
    ASSUME WindowInv, ServerStep, Still, UNCHANGED apply
    PROVE  ApplyOK'
  <1>1. ASSUME apply # "idle"
        PROVE  page' = "summary" /\ switching' = NoMove /\ selectedId' = selectedId /\ selectedId \in Conspects
    <2>1. page = "summary" /\ switching = NoMove /\ page # None
      BY <1>1 DEF WindowInv, ApplyOK, None
    <2> QED BY <2>1 DEF Still, WindowInv, PageOK
  <1> QED BY <1>1 DEF WindowInv, ApplyOK, ServerStep

LEMMA StepKeeps ==
    ASSUME WindowInv, DataOK, StepOK, ApplyOK', UNCHANGED answered
    PROVE  WindowInv'
  <1>1. /\ ServerOK' /\ \A c \in Conspects : status[c] = "applied" => status'[c] = "applied"
        /\ CacheOK' /\ ListAsked
    BY DEF DataOK, ServerStep
  <1>2. answered \subseteq {c \in Conspects : status[c] = "applied"} /\ AppliedIsGone
        /\ (list # NoList => list.answer \cap answered = {})
    BY DEF WindowInv, GoneOK
  <1>3. answered' \subseteq {c \in Conspects : status'[c] = "applied"}
    BY <1>1, <1>2
  <1>4. summaries' \cap answered = {}
    BY <1>1, <1>2 DEF ListAsked, AppliedIsGone
  <1>5. selectedId' \notin answered
    BY <1>2 DEF StepOK, AppliedIsGone
  <1>6. list' # NoList => list'.answer \cap answered = {}
    <2>1. (OpenList)'.answer \cap answered = {}
      BY <1>3 DEF OpenList, IsOpen
    <2> QED BY <1>1, <1>2, <2>1 DEF ListAsked
  <1>7. GoneOK'
    BY <1>3, <1>4, <1>5, <1>6 DEF GoneOK, AppliedIsGone
  <1> QED BY <1>1, <1>7 DEF WindowInv, StepOK, EditorInv

LEMMA QuietStep ==
    ASSUME WindowInv, DataOK, StepOK, Still, UNCHANGED <<apply, answered>>
    PROVE  WindowInv' /\ KeepsEdits
  BY ApplyKept, StepKeeps DEF DataOK, StepOK

LEMMA ItemStays == ASSUME UNCHANGED <<details, unavailable, pageVars>> PROVE ShownItem' = ShownItem
  BY DEF ShownItem, ShownPage, pageVars

\* The page and the editor are not touched.
LEMMA UntouchedStep ==
    ASSUME WindowInv, CacheOK', DetailsKept,
           UNCHANGED <<details, unavailable, pageVars, switching, answered>>,
           UNCHANGED <<autosaveVars, draftVars, shown, left>>,
           behind => behind', shown # None /\ rows'[shown] # rows[shown] => behind'
    PROVE  StepOK /\ Still
  <1>1. ShownItem' = shown
    BY ItemStays DEF WindowInv, EditorOK
  <1>2. EditorInv'
    BY <1>1, EditorKept DEF WindowInv, EditorInv, EditorOK
  <1>3. UNCHANGED <<selectedId, page>> /\ UNCHANGED flight
    BY DEF pageVars, autosaveVars, saverVars
  <1>4. Pursues
    BY <1>3 DEF Pursues, WindowInv, MoveOK, MoveIsPursued
  <1>5. PageOK'
    BY StaysOK DEF WindowInv, Stays
  <1>6. MoveOK'
    BY <1>3, <1>4, MoveKept DEF WindowInv
  <1> QED BY <1>2, <1>3, <1>5, <1>6 DEF StepOK, Still, KeepsEdits

\* The editor that is rendered does something.
LEMMA InPlaceStep ==
    ASSUME WindowInv, CacheOK', DetailsKept, EditorInv',
           UNCHANGED <<pageVars, switching, answered, shown, left>>,
           flight # NoFlight => flight' # NoFlight
    PROVE  StepOK /\ Still
  <1>1. UNCHANGED <<selectedId, page>>
    BY DEF pageVars
  <1>2. Pursues
    BY DEF Pursues, WindowInv, MoveOK, MoveIsPursued
  <1>3. PageOK'
    BY StaysOK DEF WindowInv, Stays
  <1>4. MoveOK'
    BY <1>1, <1>2, MoveKept DEF WindowInv
  <1> QED BY <1>1, <1>3, <1>4 DEF StepOK, Still, KeepsEdits

\* What is shown follows the caches.
LEMMA RerenderStep ==
    ASSUME WindowInv, CacheOK', DetailsKept, UNCHANGED <<rows, switching, answered>>, Stays, Rerenders
    PROVE  StepOK /\ Still
  <1>1. PageOK' /\ selectedId' = selectedId /\ (page # None => page' = page)
    BY StaysOK DEF WindowInv
  <1>2. EditorInv'
    BY <1>1, RerendersOK DEF WindowInv, EditorInv
  <1>3. MoveOK'
    BY <1>1, RerendersPursues, MoveKept DEF WindowInv, EditorInv
  <1>4. shown # None => page # None
    BY EditorPage DEF WindowInv
  <1> QED BY <1>1, <1>2, <1>3, <1>4 DEF StepOK, Still, KeepsEdits

-----------------------------------------------------------------------------
(* The steps of the user.                                                  *)

LEMMA EditsStep ==
    ASSUME WindowInv, NEW d \in Draft, Edits(d)
    PROVE  WindowInv' /\ KeepsEdits
  <1>1. /\ Edit /\ draft' = d
        /\ UNCHANGED <<serverVars, cacheVars, pageVars, switching, apply, answered>>
        /\ UNCHANGED <<snapshot, request, shown, left, behind>>
    BY DEF Edits
  <1>2. UNCHANGED <<rows, details, unavailable>>
    BY <1>1 DEF serverVars, cacheVars
  <1>3. DataOK
    BY <1>1, DataStays
  <1>4. ShownItem' = shown
    BY <1>1, <1>2, ItemStays DEF WindowInv, EditorOK
  <1>5. EditorInv'
    BY <1>1, <1>2, <1>4, EditKeeps DEF WindowInv, EditorInv
  <1>6. UNCHANGED flight
    BY <1>1 DEF Edit
  <1>7. StepOK /\ Still
    BY <1>1, <1>3, <1>5, <1>6, InPlaceStep DEF DataOK
  <1> QED BY <1>1, <1>3, <1>7, QuietStep

LEMMA DraftType ==
    ASSUME draft \in Draft
    PROVE  /\ \A r \in Resolutions : [draft EXCEPT !.resolution = r] \in Draft
           /\ \A v \in Values : [draft EXCEPT !.value = v] \in Draft
           /\ \A S \in SUBSET Terms : [draft EXCEPT !.related = S] \in Draft
           /\ [draft EXCEPT !.focused = ~draft.focused] \in Draft
  BY DEF Draft

LEMMA ResolutionTypes ==
    {Pending, "create", "update", "keep_existing", "reject"} \subseteq Resolutions
  BY DEF Resolutions

LEMMA ChooseResolutionStep ==
    ASSUME WindowInv, ChooseResolution
    PROVE  WindowInv' /\ KeepsEdits
  <1>1. PICK r \in {"create", "update", "keep_existing", "reject"} :
            Edits([draft EXCEPT !.resolution = r])
    BY DEF ChooseResolution
  <1>2. [draft EXCEPT !.resolution = r] \in Draft
    BY DraftType, ResolutionTypes DEF WindowInv, EditorOK
  <1> QED BY <1>1, <1>2, EditsStep

LEMMA EditValueStep ==
    ASSUME WindowInv, EditValue
    PROVE  WindowInv' /\ KeepsEdits
  <1>1. PICK v \in Typed :
            Edits([draft EXCEPT !.value = v,
                      !.resolution = IF @ # Pending THEN @
                                     ELSE IF draft.focused THEN "update" ELSE "create"])
    BY DEF EditValue
  <1> DEFINE x == [draft EXCEPT !.value = v]
             r == IF draft.resolution # Pending THEN draft.resolution
                  ELSE IF draft.focused THEN "update" ELSE "create"
  <1>2. v \in Values /\ draft \in Draft
    BY DEF Values, WindowInv, EditorOK
  <1>3. x \in Draft /\ x.resolution = draft.resolution
    BY <1>2 DEF Draft
  <1>4. r \in Resolutions
    BY <1>2, ResolutionTypes DEF Draft
  <1> HIDE DEF x, r
  <1>5. [x EXCEPT !.resolution = r] \in Draft
    BY <1>3, <1>4 DEF Draft
  <1>6. Edits([x EXCEPT !.resolution = r])
    BY <1>1, <1>3 DEF x, r
  <1> QED BY <1>5, <1>6, EditsStep

LEMMA ChooseTargetStep ==
    ASSUME WindowInv, ChooseTarget
    PROVE  WindowInv' /\ KeepsEdits
  <1> DEFINE x == [draft EXCEPT !.focused = ~draft.focused]
             r == IF draft.focused /\ ~Targeted(draft.resolution) THEN draft.resolution ELSE Pending
  <1>1. Edits([draft EXCEPT !.focused = ~@,
                 !.resolution = IF draft.focused /\ ~Targeted(@) THEN @ ELSE Pending])
    BY DEF ChooseTarget
  <1>2. draft \in Draft
    BY DEF WindowInv, EditorOK
  <1>3. x \in Draft /\ x.resolution = draft.resolution
    BY <1>2 DEF Draft
  <1>4. r \in Resolutions
    BY <1>2, ResolutionTypes DEF Draft
  <1> HIDE DEF x, r
  <1>5. [x EXCEPT !.resolution = r] \in Draft
    BY <1>3, <1>4 DEF Draft
  <1>6. Edits([x EXCEPT !.resolution = r])
    BY <1>1, <1>3 DEF x, r
  <1> QED BY <1>5, <1>6, EditsStep

LEMMA ToggleRelationshipStep ==
    ASSUME WindowInv, ToggleRelationship
    PROVE  WindowInv' /\ KeepsEdits
  <1>1. PICK t \in Terms :
            Edits([draft EXCEPT !.related = IF t \in @ THEN @ \ {t} ELSE @ \cup {t},
                                !.resolution = IF @ = Pending THEN "create" ELSE @])
    BY DEF ToggleRelationship
  <1> DEFINE S == IF t \in draft.related THEN draft.related \ {t} ELSE draft.related \cup {t}
             x == [draft EXCEPT !.related = S]
             r == IF draft.resolution = Pending THEN "create" ELSE draft.resolution
  <1>2. draft \in Draft
    BY DEF WindowInv, EditorOK
  <1>3. S \in SUBSET Terms
    BY <1>2 DEF Draft
  <1> HIDE DEF S
  <1>4. x \in Draft /\ x.resolution = draft.resolution
    BY <1>2, <1>3 DEF Draft
  <1>5. r \in Resolutions
    BY <1>2, ResolutionTypes DEF Draft
  <1> HIDE DEF x, r
  <1>6. [x EXCEPT !.resolution = r] \in Draft
    BY <1>4, <1>5 DEF Draft
  <1>7. Edits([x EXCEPT !.resolution = r])
    BY <1>1, <1>4 DEF x, r, S
  <1> QED BY <1>6, <1>7, EditsStep

LEMMA SavesStep ==
    ASSUME WindowInv, Saves
    PROVE  WindowInv' /\ KeepsEdits
  <1>1. /\ editor = "mounted" /\ Flushes
        /\ UNCHANGED <<serverVars, cacheVars, pageVars, switching, apply, answered>>
    BY DEF Saves
  <1>2. UNCHANGED <<rows, details, unavailable, shown, left>> /\ shown # None
    BY <1>1 DEF serverVars, cacheVars, Flushes, WindowInv, EditorOK
  <1>3. DataOK
    BY <1>1, DataStays
  <1>4. ShownItem' = shown
    BY <1>1, <1>2, ItemStays DEF WindowInv, EditorOK
  <1>5. EditorInv' /\ (flight # NoFlight => flight' # NoFlight)
    BY <1>1, <1>2, <1>4, FlushesOK DEF WindowInv, EditorInv
  <1>6. StepOK /\ Still
    BY <1>1, <1>2, <1>3, <1>5, InPlaceStep DEF DataOK
  <1> QED BY <1>1, <1>3, <1>6, QuietStep

LEMMA MovesType == ASSUME WindowInv, NEW to \in Moves PROVE MoveType(to)
  <1>1. CASE to \in {[kind |-> "conspect", id |-> c] : c \in summaries \ {selectedId}}
    <2>1. PICK c \in summaries : to = [kind |-> "conspect", id |-> c]
      BY <1>1
    <2>2. c \in Conspects \ answered
      BY DEF WindowInv, CacheOK, GoneOK, AppliedIsGone
    <2> QED BY <2>1, <2>2 DEF MoveType
  <1>2. CASE to \notin {[kind |-> "conspect", id |-> c] : c \in summaries \ {selectedId}}
    <2>1. selectedId # None /\ details[selectedId] # NoDetail
      BY <1>2 DEF Moves
    <2>2. PICK p \in ItemsOf[selectedId] \cup {"summary"} : to = [kind |-> "page", page |-> p]
      BY <1>2 DEF Moves
    <2>3. ItemsOf[selectedId] \subseteq Items
      BY <2>1 DEF WindowInv, PageOK
    <2> QED BY <2>1, <2>2, <2>3 DEF MoveType
  <1> QED BY <1>1, <1>2

LEMMA MoveStep ==
    ASSUME WindowInv, Move
    PROVE  WindowInv' /\ KeepsEdits
  <1>1. /\ switching = NoMove /\ apply = "idle"
        /\ UNCHANGED <<serverVars, cacheVars, apply, answered>>
    BY DEF Move
  <1>2. PICK to \in Moves :
            IF editor = "mounted" /\ (flight # NoFlight \/ Dirty)
            THEN switching' = to /\ Flushes /\ UNCHANGED pageVars
            ELSE Goes(to) /\ Rerenders /\ UNCHANGED switching
    BY DEF Move
  <1>3. MoveType(to)
    BY MovesType
  <1>4. DataOK
    BY <1>1, DataStays
  <1>5. UNCHANGED <<rows, details, unavailable>>
    BY <1>1 DEF serverVars, cacheVars
  <1>6. ApplyOK'
    BY <1>1 DEF ApplyOK
  <1>7. \A s \in left : ~s.resumes
    BY <1>1 DEF WindowInv, MoveOK
  <1>8. CASE editor = "mounted" /\ (flight # NoFlight \/ Dirty)
    <2>1. switching' = to /\ Flushes /\ UNCHANGED pageVars
      BY <1>2, <1>8
    <2>2. shown # None /\ UNCHANGED <<shown, left>>
      BY <1>8, <2>1 DEF WindowInv, EditorOK, Flushes
    <2>3. ShownItem' = shown
      BY <1>5, <2>1, ItemStays DEF WindowInv, EditorOK
    <2>4. EditorInv' /\ flight' # NoFlight
      BY <1>5, <1>8, <2>1, <2>2, <2>3, FlushesOK DEF WindowInv, EditorInv
    <2>5. UNCHANGED <<selectedId, page, orderedItems>>
      BY <2>1 DEF pageVars
    <2>6. PageOK'
      BY <1>5, <2>5 DEF WindowInv, PageOK
    <2>7. MoveType(to)'
      BY <1>1, <1>3, <1>5, <2>5 DEF MoveType
    <2>8. to # NoMove
      BY <1>3 DEF MoveType, NoMove, None
    <2>9. MoveOK'
      BY <1>7, <2>1, <2>2, <2>4, <2>7, <2>8 DEF MoveOK, MoveIsPursued
    <2>10. StepOK /\ KeepsEdits
      BY <2>4, <2>5, <2>6, <2>9 DEF StepOK, KeepsEdits
    <2> QED BY <1>1, <1>4, <1>6, <2>10, StepKeeps
  <1>9. CASE ~(editor = "mounted" /\ (flight # NoFlight \/ Dirty))
    <2>1. Goes(to) /\ Rerenders /\ UNCHANGED switching
      BY <1>2, <1>9
    <2>2. PageOK' /\ (selectedId' = selectedId \/ selectedId' \in Conspects \ answered)
      BY <1>3, <1>4, <2>1, GoesOK DEF WindowInv, DataOK
    <2>3. EditorInv'
      BY <1>4, <1>5, <2>1, <2>2, RerendersOK DEF WindowInv, EditorInv, DataOK
    <2>4. Pursues
      BY <2>1, RerendersPursues DEF WindowInv, EditorInv
    <2>5. MoveOK'
      BY <1>1, <2>1, <2>4, MoveOver DEF Pursues
    <2>6. shown # None => Kept
      BY <1>9 DEF WindowInv, EditorOK, SaverOK
    <2>7. StepOK /\ KeepsEdits
      BY <2>2, <2>3, <2>5, <2>6 DEF StepOK, KeepsEdits
    <2> QED BY <1>1, <1>4, <1>6, <2>7, StepKeeps
  <1> QED BY <1>8, <1>9

-----------------------------------------------------------------------------
(* The steps of persist().                                                 *)

\* The end of persist(), for better or worse.
LEMMA SucceedsStep ==
    ASSUME WindowInv, DataOK, UNCHANGED rows, request \in {"nothing", "refresh"}, PersistSucceeds
    PROVE  WindowInv' /\ KeepsEdits
  <1>1. StepOK /\ Still /\ UNCHANGED <<apply, answered>>
    BY PersistSucceedsOK DEF WindowInv, EditorInv, DataOK
  <1> QED BY <1>1, QuietStep

LEMMA FailsStep ==
    ASSUME WindowInv, DataOK, UNCHANGED rows, request # None, PersistFails
    PROVE  WindowInv' /\ KeepsEdits
  <1>1. StepOK /\ Still /\ UNCHANGED <<apply, answered>>
    BY PersistFailsOK DEF WindowInv, EditorInv, DataOK
  <1> QED BY <1>1, QuietStep

LEMMA RequestEndsStep ==
    ASSUME WindowInv,
           PersistNothing \/ PersistInvalid \/ PutRefused \/ Refreshed \/ ConflictRefreshed \/ RequestLost
    PROVE  WindowInv' /\ KeepsEdits
  <1>0. {"nothing", "invalid", "tags", "decision", "refresh", "conflict"} \cap {None} = {}
    BY DEF None
  <1>1. UNCHANGED serverVars
    BY DEF PersistNothing, PersistInvalid, PutRefused, Refreshed, ConflictRefreshed, RequestLost
  <1>2. UNCHANGED rows /\ ServerStep
    BY <1>1, ServerStays DEF serverVars, WindowInv
  <1>3. CASE PersistNothing
    BY <1>1, <1>2, <1>3, DataStays, SucceedsStep DEF PersistNothing
  <1>4. CASE PersistInvalid
    BY <1>0, <1>1, <1>2, <1>4, DataStays, FailsStep DEF PersistInvalid
  <1>5. CASE PutRefused
    BY <1>0, <1>1, <1>2, <1>5, DataStays, FailsStep DEF PutRefused
  <1>6. CASE Refreshed
    <2>1. DataOK
      BY <1>2, <1>6, DataCached DEF Refreshed
    <2> QED BY <1>2, <1>6, <2>1, SucceedsStep DEF Refreshed
  <1>7. CASE ConflictRefreshed
    <2>1. DataOK
      BY <1>2, <1>7, DataCached DEF ConflictRefreshed
    <2> QED BY <1>0, <1>2, <1>7, <2>1, FailsStep DEF ConflictRefreshed
  <1>8. CASE RequestLost
    BY <1>0, <1>1, <1>2, <1>8, DataStays, FailsStep DEF RequestLost, Requests
  <1> QED BY <1>3, <1>4, <1>5, <1>6, <1>7, <1>8

LEMMA PutTagStep ==
    ASSUME WindowInv, PutTag
    PROVE  WindowInv' /\ KeepsEdits
  <1>0. request = "tags" /\ request # None
    BY DEF PutTag, None
  <1>1. /\ TagWritten(shown) /\ Caches(selectedId)
        /\ UNCHANGED <<pageVars, switching, apply, answered>>
    BY DEF PutTag
  <1>2. /\ shown \in Items /\ SaveOK(snapshot) /\ draft \in Draft /\ left \in SUBSET Save
        /\ flight # NoFlight
    BY <1>0, SnapshotType DEF WindowInv, EditorOK
  <1>3. ServerStep /\ UNCHANGED rows
    BY <1>1, <1>2, TagWrittenOK DEF WindowInv, TagWritten
  <1>4. DataOK
    BY <1>1, <1>3, DataCached
  <1>5. PageOK' /\ UNCHANGED <<selectedId, page>>
    BY <1>1, <1>4, StaysOK DEF WindowInv, DataOK, Stays, pageVars
  <1>6. CASE ShownItem' = shown
    <2>1. request' = "decision" /\ UNCHANGED <<autosaveVars, draft, snapshot, shown, left, behind>>
      BY <1>6 DEF PutTag
    <2>2. UNCHANGED <<saverVars, editor, stored, flight>>
      BY <2>1 DEF autosaveVars, saverVars
    <2>3. EditorInv'
      BY <1>0, <1>6, <2>1, <2>2, RequestGoesOn DEF WindowInv, EditorInv, Requests
    <2>4. StepOK /\ Still
      BY <1>1, <1>4, <2>1, <2>2, <2>3, InPlaceStep DEF DataOK
    <2> QED BY <1>1, <1>4, <2>4, QuietStep
  <1>7. CASE ShownItem' # shown
    <2>1. Remount(left \cup Leaving(snapshot, "decision"))
      BY <1>7 DEF PutTag
    <2>2. Leaving(snapshot, "decision") \subseteq Save
      BY <1>2, LeavingType DEF Steps, Requests
    <2>3. EditorInv'
      BY <1>2, <1>4, <1>5, <2>1, <2>2, RemountOK DEF WindowInv, DataOK
    <2>4. PICK t : Leaving(snapshot, "decision") = {t} /\ t.resumes = Waiting
      BY LeavingResumes
    <2>5. left' = left \cup {t}
      BY <2>1, <2>4 DEF Remount
    <2>6. Pursues
      BY <2>4, <2>5, OneMorePursues DEF WindowInv, MoveOK
    <2>7. MoveOK'
      BY <1>1, <1>4, <1>5, <2>6, MoveKept DEF WindowInv, DataOK
    <2>8. StepOK /\ Still
      BY <1>1, <1>5, <2>3, <2>7 DEF StepOK, Still, KeepsEdits
    <2> QED BY <1>1, <1>4, <2>8, QuietStep
  <1> QED BY <1>6, <1>7

\* An item is of one conspect.
LEMMA ItsConspect == ASSUME NEW c \in Conspects, NEW i \in ItemsOf[c] PROVE ConspectOf(i) = c
  BY DEF ConspectOf

LEMMA PutDecisionStep ==
    ASSUME WindowInv, PutDecision
    PROVE  WindowInv' /\ KeepsEdits
  <1>0. request = "decision" /\ request # None
    BY DEF PutDecision, None
  <1>1. /\ UNCHANGED <<cacheVars, pageVars, switching, apply, answered>>
        /\ UNCHANGED <<draft, snapshot, shown, left>>
    BY DEF PutDecision
  <1>2. SaveOK(snapshot) /\ snapshot.item = shown
    BY <1>0, SnapshotType DEF WindowInv, EditorOK, SnapshotOK
  <1>3. UNCHANGED <<details, unavailable>>
    BY <1>1 DEF cacheVars
  <1>4. ShownItem' = shown
    BY <1>1, <1>3, ItemStays DEF WindowInv, EditorOK
  <1>5. ServerStep /\ EditorInv' /\ UNCHANGED flight
    <2>1. CASE Accepts(snapshot) /\ DecisionWritten(snapshot) /\ Stored /\ request' = "refresh"
      <3>1. ServerStep /\ HoldsNext(snapshot.item, snapshot.draft)
        BY <1>2, <2>1, DecisionWrittenOK DEF WindowInv
      <3>2. Holds(shown, snapshot.draft)'
        BY <1>1, <1>2, <3>1 DEF Holds, HoldsNext
      <3>3. stored' = flight /\ UNCHANGED <<saverVars, editor>>
        BY <2>1 DEF Stored
      <3>4. EditorInv'
        BY <1>0, <1>1, <1>4, <2>1, <3>2, <3>3, RequestGoesOn DEF WindowInv, EditorInv, Requests
      <3> QED BY <3>1, <3>3, <3>4 DEF saverVars
    <2>2. CASE Conflicts(snapshot) /\ Rematched(selectedId) /\ request' = "conflict" /\ UNCHANGED autosaveVars
      <3>1. status[selectedId] # "applied"
        BY <1>0, <1>2, <2>2, EditorPage, ItsConspect DEF Conflicts, Editable, WindowInv, EditorOK
      <3>2. ServerStep
        BY <2>2, <3>1, RematchedOK DEF WindowInv
      <3>3. UNCHANGED <<saverVars, editor, stored, flight>>
        BY <2>2 DEF autosaveVars, saverVars
      <3>4. EditorInv'
        BY <1>0, <1>1, <1>4, <2>2, <3>3, RequestGoesOn DEF WindowInv, EditorInv, Requests
      <3> QED BY <3>2, <3>3, <3>4
    <2> QED BY <1>1, <2>1, <2>2 DEF PutDecision
  <1>6. DataOK
    BY <1>1, <1>5, CacheStays DEF WindowInv, DataOK
  <1>7. StepOK /\ Still
    BY <1>1, <1>5, <1>6, InPlaceStep DEF DataOK
  <1> QED BY <1>1, <1>6, <1>7, QuietStep

-----------------------------------------------------------------------------
(* The steps of saves that were left.                                      *)

LEMMA LeftType == ASSUME WindowInv, NEW s \in left PROVE s \in Save /\ SaveOK(s)
  BY DEF WindowInv, EditorOK, Save, SaveOK

LEMMA LeftEndsStep ==
    ASSUME WindowInv, DataOK, NEW s \in left, NEW ok \in BOOLEAN, LeftEnds(s, ok)
    PROVE  WindowInv' /\ KeepsEdits
  <1>1. StepOK /\ Still /\ UNCHANGED <<apply, answered>>
    BY LeftEndsOK DEF WindowInv, EditorInv, DataOK
  <1> QED BY <1>1, QuietStep

LEMMA LeftRefusedStep ==
    ASSUME WindowInv, NEW s \in left, LeftRefused(s)
    PROVE  WindowInv' /\ KeepsEdits
  <1>1. DataOK
    BY DataStays DEF LeftRefused
  <1>2. LeftEnds(s, FALSE)
    BY DEF LeftRefused
  <1> QED BY <1>1, <1>2, LeftEndsStep

LEMMA LeftTagStep ==
    ASSUME WindowInv, NEW s \in left, s.request = "tags", TagWritten(s.item), Caches(ConspectOf(s.item)),
           UNCHANGED <<pageVars, switching, apply, answered>>,
           IF ShownItem' = shown
           THEN /\ left' = (left \ {s}) \cup {[s EXCEPT !.request = "decision"]}
                /\ UNCHANGED <<autosaveVars, draftVars, shown, behind>>
           ELSE Remount((left \ {s}) \cup {[s EXCEPT !.request = "decision"]} \cup OnItsWay)
    PROVE  WindowInv' /\ KeepsEdits
  <1> DEFINE t == [s EXCEPT !.request = "decision"]
  <1>1. s \in Save /\ s.item \in Items /\ left \subseteq Save
    BY LeftType DEF WindowInv, EditorOK, SaveOK
  <1>2. t \in Save /\ t.resumes = s.resumes
    BY <1>1, SaveAgain DEF Steps, Requests
  <1>3. \/ left' = (left \ {s}) \cup {t} /\ UNCHANGED <<autosaveVars, draftVars, shown, behind>>
                                      /\ ShownItem' = shown
        \/ Remount((left \ {s}) \cup {t} \cup OnItsWay)
    OBVIOUS
  <1> HIDE DEF t
  <1>4. ServerStep /\ UNCHANGED rows
    BY <1>1, TagWrittenOK DEF WindowInv, TagWritten
  <1>5. DataOK
    BY <1>4, DataCached
  <1>6. PageOK' /\ UNCHANGED <<selectedId, page>>
    BY <1>5, StaysOK DEF WindowInv, DataOK, Stays, pageVars
  <1>7. EditorInv'
    <2>1. CASE /\ left' = (left \ {s}) \cup {t} /\ UNCHANGED <<autosaveVars, draftVars, shown, behind>>
               /\ ShownItem' = shown
      BY <1>1, <1>2, <1>4, <2>1, EditorKept DEF WindowInv, EditorInv
    <2>2. CASE Remount((left \ {s}) \cup {t} \cup OnItsWay)
      <3>1. (left \ {s}) \cup {t} \cup OnItsWay \in SUBSET Save
        BY <1>1, <1>2, OnItsWayType DEF WindowInv
      <3> QED BY <1>5, <1>6, <2>2, <3>1, RemountOK DEF WindowInv, DataOK
    <2> QED BY <1>3, <2>1, <2>2
  <1>8. Pursues
    <2>1. \/ left' = (left \ {s}) \cup {t} /\ UNCHANGED <<shown, flight>>
          \/ left' = (left \ {s}) \cup {t} \cup OnItsWay
      BY <1>3 DEF Remount, autosaveVars, saverVars
    <2> DEFINE M == {t}
    <2>2. (\A m \in M : m.resumes = s.resumes) /\ (\A m, n \in M : m = n) /\ M # {}
      BY <1>2
    <2>3. \/ left' = (left \ {s}) \cup M /\ UNCHANGED <<shown, flight>>
          \/ left' = (left \ {s}) \cup M \cup OnItsWay
      BY <2>1
    <2> HIDE DEF M
    <2>4. EditorInv /\ MoveOK
      BY DEF WindowInv, EditorInv
    <2> QED BY <2>2, <2>3, <2>4, ReplacedPursues
  <1>9. MoveOK'
    BY <1>5, <1>6, <1>8, MoveKept DEF WindowInv, DataOK
  <1>10. StepOK /\ Still
    BY <1>6, <1>7, <1>9 DEF StepOK, Still, KeepsEdits
  <1> QED BY <1>5, <1>10, QuietStep

LEMMA LeftGoesOnStep ==
    ASSUME WindowInv, NEW s \in left, LeftGoesOn(s)
    PROVE  WindowInv' /\ KeepsEdits
  <1> DEFINE c == ConspectOf(s.item)
  <1>0. SaveOK(s)
    BY LeftType
  <1>1. CASE /\ s.request = "tags" /\ TagWritten(s.item)
             /\ Caches(c)
             /\ UNCHANGED <<pageVars, switching, apply, answered>>
             /\ IF ShownItem' = shown
                THEN /\ left' = (left \ {s}) \cup {[s EXCEPT !.request = "decision"]}
                     /\ UNCHANGED <<autosaveVars, draftVars, shown, behind>>
                ELSE Remount((left \ {s}) \cup {[s EXCEPT !.request = "decision"]} \cup OnItsWay)
    BY <1>1, LeftTagStep
  <1>2. CASE /\ s.request = "decision" /\ Accepts(s) /\ DecisionWritten(s)
             /\ Caches(c) /\ LeftEnds(s, TRUE)
    <2>1. ServerStep
      BY <1>0, <1>2, DecisionWrittenOK DEF WindowInv
    <2>2. DataOK
      BY <1>2, <2>1, DataCached
    <2> QED BY <1>2, <2>2, LeftEndsStep
  <1>3. CASE /\ s.request = "decision" /\ Conflicts(s) /\ Rematched(c)
             /\ Caches(c) /\ LeftEnds(s, FALSE)
    <2>1. status[c] # "applied"
      BY <1>3 DEF Conflicts, Editable
    <2>2. ServerStep
      BY <1>3, <2>1, RematchedOK DEF WindowInv
    <2>3. DataOK
      BY <1>3, <2>2, DataCached
    <2> QED BY <1>3, <2>3, LeftEndsStep
  <1>4. CASE /\ s.request \in {"refresh", "conflict"} /\ UNCHANGED serverVars
             /\ Caches(c) /\ LeftEnds(s, s.request = "refresh")
    <2>1. ServerStep
      BY <1>4, ServerStays DEF WindowInv
    <2>2. DataOK
      BY <1>4, <2>1, DataCached
    <2>3. (s.request = "refresh") \in BOOLEAN
      OBVIOUS
    <2> QED BY <1>4, <2>2, <2>3, LeftEndsStep
  <1>5. CASE /\ s.request \in {"nothing", "invalid"} /\ UNCHANGED <<serverVars, cacheVars>>
             /\ LeftEnds(s, s.request = "nothing")
    <2>1. DataOK
      BY <1>5, DataStays
    <2>2. (s.request = "nothing") \in BOOLEAN
      OBVIOUS
    <2> QED BY <1>5, <2>1, <2>2, LeftEndsStep
  <1> QED BY <1>1, <1>2, <1>3, <1>4, <1>5 DEF LeftGoesOn

-----------------------------------------------------------------------------
(* Polls.                                                                  *)

LEMMA DetailNow == ASSUME ServerOK, NEW c \in Conspects PROVE Detail(c) \in DetailsOf(c)
  BY DetailType

\* A poll is asked for; nothing is shown anew.
LEMMA AskStep ==
    ASSUME WindowInv, AskDetail \/ AskSummaries
    PROVE  WindowInv' /\ KeepsEdits
  <1>1. /\ UNCHANGED <<serverVars, details, summaries, unavailable, pageVars>>
        /\ UNCHANGED <<switching, apply, answered, editorVars>>
    BY DEF AskDetail, AskSummaries
  <1>2. ServerStep /\ UNCHANGED rows
    BY <1>1, ServerStays DEF WindowInv, serverVars
  <1>3. CacheOK' /\ ListAsked
    <2>1. CASE AskDetail
      <3>1. selectedId \in Conspects /\ poll' = [of |-> selectedId, answer |-> Detail(selectedId)]
        BY <2>1 DEF AskDetail, WindowInv, PageOK
      <3>2. Detail(selectedId) \in DetailsOf(selectedId)
        BY <3>1, DetailNow DEF WindowInv
      <3>3. list' = list
        BY <2>1 DEF AskDetail
      <3> QED BY <1>1, <3>1, <3>2, <3>3 DEF WindowInv, CacheOK, ListAsked
    <2>2. CASE AskSummaries
      <3>1. list' = OpenList /\ OpenList.answer \subseteq Conspects /\ poll' = poll
        BY <2>2 DEF AskSummaries, OpenList
      <3>2. (OpenList)' = OpenList
        BY <1>1 DEF OpenList, IsOpen, serverVars
      <3> HIDE DEF OpenList
      <3> QED BY <1>1, <3>1, <3>2 DEF WindowInv, CacheOK, ListAsked
    <2> QED BY <2>1, <2>2
  <1>4. DetailsKept
    BY <1>1 DEF DetailsKept
  <1>5. DataOK
    BY <1>2, <1>3, <1>4 DEF DataOK
  <1>6. UNCHANGED <<autosaveVars, draftVars, shown, left, behind>>
    BY <1>1 DEF editorVars
  <1>7. StepOK /\ Still
    BY <1>1, <1>2, <1>3, <1>4, <1>6, UntouchedStep
  <1> QED BY <1>1, <1>5, <1>7, QuietStep

LEMMA DetailAnsweredStep ==
    ASSUME WindowInv, DetailAnswered
    PROVE  WindowInv' /\ KeepsEdits
  <1>1. /\ UNCHANGED <<serverVars, summaries, list, switching, apply, answered>>
        /\ poll # NoPoll /\ poll' = NoPoll /\ details' = [details EXCEPT ![poll.of] = poll.answer]
        /\ Stays /\ Rerenders
    BY DEF DetailAnswered, Stays
  <1>2. ServerStep /\ UNCHANGED rows
    BY <1>1, ServerStays DEF WindowInv, serverVars
  <1>3. CacheOK' /\ DetailsKept /\ ListAsked
    BY <1>1, NotDetail DEF WindowInv, CacheOK, DetailsKept, ListAsked
  <1>4. StepOK /\ Still
    BY <1>1, <1>2, <1>3, RerenderStep
  <1> QED BY <1>1, <1>2, <1>3, <1>4, QuietStep DEF DataOK

LEMMA SelectsOK ==
    ASSUME CacheOK', NEW c \in Conspects \cup {None}, NEW p \in Items \cup {"summary", None},
           NEW o, Selects(c, p, o), p # None => c # None /\ details'[c] # NoDetail /\ o = c
    PROVE  PageOK' /\ (selectedId' = c \/ (c = None /\ selectedId' \in summaries')) /\ (p # None => page' = p)
  <1>1. CASE c = None /\ summaries' # {}
    <2>1. PICK k \in summaries' : Opens(k, None, o)
      BY <1>1 DEF Selects
    <2>2. k \in Conspects
      BY <2>1 DEF CacheOK
    <2>3. PageOK' /\ selectedId' = k
      BY <2>1, <2>2, OpensOK
    <2> QED BY <1>1, <2>1, <2>3
  <1>2. CASE ~(c = None /\ summaries' # {})
    <2>1. Opens(c, p, o)
      BY <1>2 DEF Selects
    <2> QED BY <2>1, OpensOK
  <1> QED BY <1>1, <1>2

LEMMA SummariesAnsweredStep ==
    ASSUME WindowInv, SummariesAnswered
    PROVE  WindowInv' /\ KeepsEdits
  <1>1. /\ UNCHANGED <<serverVars, details, poll, switching, apply, answered>>
        /\ list # NoList /\ list' = NoList /\ summaries' = list.answer
        /\ Selects(selectedId, page, orderedItems) /\ Rerenders
    BY DEF SummariesAnswered
  <1>2. ServerStep /\ UNCHANGED rows
    BY <1>1, ServerStays DEF WindowInv, serverVars
  <1>3. CacheOK' /\ DetailsKept /\ ListAsked
    BY <1>1 DEF WindowInv, CacheOK, DetailsKept, ListAsked
  <1>4. /\ PageOK' /\ (page # None => page' = page)
        /\ selectedId' = selectedId \/ (selectedId = None /\ selectedId' \in summaries')
    <2>1. /\ selectedId \in Conspects \cup {None} /\ page \in Items \cup {"summary", None}
          /\ page # None => selectedId # None /\ details'[selectedId] # NoDetail /\ orderedItems = selectedId
      BY <1>1 DEF WindowInv, PageOK
    <2> QED BY <1>1, <1>3, <2>1, SelectsOK
  <1>5. selectedId' = selectedId \/ selectedId' \in Conspects \ answered
    BY <1>1, <1>4 DEF WindowInv, GoneOK, CacheOK
  <1>6. EditorInv'
    BY <1>1, <1>2, <1>3, <1>4, RerendersOK DEF WindowInv, EditorInv
  <1>7. Pursues
    BY <1>1, RerendersPursues DEF WindowInv, EditorInv
  <1>8. MoveOK'
    <2>1. switching # NoMove => MoveType(switching)'
      BY <1>1, <1>4 DEF WindowInv, MoveOK, MoveType
    <2> QED BY <1>1, <1>7, <2>1 DEF MoveOK, Pursues, MoveIsPursued
  <1>9. shown # None => page # None
    BY EditorPage DEF WindowInv
  <1>10. page # None => selectedId # None
    BY DEF WindowInv, PageOK
  <1>11. StepOK /\ Still
    BY <1>1, <1>4, <1>5, <1>6, <1>8, <1>9, <1>10 DEF StepOK, Still, KeepsEdits
  <1> QED BY <1>1, <1>2, <1>3, <1>11, QuietStep DEF DataOK

LEMMA PollFailedStep ==
    ASSUME WindowInv, PollFailed
    PROVE  WindowInv' /\ KeepsEdits
  <1>1. /\ UNCHANGED <<serverVars, details, summaries, pageVars, switching, apply, answered>>
        /\ \/ poll' = NoPoll /\ list' = list
           \/ list' = NoList /\ poll' = poll
        /\ Rerenders
    BY DEF PollFailed
  <1>2. ServerStep /\ UNCHANGED rows
    BY <1>1, ServerStays DEF WindowInv, serverVars
  <1>3. CacheOK' /\ DetailsKept /\ ListAsked
    BY <1>1 DEF WindowInv, CacheOK, DetailsKept, ListAsked
  <1>4. StepOK /\ Still
    BY <1>1, <1>2, <1>3, RerenderStep DEF Stays
  <1> QED BY <1>1, <1>2, <1>3, <1>4, QuietStep DEF DataOK

-----------------------------------------------------------------------------
(* Application.                                                            *)

LEMMA ApplyStepOK ==
    ASSUME WindowInv, Apply
    PROVE  WindowInv' /\ KeepsEdits
  <1>1. /\ UNCHANGED <<serverVars, cacheVars, pageVars, switching, answered, editorVars>>
        /\ ShownPage = "summary" /\ switching = NoMove /\ apply' = "sent"
    BY DEF Apply
  <1>2. DataOK
    BY <1>1, DataStays
  <1>3. page = "summary"
    BY <1>1 DEF ShownPage, None
  <1>4. ApplyOK'
    BY <1>1, <1>3 DEF ApplyOK, pageVars
  <1>5. UNCHANGED <<rows, details, unavailable, autosaveVars, draftVars, shown, left, behind>>
    BY <1>1 DEF serverVars, cacheVars, editorVars
  <1>6. StepOK /\ Still
    BY <1>1, <1>2, <1>5, UntouchedStep DEF DataOK
  <1> QED BY <1>1, <1>2, <1>4, <1>6, StepKeeps DEF StepOK

LEMMA ApplyLostStep ==
    ASSUME WindowInv, ApplyLost
    PROVE  WindowInv' /\ KeepsEdits
  <1>1. /\ UNCHANGED <<serverVars, cacheVars, pageVars, switching, answered, editorVars>>
        /\ apply' = "idle"
    BY DEF ApplyLost
  <1>2. DataOK
    BY <1>1, DataStays
  <1>3. ApplyOK'
    BY <1>1 DEF ApplyOK
  <1>4. UNCHANGED <<rows, details, unavailable, autosaveVars, draftVars, shown, left, behind>>
    BY <1>1 DEF serverVars, cacheVars, editorVars
  <1>5. StepOK /\ Still
    BY <1>1, <1>2, <1>4, UntouchedStep DEF DataOK
  <1> QED BY <1>1, <1>2, <1>3, <1>5, StepKeeps DEF StepOK

\* The application goes out from the summary: no editor is rendered.
LEMMA NoEditorApplies ==
    ASSUME WindowInv, apply # "idle"
    PROVE  /\ page = "summary" /\ switching = NoMove /\ shown = None
           /\ selectedId \in Conspects /\ orderedItems = selectedId /\ details[selectedId] # NoDetail
  <1>1. page = "summary" /\ switching = NoMove
    BY DEF WindowInv, ApplyOK
  <1>2. page # None
    BY <1>1 DEF None
  <1>3. shown = None
    BY <1>1, EditorPage DEF WindowInv
  <1> QED BY <1>1, <1>2, <1>3 DEF WindowInv, PageOK

LEMMA ApplyConspectStep ==
    ASSUME WindowInv, ApplyConspect
    PROVE  WindowInv' /\ KeepsEdits
  <1> DEFINE c == selectedId
             stale == \E i \in ItemsOf[c] : Targeted(rows[i].resolution) /\ rows[i].target # graph
  <1>1. /\ UNCHANGED <<cacheVars, pageVars, switching, answered, editorVars>>
        /\ apply = "sent"
    BY DEF ApplyConspect
  <1>2. /\ page = "summary" /\ switching = NoMove /\ shown = None /\ c \in Conspects
    BY <1>1, NoEditorApplies
  <1>3. \/ /\ status[c] = "ready_to_apply"
           /\ status' = [status EXCEPT ![c] = "applied"] /\ apply' = "done"
           /\ graph' = IF \E i \in ItemsOf[c] : rows[i].resolution = "update"
                       THEN graph + 1 ELSE graph
           /\ UNCHANGED <<rows, decided, matched>>
        \/ status[c] = "ready_to_apply" /\ Rematched(c) /\ apply' = "refused"
        \/ status[c] = "applied" /\ apply' = "done" /\ UNCHANGED serverVars
        \/ apply' = "refused" /\ UNCHANGED serverVars
    BY DEF ApplyConspect
  <1> HIDE DEF c
  <1>4. ServerStep /\ apply' \in {"done", "refused"} /\ (apply' = "done" => status'[c] = "applied")
    <2>1. ServerOK
      BY DEF WindowInv
    <2>2. CASE /\ status' = [status EXCEPT ![c] = "applied"] /\ apply' = "done"
               /\ graph' = IF \E i \in ItemsOf[c] : rows[i].resolution = "update"
                           THEN graph + 1 ELSE graph
               /\ UNCHANGED <<rows, decided, matched>>
      <3>1. graph' \in Nat
        BY <2>1, <2>2 DEF ServerOK
      <3>2. status' \in [Conspects -> Statuses] /\ status'[c] = "applied"
        BY <1>2, <2>1, <2>2 DEF ServerOK, Statuses
      <3>3. \A k \in Conspects : status[k] = "applied" => status'[k] = "applied"
        BY <1>2, <2>1, <2>2 DEF ServerOK
      <3> QED BY <2>1, <2>2, <3>1, <3>2, <3>3 DEF ServerOK, ServerStep
    <2>3. CASE status[c] = "ready_to_apply" /\ Rematched(c) /\ apply' = "refused"
      BY <2>1, <2>3, RematchedOK
    <2>4. CASE status[c] = "applied" /\ apply' = "done" /\ UNCHANGED serverVars
      BY <2>1, <2>4, ServerStays DEF serverVars
    <2>5. CASE apply' = "refused" /\ UNCHANGED serverVars
      BY <2>1, <2>5, ServerStays
    <2> QED BY <1>3, <2>2, <2>3, <2>4, <2>5
  <1>5. DataOK
    BY <1>1, <1>4, CacheStays DEF WindowInv, DataOK
  <1>6. ApplyOK'
    BY <1>1, <1>2, <1>4 DEF ApplyOK, pageVars, c
  <1>7. UNCHANGED <<details, unavailable, autosaveVars, draftVars, shown, left, behind>>
    BY <1>1 DEF cacheVars, editorVars
  <1>8. StepOK /\ Still
    BY <1>1, <1>2, <1>5, <1>7, UntouchedStep DEF DataOK
  <1> QED BY <1>1, <1>5, <1>6, <1>8, StepKeeps DEF StepOK

LEMMA ApplyRefusedStep ==
    ASSUME WindowInv, ApplyRefused
    PROVE  WindowInv' /\ KeepsEdits
  <1>1. /\ apply # "idle" /\ apply' = "idle" /\ UNCHANGED <<serverVars, switching, answered>>
        /\ Caches(selectedId) /\ Rerenders
    BY DEF ApplyRefused
  <1>2. PICK p \in InitialPages(details'[selectedId]) : Opens(selectedId, p, orderedItems)
    BY DEF ApplyRefused
  <1>3. /\ switching = NoMove /\ shown = None /\ selectedId \in Conspects
        /\ orderedItems = selectedId /\ details[selectedId] # NoDetail
    BY <1>1, NoEditorApplies
  <1>4. ServerStep /\ UNCHANGED rows
    BY <1>1, ServerStays DEF WindowInv, serverVars
  <1>5. DataOK
    BY <1>1, <1>4, DataCached
  <1>6. details'[selectedId] # NoDetail /\ details'[selectedId] \in DetailsOf(selectedId)
    BY <1>3, <1>5 DEF DataOK, DetailsKept, CacheOK
  <1>7. p \in Items
    BY <1>2, <1>3, <1>6 DEF InitialPages, DetailsOf
  <1>8. PageOK' /\ selectedId' = selectedId
    BY <1>2, <1>3, <1>5, <1>6, <1>7, OpensOK DEF DataOK
  <1>9. EditorInv'
    BY <1>1, <1>4, <1>5, <1>8, RerendersOK DEF WindowInv, EditorInv, DataOK
  <1>10. MoveOK'
    <2>1. Pursues
      BY <1>1, RerendersPursues DEF WindowInv, EditorInv
    <2> QED BY <1>1, <1>3, <2>1, MoveOver DEF Pursues
  <1>11. StepOK /\ ApplyOK'
    BY <1>1, <1>3, <1>8, <1>9, <1>10 DEF StepOK, KeepsEdits, ApplyOK
  <1> QED BY <1>1, <1>5, <1>11, StepKeeps DEF StepOK

LEMMA ApplySucceededStep ==
    ASSUME WindowInv, ApplySucceeded
    PROVE  WindowInv' /\ KeepsEdits
  <1> DEFINE c == selectedId
  <1>1. /\ apply = "done" /\ apply' = "idle" /\ answered' = answered \cup {c}
        /\ details' = [details EXCEPT ![c] = NoDetail] /\ summaries' = summaries \ {c}
        /\ list' = OpenList /\ (poll' = NoPoll \/ poll' = poll)
        /\ Selects(None, None, None) /\ UNCHANGED <<serverVars, switching>> /\ Rerenders
    BY DEF ApplySucceeded
  <1>2. switching = NoMove /\ shown = None /\ c \in Conspects /\ status[c] = "applied"
    BY <1>1, NoEditorApplies DEF WindowInv, ApplyOK
  <1> HIDE DEF c
  <1>3. ServerOK' /\ UNCHANGED <<status, rows>>
    BY <1>1, ServerStays DEF WindowInv, ServerStep, serverVars
  <1>4. OpenList.answer = {k \in Conspects : status[k] # "applied"}
    BY DEF OpenList, IsOpen
  <1>5. CacheOK'
    <2>1. summaries' \subseteq Conspects /\ (list' # NoList => list'.answer \subseteq Conspects)
      BY <1>1, <1>4 DEF WindowInv, CacheOK
    <2>2. poll' # NoPoll => poll'.of \in Conspects /\ poll'.answer \in DetailsOf(poll'.of)
      BY <1>1 DEF WindowInv, CacheOK
    <2> QED BY <1>1, <2>1, <2>2 DEF WindowInv, CacheOK
  <1>6. PageOK' /\ (selectedId' = None \/ selectedId' \in summaries')
    BY <1>1, <1>5, SelectsOK
  <1>7. EditorInv'
    BY <1>1, <1>3, <1>5, <1>6, RerendersOK DEF WindowInv, EditorInv
  <1>8. MoveOK'
    <2>1. Pursues
      BY <1>1, RerendersPursues DEF WindowInv, EditorInv
    <2> QED BY <1>1, <1>2, <2>1, MoveOver DEF Pursues
  <1>9. answered' \subseteq {k \in Conspects : status[k] = "applied"}
    BY <1>1, <1>2 DEF WindowInv, GoneOK
  <1>10. AppliedIsGone'
    <2>1. summaries' \cap answered' = {}
      BY <1>1 DEF WindowInv, GoneOK, AppliedIsGone
    <2>2. None \notin answered'
      BY <1>9
    <2> QED BY <1>6, <2>1, <2>2 DEF AppliedIsGone
  <1>11. GoneOK'
    BY <1>1, <1>3, <1>4, <1>9, <1>10 DEF GoneOK
  <1>12. ApplyOK'
    BY <1>1 DEF ApplyOK
  <1> QED BY <1>2, <1>3, <1>5, <1>6, <1>7, <1>8, <1>11, <1>12 DEF WindowInv, EditorInv, KeepsEdits

-----------------------------------------------------------------------------
(* Other clients and the queue.                                            *)

LEMMA OthersStep ==
    ASSUME WindowInv, MatchesWritten \/ \E c \in Conspects : OthersConflict(c) \/ Prepared(c)
    PROVE  WindowInv' /\ KeepsEdits
  <1>1. UNCHANGED <<cacheVars, pageVars, switching, apply, answered>>
    BY DEF MatchesWritten, OthersConflict, Prepared
  <1>2. /\ UNCHANGED <<autosaveVars, draftVars, shown, left>>
        /\ behind => behind'
        /\ shown # None /\ rows'[shown] # rows[shown] => behind'
    <2>1. CASE UNCHANGED <<editorVars, rows>>
      BY <2>1 DEF editorVars
    <2>2. CASE FallsBehind /\ UNCHANGED <<autosaveVars, draftVars, shown, left>>
      BY <2>2 DEF FallsBehind
    <2>3. \/ UNCHANGED <<editorVars, rows>>
          \/ FallsBehind /\ UNCHANGED <<autosaveVars, draftVars, shown, left>>
      BY DEF MatchesWritten, OthersConflict, Prepared
    <2> QED BY <2>1, <2>2, <2>3
  <1>3. ServerStep
    <2>1. CASE MatchesWritten
      BY <2>1 DEF MatchesWritten, WindowInv, ServerStep, ServerOK
    <2>2. ASSUME NEW c \in Conspects, OthersConflict(c) PROVE ServerStep
      <3>1. status[c] # "applied" /\ Rematched(c)
        BY <2>2 DEF OthersConflict, Editable
      <3> QED BY <3>1, RematchedOK DEF WindowInv
    <2>3. ASSUME NEW c \in Conspects, Prepared(c) PROVE ServerStep
      <3> DEFINE s == ReviewState(c, rows, decided)
      <3>1. s \in Statuses
        BY ReviewStateType DEF Statuses
      <3> HIDE DEF s
      <3>2. /\ status[c] = "preparing_review" /\ status' = [status EXCEPT ![c] = s]
            /\ matched' = [matched EXCEPT ![c] = graph] /\ UNCHANGED <<rows, decided, graph>>
        BY <2>3 DEF Prepared, s
      <3>3. status' \in [Conspects -> Statuses] /\ matched' \in [Conspects -> Nat]
        BY <3>1, <3>2 DEF WindowInv, ServerOK
      <3>4. \A k \in Conspects : status[k] = "applied" => status'[k] = "applied"
        BY <3>2 DEF WindowInv, ServerOK
      <3> QED BY <3>2, <3>3, <3>4 DEF WindowInv, ServerOK, ServerStep
    <2> QED BY <2>1, <2>2, <2>3
  <1>4. DataOK
    BY <1>1, <1>3, CacheStays DEF WindowInv, DataOK
  <1>5. UNCHANGED <<details, unavailable>>
    BY <1>1 DEF cacheVars
  <1>6. StepOK /\ Still
    BY <1>1, <1>2, <1>4, <1>5, UntouchedStep DEF DataOK
  <1> QED BY <1>1, <1>4, <1>6, QuietStep

-----------------------------------------------------------------------------
(* The theorems.                                                           *)

LEMMA WindowStarts == WindowInit => WindowInv
  <1> SUFFICES ASSUME WindowInit PROVE WindowInv
    OBVIOUS
  <1> USE DEF WindowInit
  <1>1. ServerOK
    <2>1. \A i \in Items : [resolution |-> Pending, target |-> 0, value |-> "extracted",
                            related |-> Extracted[i]] \in Row
      BY DEF Row, Resolutions, Values
    <2>2. rows \in [Items -> Row]
      BY <2>1
    <2> QED BY <2>2 DEF ServerOK, Statuses, Editable
  <1>2. CacheOK
    BY DEF CacheOK, OpenList
  <1>3. PageOK
    BY DEF PageOK
  <1>4. SaverOK
    BY DEF NewSaver, SaverOK, AutosaveTypeOK, Kept, SavedWasWritten, UnsavedIsPursued, NoFlight,
           SaveStatuses, Dirty
  <1>5. EditorOK
    <2>1. ShownItem = None
      BY DEF ShownItem, ShownPage
    <2>2. NoDraft \in Draft
      BY DEF NoDraft, Draft, Resolutions, Values
    <2> QED BY <2>1, <2>2 DEF EditorOK, NewSaver
  <1>6. ShownIsRow /\ MoveOK /\ ApplyOK
    BY DEF ShownIsRow, MoveOK, MoveIsPursued, ApplyOK
  <1>7. GoneOK
    BY DEF GoneOK, AppliedIsGone
  <1> QED BY <1>1, <1>2, <1>3, <1>4, <1>5, <1>6, <1>7 DEF WindowInv

LEMMA WindowSteps ==
    WindowInv /\ [WindowNext]_windowVars => WindowInv' /\ [KeepsEdits]_windowVars
  <1> SUFFICES ASSUME WindowInv, [WindowNext]_windowVars PROVE WindowInv' /\ [KeepsEdits]_windowVars
    OBVIOUS
  <1>1. CASE UserStep
    BY <1>1, ChooseResolutionStep, EditValueStep, ChooseTargetStep, ToggleRelationshipStep,
       SavesStep, MoveStep, ApplyStepOK DEF UserStep
  <1>2. CASE PersistStep \/ RequestLost
    BY <1>2, RequestEndsStep, PutTagStep, PutDecisionStep DEF PersistStep
  <1>3. CASE ApplyStep \/ ApplyLost
    BY <1>3, ApplyConspectStep, ApplySucceededStep, ApplyRefusedStep, ApplyLostStep DEF ApplyStep
  <1>4. CASE AskDetail \/ DetailAnswered \/ AskSummaries \/ SummariesAnswered \/ PollFailed
    BY <1>4, AskStep, DetailAnsweredStep, SummariesAnsweredStep, PollFailedStep
  <1>5. CASE \E s \in left : LeftGoesOn(s) \/ LeftRefused(s)
    BY <1>5, LeftGoesOnStep, LeftRefusedStep
  <1>6. CASE MatchesWritten \/ \E c \in Conspects : OthersConflict(c) \/ Prepared(c)
    BY <1>6, OthersStep
  <1>7. CASE UNCHANGED windowVars
    <2>1. /\ UNCHANGED <<serverVars, cacheVars, pageVars, switching, apply, answered>>
          /\ UNCHANGED <<autosaveVars, draftVars, shown, left, behind, details, unavailable, rows>>
      BY <1>7 DEF windowVars, serverVars, cacheVars, editorVars
    <2>2. DataOK
      BY <2>1, DataStays
    <2>3. StepOK /\ Still
      BY <2>1, <2>2, UntouchedStep DEF DataOK
    <2> QED BY <2>1, <2>2, <2>3, QuietStep
  <1> QED BY <1>1, <1>2, <1>3, <1>4, <1>5, <1>6, <1>7 DEF WindowNext

LEMMA WindowInvariant == WindowSpec => []WindowInv
  BY WindowStarts, WindowSteps, PTL DEF WindowSpec

\* The window keeps its types, and the editor that is rendered is the one of
\* the selected item.
THEOREM WindowTypeCorrect == WindowSpec => []WindowTypeOK
  <1>1. WindowInv => WindowTypeOK
    BY DEF WindowInv, WindowTypeOK, SaverOK, ServerOK, CacheOK, PageOK, EditorOK, ApplyOK
  <1> QED BY <1>1, WindowInvariant, PTL

\* Where the indicator of an editor says "saved" of a decision (ItemEditor.tsx),
\* after a save or because it began with a decided row, the row of the server
\* holds the decision and the value the user sees, and after a save also the
\* relations, however saves of other items, conflicts, polls and replaced
\* editors come between.  It is about editors whose row is as they read or wrote
\* it last; a row that another client, a save left behind or a late poll has
\* made different is excepted, though the indicator still says "saved" then.
THEOREM IndicatorShowsTheServer == WindowSpec => []IndicatorIsTrue
  <1>1. WindowInv => IndicatorIsTrue
    BY DEF WindowInv, ShownIsRow, Holds, Indicator, IndicatorIsTrue
  <1> QED BY <1>1, WindowInvariant, PTL

\* What has been applied is neither listed nor selected again, in whatever
\* order the answers of polls come (Review.tsx's onSuccess).
THEOREM AppliedStaysGone == WindowSpec => []AppliedIsGone
  <1>1. WindowInv => AppliedIsGone
    BY DEF WindowInv, GoneOK
  <1> QED BY <1>1, WindowInvariant, PTL

\* A move that waits for a flush is never forgotten: the save that lets it go
\* on is under way, in the rendered editor or in one that is gone (Review.tsx's
\* move).
THEOREM MovesArePursued == WindowSpec => []MoveIsPursued
  <1>1. WindowInv => MoveIsPursued
    BY DEF WindowInv, MoveOK
  <1> QED BY <1>1, WindowInvariant, PTL

\* What the saver of the window calls saved, the server has carried out, or it
\* is a draft without a decision, for which persist() sends nothing; and what is
\* not saved has a timer, a flight or a failure to go on from (autosave.ts),
\* although the window replaces editors while they save.
THEOREM WindowSavesItsEdits == WindowSpec => [](SavedWasWritten /\ UnsavedIsPursued)
  <1>1. WindowInv => SavedWasWritten /\ UnsavedIsPursued
    BY DEF WindowInv, SaverOK
  <1> QED BY <1>1, WindowInvariant, PTL

\* A move that waits for the rendered editor, or for nothing, leaves it only
\* when persist() has carried out its latest edit, also one typed while the move
\* waited (Review.tsx's move).  A move that waits for an editor which another
\* has replaced does not wait for the new one: the run of NavigationWaits.
THEOREM MovesWaitForTheirEditor == WindowSpec => MoveWaitsForItsEditor
  <1>1. KeepsEdits => ((shown # None /\ <<selectedId, page>>' # <<selectedId, page>>
                          /\ (Waiting \/ switching = NoMove)) => Kept)
    BY DEF KeepsEdits
  <1> QED BY <1>1, WindowInvariant, WindowSteps, PTL DEF WindowSpec, MoveWaitsForItsEditor
=============================================================================

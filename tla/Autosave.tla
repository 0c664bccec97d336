------------------------------ MODULE Autosave ------------------------------
(***************************************************************************)
(* DraftAutosave (frontend/desktop/src/features/review/autosave.ts): one   *)
(* draft, edited by the user, saved by one request at a time after a pause *)
(* or when a caller flushes it.                                            *)
(*                                                                         *)
(* A draft is the number of its revision.  persist is the request that     *)
(* stores a snapshot; the server carries it out (Stored) before it         *)
(* answers, and a request that fails was carried out or never will be.     *)
(* JavaScript runs one callback at a time: an action is what runs between  *)
(* two awaits.                                                             *)
(***************************************************************************)
EXTENDS Naturals

CONSTANT MaxEdits   \* bound on the edits of one draft

ASSUME EditsAssumption == MaxEdits \in Nat

VARIABLES
    revision,       \* edits so far
    savedRevision,  \* the last revision whose request succeeded
    timer,          \* "armed" or "off"
    flight,         \* the revision drain() is persisting
    saveStatus,     \* status
    editor,         \* the component that owns the saver: "mounted" or "gone"
    stored          \* the revision the server holds

saverVars == <<revision, savedRevision, timer, flight, saveStatus>>
autosaveVars == <<saverVars, editor, stored>>

NoFlight == 0
SaveStatuses == {"idle", "waiting", "saving", "saved", "failed"}

Dirty == revision # savedRevision

AutosaveTypeOK ==
    /\ revision      \in 0..MaxEdits
    /\ savedRevision \in 0..MaxEdits
    /\ timer         \in {"armed", "off"}
    /\ flight        \in 0..MaxEdits
    /\ saveStatus    \in SaveStatuses
    /\ editor        \in {"mounted", "gone"}
    /\ stored        \in 0..MaxEdits

\* A saver as useDraftAutosave makes it when its component mounts.
NewSaver ==
    /\ revision      = 0
    /\ savedRevision = 0
    /\ timer         = "off"
    /\ flight        = NoFlight
    /\ saveStatus    = "idle"

AutosaveInit == NewSaver /\ editor = "mounted" /\ stored = 0

-----------------------------------------------------------------------------

Edit ==
    /\ editor = "mounted"
    /\ revision < MaxEdits
    /\ revision'   = revision + 1
    /\ saveStatus' = "waiting"
    /\ timer'      = "armed"
    /\ UNCHANGED <<savedRevision, flight, editor, stored>>

\* The start of a turn of drain(): the snapshot that is persisted next.
Send ==
    /\ flight'     = revision
    /\ saveStatus' = "saving"

\* flush(): joins the flight there is, or starts one if there is a change.
Flush ==
    /\ timer' = "off"
    /\ IF flight = NoFlight /\ Dirty THEN Send
                                     ELSE UNCHANGED <<flight, saveStatus>>
    /\ UNCHANGED <<revision, savedRevision, editor, stored>>

TimerFires == timer = "armed" /\ Flush

\* The server carries out the request in flight.
Stored ==
    /\ flight # NoFlight
    /\ stored' = flight
    /\ UNCHANGED <<saverVars, editor>>

\* Mutant of Settled: what was typed during the request is not looked at.
SettledAtOnce ==
    /\ savedRevision' = flight
    /\ flight'        = NoFlight
    /\ saveStatus'    = "saved"

\* A request succeeded: drain() goes on with what was edited meanwhile.
Settled ==
    /\ savedRevision' = flight
    /\ IF revision = flight
       THEN flight' = NoFlight /\ saveStatus' = "saved"
       ELSE Send

Persisted ==
    /\ flight # NoFlight
    /\ stored = flight
    /\ Settled
    /\ UNCHANGED <<revision, timer, editor, stored>>

\* Mutant of Failed: the state is what it was before the request.
FailedQuietly ==
    /\ flight'     = NoFlight
    /\ saveStatus' = "waiting"
    /\ UNCHANGED <<revision, savedRevision, timer>>

\* drain() gives up; the timer of a later edit, if there is one, stays.
Failed ==
    /\ flight'     = NoFlight
    /\ saveStatus' = "failed"
    /\ UNCHANGED <<revision, savedRevision, timer>>

PersistFailed ==
    /\ flight # NoFlight
    /\ Failed
    /\ UNCHANGED <<editor, stored>>

\* The effect's clean-up: the timer is cancelled, a flight goes on.
Unmount ==
    /\ editor  = "mounted"
    /\ editor' = "gone"
    /\ timer'  = "off"
    /\ UNCHANGED <<revision, savedRevision, flight, saveStatus, stored>>

AutosaveNext ==
    \/ Edit
    \/ TimerFires
    \/ Flush
    \/ Stored
    \/ Persisted
    \/ PersistFailed
    \/ Unmount

AutosaveSpec == AutosaveInit /\ [][AutosaveNext]_autosaveVars

-----------------------------------------------------------------------------
(* What the saver promises.                                                *)

\* The indicator says "saved" only when nothing is unsaved or on its way
\* and the server holds the draft as it is shown.
SavedIsStored ==
    saveStatus = "saved" => ~Dirty /\ flight = NoFlight /\ stored = revision

\* An unsaved change of a mounted editor is never forgotten: it waits for its
\* timer, or a request is under way after which drain() looks again, or the
\* user sees that saving failed.
UnsavedIsPursued ==
    editor = "mounted" /\ Dirty =>
        timer = "armed" \/ flight # NoFlight \/ saveStatus = "failed"

Register == INSTANCE DraftRegister WITH
    latest <- revision,
    kept   <- stored,
    told   <- IF saveStatus = "saved" THEN "saved" ELSE "unsaved"

\* "Serial decision writes so later edits do not overtake earlier requests"
\* (frontend/desktop/README.md): the store only ever moves forward, and the
\* user is told the truth.
ImplementsRegister == Register!Spec
=============================================================================

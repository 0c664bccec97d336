---------------------------- MODULE SettingsForm ----------------------------
(***************************************************************************)
(* The settings window of the desktop client (features/settings/           *)
(* Settings.tsx): the draft, the settings it is compared with, and a save  *)
(* that changes the native window and the autostart entry before it stores *)
(* the settings, and puts them back if that fails.                         *)
(*                                                                         *)
(* The settings are three switches: two that the native shell applies, and *)
(* one for all the others.  Each call is carried out or fails without      *)
(* effect; the PATCH may also be carried out with its answer lost.         *)
(***************************************************************************)
EXTENDS Naturals

CONSTANT MaxFailures   \* bound on the calls that fail

ASSUME FailuresAssumption == MaxFailures \in Nat

VARIABLES
    server,  \* the settings that are stored
    native,  \* the state of the native shell
    base,    \* what the form takes for stored
    draft,
    save,    \* what mutationFn does next, "idle" when it has returned
    patch,   \* the keys it changes
    changed, \* the native keys it has changed
    torn,    \* a call to put something back failed, or an answer was lost
    failures

formVars     == <<base, draft>>
saveVars     == <<save, patch, changed>>
settingsVars == <<server, native, formVars, saveVars, torn, failures>>

Keys     == {"top", "start", "other"}   \* always_on_top, start_with_windows
Native   == {"top", "start"}
Settings == [Keys -> BOOLEAN]
SaveSteps == {"idle", "top", "start", "patch", "undo top", "undo start"}

SettingsTypeOK ==
    /\ server \in Settings /\ base \in Settings /\ draft \in Settings
    /\ native \in [Native -> BOOLEAN]
    /\ save \in SaveSteps
    /\ patch \subseteq Keys /\ changed \subseteq Native
    /\ torn \in BOOLEAN
    /\ failures \in 0..MaxFailures

SettingsInit ==
    /\ server = [k \in Keys |-> FALSE]
    /\ native = [k \in Native |-> FALSE]
    /\ base = server /\ draft = server
    /\ save = "idle" /\ patch = {} /\ changed = {}
    /\ torn = FALSE
    /\ failures = 0

Idle == save = "idle"

-----------------------------------------------------------------------------
\* The fields are disabled while a save is under way, and so is Cancel.
Change(k) ==
    /\ Idle
    /\ draft' = [draft EXCEPT ![k] = ~@]
    /\ UNCHANGED <<server, native, base, saveVars, torn, failures>>

Cancel ==
    /\ Idle
    /\ draft # base
    /\ draft' = base
    /\ UNCHANGED <<server, native, base, saveVars, torn, failures>>

\* What mutationFn does after step s, given the keys P it changes: the native
\* calls, then the PATCH.
After(s, P) ==
    IF s = "idle" /\ "top" \in P THEN "top"
    ELSE IF s # "start" /\ "start" \in P THEN "start"
    ELSE "patch"

Submit ==
    /\ Idle
    /\ draft # base
    /\ patch' = {k \in Keys : base[k] # draft[k]}
    /\ save' = After("idle", patch')
    /\ changed' = {}
    /\ UNCHANGED <<server, native, formVars, torn, failures>>

\* setAlwaysOnTop or setAutostart succeeds.
NativeSet(k) ==
    /\ save = k
    /\ native'  = [native EXCEPT ![k] = draft[k]]
    /\ changed' = changed \cup {k}
    /\ save'    = After(k, patch)
    /\ UNCHANGED <<server, formVars, patch, torn, failures>>

\* Mutant of Undo: the window is put back, and with it the catch is over.
UndoOnce(C) == IF "top" \in C THEN "undo top" ELSE "idle"

\* The catch: what it puts back first, when the keys C are still changed.
Undo(C) ==
    IF "top" \in C THEN "undo top" ELSE IF "start" \in C THEN "undo start" ELSE "idle"

Fails == failures < MaxFailures /\ failures' = failures + 1

\* A native call fails, or the PATCH is refused or does not arrive.
CallFails ==
    /\ save \in {"top", "start", "patch"}
    /\ Fails
    /\ save' = Undo(changed)
    /\ UNCHANGED <<server, native, formVars, patch, changed, torn>>

UndoKey == IF save = "undo top" THEN "top" ELSE "start"

\* One thing is put back; an error of that call is swallowed.
PutBack ==
    /\ save \in {"undo top", "undo start"}
    /\ \/ native' = [native EXCEPT ![UndoKey] = base[UndoKey]] /\ UNCHANGED <<torn, failures>>
       \/ Fails /\ torn' = TRUE /\ UNCHANGED native
    /\ changed' = changed \ {UndoKey}
    /\ save' = Undo(changed')
    /\ UNCHANGED <<server, formVars, patch>>

Stores == server' = [k \in Keys |-> IF k \in patch THEN draft[k] ELSE server[k]]

\* onSuccess: the form takes over what is stored.
Patched ==
    /\ save = "patch"
    /\ Stores
    /\ base' = server' /\ draft' = server'
    /\ save' = "idle"
    /\ UNCHANGED <<native, patch, changed, torn, failures>>

AnswerLost ==
    /\ save = "patch"
    /\ Stores
    /\ Fails
    /\ torn' = TRUE
    /\ save' = Undo(changed)
    /\ UNCHANGED <<native, formVars, patch, changed>>

-----------------------------------------------------------------------------
SettingsNext ==
    \/ \E k \in Keys : Change(k)
    \/ Cancel
    \/ Submit
    \/ \E k \in Native : NativeSet(k)
    \/ CallFails
    \/ PutBack
    \/ Patched
    \/ AnswerLost

SettingsSpec == SettingsInit /\ [][SettingsNext]_settingsVars

-----------------------------------------------------------------------------
\* Between saves the shell does what the stored settings say, and the form
\* shows them, unless a call to put something back failed or the answer to a
\* PATCH was lost.
NativeMatchesStored ==
    Idle /\ ~torn => base = server /\ \A k \in Native : native[k] = server[k]
=============================================================================

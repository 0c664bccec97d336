---------------------------- MODULE DraftRegister ----------------------------
(***************************************************************************)
(* What an autosaved draft promises, whatever timers, requests and         *)
(* failures there are: the store keeps ever later versions of the draft,   *)
(* and the user is told that the draft is saved only when the store has    *)
(* the latest one.                                                         *)
(***************************************************************************)
EXTENDS Naturals

VARIABLES
    latest,  \* number of the draft's latest version
    kept,    \* number of the version in the store
    told     \* what the user is told

vars == <<latest, kept, told>>

Init == latest = 0 /\ kept = 0 /\ told = "unsaved"

\* The user changes the draft.
Change ==
    /\ latest' = latest + 1
    /\ told'   = "unsaved"
    /\ UNCHANGED kept

\* The store takes a later version than the one it has; it need not be the
\* latest.
Keep ==
    /\ \E n \in kept + 1 .. latest : kept' = n
    /\ UNCHANGED <<latest, told>>

Tell ==
    /\ kept  = latest
    /\ told' = "saved"
    /\ UNCHANGED <<latest, kept>>

Next == Change \/ Keep \/ Tell

Spec == Init /\ [][Next]_vars
=============================================================================

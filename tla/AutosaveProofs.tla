--------------------------- MODULE AutosaveProofs ---------------------------
(***************************************************************************)
(* Theorems about Autosave, for any number of edits: what the indicator    *)
(* says is so, no change is forgotten, and the saver implements the        *)
(* register of DraftRegister.                                              *)
(***************************************************************************)
EXTENDS Autosave, TLAPS

\* The server never runs ahead of the draft nor behind what succeeded, and a
\* request carries a version that the server has not passed.
InOrder ==
    /\ savedRevision <= stored /\ stored <= revision
    /\ flight # NoFlight => stored <= flight /\ flight <= revision

SaverInv == AutosaveTypeOK /\ InOrder /\ SavedIsStored /\ UnsavedIsPursued

USE EditsAssumption

\* A saver starts with nothing to save.
LEMMA SaverInit == AutosaveInit => SaverInv
  BY DEF AutosaveInit, NewSaver, SaverInv, AutosaveTypeOK, InOrder, SavedIsStored,
         UnsavedIsPursued, NoFlight, SaveStatuses, Dirty

\* flush() keeps the invariant, from wherever it is called.
LEMMA FlushKeeps == ASSUME SaverInv, Flush PROVE SaverInv'
  <1>1. CASE flight = NoFlight /\ Dirty
    <2>1. revision # NoFlight
      BY <1>1 DEF SaverInv, AutosaveTypeOK, InOrder, Dirty, NoFlight
    <2> QED
      BY <1>1, <2>1 DEF Flush, Send, SaverInv, AutosaveTypeOK, InOrder, SavedIsStored,
                        UnsavedIsPursued, NoFlight, SaveStatuses, Dirty
  <1>2. CASE ~(flight = NoFlight /\ Dirty)
    BY <1>2 DEF Flush, SaverInv, AutosaveTypeOK, InOrder, SavedIsStored, UnsavedIsPursued,
                NoFlight, SaveStatuses, Dirty
  <1> QED BY <1>1, <1>2

\* So does every other step.
LEMMA SaverStep == SaverInv /\ [AutosaveNext]_autosaveVars => SaverInv'
  <1> SUFFICES ASSUME SaverInv, [AutosaveNext]_autosaveVars PROVE SaverInv'
    OBVIOUS
  <1> USE DEF SaverInv, AutosaveTypeOK, InOrder, SavedIsStored, UnsavedIsPursued, NoFlight,
              SaveStatuses, Dirty
  <1>1. CASE Edit
    BY <1>1 DEF Edit
  <1>2. CASE TimerFires \/ Flush
    BY <1>2, FlushKeeps DEF TimerFires
  <1>3. CASE Stored
    BY <1>3 DEF Stored, saverVars
  <1>4. CASE Persisted
    <2>1. CASE revision = flight
      BY <1>4, <2>1 DEF Persisted, Settled
    <2>2. CASE revision # flight
      BY <1>4, <2>2 DEF Persisted, Settled, Send
    <2> QED BY <2>1, <2>2
  <1>5. CASE PersistFailed
    BY <1>5 DEF PersistFailed, Failed
  <1>6. CASE Unmount
    BY <1>6 DEF Unmount
  <1>7. CASE UNCHANGED autosaveVars
    BY <1>7 DEF autosaveVars, saverVars
  <1> QED BY <1>1, <1>2, <1>3, <1>4, <1>5, <1>6, <1>7 DEF AutosaveNext

LEMMA SaverAlways == AutosaveSpec => []SaverInv
  BY SaverInit, SaverStep, PTL DEF AutosaveSpec

\* The variables of a saver keep their types.
THEOREM SaverIsTyped == AutosaveSpec => []AutosaveTypeOK
  BY SaverAlways, PTL DEF SaverInv

\* However edits, timers, flushes and failures overlap, "saved" is said only of
\* a draft that the server holds as it is shown.
THEOREM SavedMeansStored == AutosaveSpec => []SavedIsStored
  BY SaverAlways, PTL DEF SaverInv

\* No change of a mounted editor is forgotten: a timer, a request or the word
\* "failed" stands for it.
THEOREM UnsavedPursued == AutosaveSpec => []UnsavedIsPursued
  BY SaverAlways, PTL DEF SaverInv

-----------------------------------------------------------------------------
(* The register.                                                           *)

LEMMA RegisterInit == AutosaveInit => Register!Init
  BY DEF AutosaveInit, NewSaver, Register!Init

\* Every step is one of the register, or none: an edit changes the draft, the
\* server's turn keeps a version, and the end of the last request tells it.
LEMMA RegisterStep ==
    SaverInv /\ [AutosaveNext]_autosaveVars => [Register!Next]_(Register!vars)
  <1> SUFFICES ASSUME SaverInv, [AutosaveNext]_autosaveVars
               PROVE  [Register!Next]_(Register!vars)
    OBVIOUS
  <1> USE DEF SaverInv, AutosaveTypeOK, InOrder, SavedIsStored, NoFlight, SaveStatuses, Dirty
  <1>1. CASE Edit
    <2>1. Register!Change
      BY <1>1 DEF Edit, Register!Change
    <2> QED BY <2>1 DEF Register!Next
  <1>2. CASE TimerFires \/ Flush
    BY <1>2 DEF TimerFires, Flush, Send, Register!vars
  <1>3. CASE Stored
    <2>1. CASE stored = flight
      BY <1>3, <2>1 DEF Stored, saverVars, Register!vars
    <2>2. CASE stored # flight
      <3>1. flight \in stored + 1 .. revision
        BY <1>3, <2>2 DEF Stored
      <3>2. Register!Keep
        BY <1>3, <3>1 DEF Stored, saverVars, Register!Keep
      <3> QED BY <3>2 DEF Register!Next
    <2> QED BY <2>1, <2>2
  <1>4. CASE Persisted
    <2>1. CASE revision = flight
      <3>1. Register!Tell
        BY <1>4, <2>1 DEF Persisted, Settled, Register!Tell
      <3> QED BY <3>1 DEF Register!Next
    <2>2. CASE revision # flight
      BY <1>4, <2>2 DEF Persisted, Settled, Send, Register!vars
    <2> QED BY <2>1, <2>2
  <1>5. CASE PersistFailed
    BY <1>5 DEF PersistFailed, Failed, Register!vars
  <1>6. CASE Unmount
    BY <1>6 DEF Unmount, Register!vars
  <1>7. CASE UNCHANGED autosaveVars
    BY <1>7 DEF autosaveVars, saverVars, Register!vars
  <1> QED BY <1>1, <1>2, <1>3, <1>4, <1>5, <1>6, <1>7 DEF AutosaveNext

\* "Serial decision writes so later edits do not overtake earlier requests"
\* (frontend/desktop/README.md): the saver implements the register, so what the
\* server holds only ever moves forward and the user is told the truth.
THEOREM SaverImplementsRegister == AutosaveSpec => ImplementsRegister
  <1>1. AutosaveInit => Register!Init
    BY RegisterInit
  <1>2. SaverInv /\ [AutosaveNext]_autosaveVars => [Register!Next]_(Register!vars)
    BY RegisterStep
  <1> QED
    BY <1>1, <1>2, SaverAlways, PTL DEF AutosaveSpec, ImplementsRegister, Register!Spec
=============================================================================

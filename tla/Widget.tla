------------------------------- MODULE Widget -------------------------------
(***************************************************************************)
(* The widget of the desktop client (features/widget/Widget.tsx): the      *)
(* source controls that unfold under the pointer, and the native window    *)
(* that follows the width of its content, at once when it grows and after  *)
(* the folding animation when it shrinks.                                  *)
(*                                                                         *)
(* Anything may happen to the sources between two answers of               *)
(* /api/v1/ui/state.  Native calls are carried out in the order they are   *)
(* made; the shell refuses a width that is out of its range, and sets the  *)
(* window to its own closed width when the displays change, which are      *)
(* wider than that.                                                        *)
(***************************************************************************)
EXTENDS Naturals, FiniteSets

VARIABLES
    sources,  \* the state of each source, as it was last answered
    unfolded, \* expandedSource
    width,    \* of the native window
    shrinks,  \* the resizes that wait for their timer
    refused,  \* the last resize was refused
    restored, \* the displays have changed since the shell took a width
    acting    \* a source action waits for its answer

resizeVars == <<width, shrinks, refused, restored>>
widgetVars == <<sources, unfolded, resizeVars, acting>>

Devices      == {"microphone", "loopback"}
SourceStates == {"unavailable", "off", "starting", "recording", "paused", "failed"}
NoSource     == "none"

CLOSED_WIDTH      == 409
widgetClosedWidth == 371
widgetMaxWidth    == 483

HasActions(d) == sources[d] \notin {"loading", "unavailable"}

\* widgetWidth
ContentWidth ==
    IF unfolded = NoSource \/ ~HasActions(unfolded) THEN CLOSED_WIDTH
    ELSE CLOSED_WIDTH + IF sources[unfolded] \in {"recording", "paused"} THEN 112 ELSE 36

WidgetTypeOK ==
    /\ sources \in [Devices -> SourceStates \cup {"loading"}]
    /\ unfolded \in Devices \cup {NoSource}
    /\ width \in widgetClosedWidth..widgetMaxWidth
    /\ Cardinality(shrinks) <= 1
    /\ refused \in BOOLEAN /\ restored \in BOOLEAN /\ acting \in BOOLEAN

\* The effect of the first render has resized the window.
WidgetInit ==
    /\ sources = [d \in Devices |-> "loading"]
    /\ unfolded = NoSource
    /\ width = CLOSED_WIDTH
    /\ shrinks = {}
    /\ refused = FALSE
    /\ restored = FALSE
    /\ acting = FALSE

-----------------------------------------------------------------------------
\* Shell.ResizeWidget
ResizeWidget(w) ==
    /\ refused' = (w \notin widgetClosedWidth..widgetMaxWidth)
    /\ width'   = IF refused' THEN width ELSE w
    /\ restored' = (restored /\ refused')

\* restoreWindow, when monitorDisplays sees other displays.  The content is not
\* told, and its effect depends on its own width only.
RestoreWindow ==
    /\ width'    = widgetClosedWidth
    /\ restored' = TRUE
    /\ UNCHANGED <<sources, unfolded, shrinks, refused, acting>>

\* Mutant of Resizes: the timer of the render before is left running.
ResizesAnyway(before, after) ==
    IF after < before THEN shrinks' = shrinks \cup {after} /\ UNCHANGED <<width, refused, restored>>
                      ELSE UNCHANGED shrinks /\ ResizeWidget(after)

\* The effect of a render that changes the width, after the clean-up of the
\* one before.
Resizes(before, after) ==
    IF after < before THEN shrinks' = {after} /\ UNCHANGED <<width, refused, restored>>
                      ELSE shrinks' = {} /\ ResizeWidget(after)

Follows ==
    IF ContentWidth' = ContentWidth THEN UNCHANGED resizeVars
                                    ELSE Resizes(ContentWidth, ContentWidth')

Shrinks(w) ==
    /\ shrinks' = shrinks \ {w}
    /\ ResizeWidget(w)
    /\ UNCHANGED <<sources, unfolded, acting>>

-----------------------------------------------------------------------------
\* The pointer or the focus enters a control, or leaves it.
Enter(d) ==
    /\ unfolded' = d
    /\ UNCHANGED <<sources, acting>>
    /\ Follows

Leave ==
    /\ unfolded # NoSource
    /\ unfolded' = NoSource
    /\ UNCHANGED <<sources, acting>>
    /\ Follows

\* The query is answered, by a poll or because an action or an event has
\* invalidated it.
StateAnswered ==
    /\ sources' \in [Devices -> SourceStates]
    /\ UNCHANGED <<unfolded, acting>>
    /\ Follows

\* A button of the unfolded source; all of them wait for the answer.
Act ==
    /\ unfolded # NoSource
    /\ HasActions(unfolded) /\ ~acting
    /\ acting' = TRUE
    /\ UNCHANGED <<sources, unfolded, resizeVars>>

ActAnswered ==
    /\ acting
    /\ acting' = FALSE
    /\ UNCHANGED <<sources, unfolded, resizeVars>>

WidgetNext ==
    \/ \E d \in Devices : Enter(d)
    \/ Leave
    \/ StateAnswered
    \/ Act \/ ActAnswered
    \/ RestoreWindow
    \/ \E w \in shrinks : Shrinks(w)

-----------------------------------------------------------------------------
\* The native window is never narrower than the controls that are unfolded, and
\* once its timer has fired it is as wide as they are, however they fold,
\* unfold and change meanwhile.  Excepted are a width that the shell has
\* refused, and the time after a change of the displays: the shell has then put
\* the window at 371 pixels, which is too narrow, and it stays so until the
\* content next asks for a width.
WidgetFits ==
    ~refused /\ ~restored => /\ width >= ContentWidth
                             /\ shrinks = {} => width = ContentWidth
=============================================================================

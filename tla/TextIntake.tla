----------------------------- MODULE TextIntake -----------------------------
(***************************************************************************)
(* What capture promises of the text it accepts (docs/pipeline.md section  *)
(* 3), without batches' statuses, jobs, times or reasons: the text of a    *)
(* session is cut, in the order it arrived, into windows that are handed   *)
(* over whole, once, and are never touched again.                          *)
(***************************************************************************)
EXTENDS Sequences

CONSTANTS Sessions, Chunks

VARIABLES
    open,       \* the text of each session that is not handed over yet
    windows     \* the windows of each session, in the order of their handover

intake == <<open, windows>>

Init ==
    /\ open    = [s \in Sessions |-> <<>>]
    /\ windows = [s \in Sessions |-> <<>>]

Accepted(s) == {open[s][i] : i \in DOMAIN open[s]} \cup
    UNION {{windows[s][k][i] : i \in DOMAIN windows[s][k]} : k \in DOMAIN windows[s]}

\* The open text of the sessions of S is handed over.
Handover(S) ==
    /\ \A s \in S : open[s] # <<>>
    /\ open'    = [s \in Sessions |-> IF s \in S THEN <<>> ELSE open[s]]
    /\ windows' = [s \in Sessions |-> IF s \in S THEN Append(windows[s], open[s])
                                                 ELSE windows[s]]

\* A new chunk joins the open text.
Join(s, c) ==
    /\ open' = [open EXCEPT ![s] = Append(@, c)]
    /\ UNCHANGED windows

\* A new chunk finds the open text overdue and starts the next window.
Turn(s, c) ==
    /\ open[s] # <<>>
    /\ open'    = [open EXCEPT ![s] = <<c>>]
    /\ windows' = [windows EXCEPT ![s] = Append(@, open[s])]

\* Text that is complete at once is a window of its own.
Whole(s, c) ==
    /\ open[s] = <<>>
    /\ windows' = [windows EXCEPT ![s] = Append(@, <<c>>)]
    /\ UNCHANGED open

Next ==
    \/ \E s \in Sessions, c \in Chunks \ UNION {Accepted(t) : t \in Sessions} :
          Join(s, c) \/ Turn(s, c) \/ Whole(s, c)
    \/ \E S \in SUBSET Sessions : Handover(S)

Spec == Init /\ [][Next]_intake
=============================================================================

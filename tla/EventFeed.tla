----------------------------- MODULE EventFeed -----------------------------
(***************************************************************************)
(* The server's event outbox and its streams (api/server.go eventStream,   *)
(* storage/sqlite/runtime.go ListEvents).  A stream writes one frame for   *)
(* every event after the identifier the client asked for, in the order of  *)
(* the log; frames arrive in order until the connection is lost, and then  *)
(* those on their way are lost with it.                                    *)
(*                                                                         *)
(* The identifier of an event is its place in the log, 0 that of no event. *)
(***************************************************************************)
EXTENDS Naturals, Sequences

CONSTANTS
    MaxEvents,  \* bound on the length of the log
    MaxFaults   \* bound on requests that fail and connections that are lost

ASSUME FeedAssumption == MaxEvents \in Nat /\ MaxFaults \in Nat

VARIABLES
    log,     \* user_events, by kind
    faults

feedVars == <<log, faults>>

\* What projectEvent makes of an event: the desktop client gets the event, or
\* only a checkpoint without data.
Kinds == {"user", "developer"}

FeedTypeOK ==
    /\ log \in UNION {[1..n -> Kinds] : n \in 0..MaxEvents}
    /\ faults \in 0..MaxFaults

FeedInit == log = <<>> /\ faults = 0

\* A stream: the server has written the frames up to `after`, the client has
\* read those up to `read`.
StreamAfter(last) == [after |-> last, read |-> last]
Streams == [after : 0..MaxEvents, read : 0..MaxEvents]

HasFrame(s)  == s.read < s.after
NextFrame(s) == s.read + 1

\* The server's turn: it looks at the log every half second.
CanWrite(s) == s.after < Len(log)
Wrote(s)    == [s EXCEPT !.after = Len(log)]

\* Some other part of the server records an event of one of the kinds K.
Record(K) ==
    /\ Len(log) < MaxEvents
    /\ \E k \in K : log' = Append(log, k)
    /\ UNCHANGED faults

Fault ==
    /\ faults < MaxFaults
    /\ faults' = faults + 1
    /\ UNCHANGED log
=============================================================================

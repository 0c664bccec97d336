------------------------------ MODULE Desktop ------------------------------
(***************************************************************************)
(* A window of the desktop client over the event stream (App.tsx and       *)
(* lib/events.ts): its bootstrap, the reconnecting stream of useLiveEvents *)
(* and the query that its refreshes invalidate, whose data the window      *)
(* shows.                                                                  *)
(*                                                                         *)
(* The state that the query reads changes with every event: data is the    *)
(* number of the last event it reflects.  An answer reflects what the      *)
(* server had when it was asked.  The queries do not poll, as those of the *)
(* graph window do not.                                                    *)
(***************************************************************************)
EXTENDS EventFeed

VARIABLES
    appStatus,  \* status of App
    booting,    \* what connect() waits for: "bootstrap", "probe" or "nothing"
    live,       \* what useLiveEvents does, with its stream
    lastID,
    timer,      \* of a coalesced refresh: "armed" or "off"
    data,       \* of the query
    asked,      \* its request in flight, with the state it will answer
    queryFails  \* how often the request has failed in a row

bootVars    == <<appStatus, booting>>
liveVars    == <<live, lastID, timer>>
queryVars   == <<data, asked, queryFails>>
desktopVars == <<feedVars, bootVars, liveVars, queryVars>>

NoRequest == [asked |-> FALSE]
Request   == [asked |-> TRUE, answer |-> Len(log)]
MaxRetries == 2   \* of a query

DesktopTypeOK ==
    /\ FeedTypeOK
    /\ appStatus \in {"loading", "ready", "failed"}
    /\ booting \in {"bootstrap", "probe", "nothing"}
    /\ live \in [at : {"off", "fetch", "read", "delay"}, stream : Streams]
    /\ lastID \in 0..MaxEvents
    /\ timer \in {"armed", "off"}
    /\ data \in 0..MaxEvents
    /\ asked \in {NoRequest} \cup [asked : {TRUE}, answer : 0..MaxEvents]
    /\ queryFails \in 0..MaxRetries + 1

\* The state of the variables before the window is opened.
WindowUnopened ==
    /\ appStatus = "loading"
    /\ live = [at |-> "off", stream |-> StreamAfter(0)]
    /\ lastID = 0
    /\ timer = "off"
    /\ data = 0 /\ asked = NoRequest /\ queryFails = 0

DesktopInit == FeedInit /\ WindowUnopened /\ booting = "bootstrap"

-----------------------------------------------------------------------------
(* App: bootstrap, then a probe of the API.                                *)

Bootstrapped ==
    /\ booting = "bootstrap"
    /\ booting' = "probe"
    /\ UNCHANGED <<feedVars, appStatus, liveVars, queryVars>>

\* ConnectedApp mounts: the stream connects and the query is asked.
Probed ==
    /\ booting = "probe"
    /\ booting' = "nothing" /\ appStatus' = "ready"
    /\ live' = [at |-> "fetch", stream |-> StreamAfter(lastID)]
    /\ asked' = Request
    /\ UNCHANGED <<feedVars, lastID, timer, data, queryFails>>

BootFails ==
    /\ booting # "nothing"
    /\ Fault
    /\ booting' = "nothing" /\ appStatus' = "failed"
    /\ UNCHANGED <<liveVars, queryVars>>

Retry ==
    /\ appStatus = "failed"
    /\ appStatus' = "loading" /\ booting' = "bootstrap"
    /\ UNCHANGED <<feedVars, liveVars, queryVars>>

-----------------------------------------------------------------------------
(* The query.                                                              *)

\* refresh(): invalidated data are asked for again, and a request in flight is
\* cancelled.
Refreshes == asked' = Request /\ queryFails' = 0 /\ UNCHANGED data

QueryAnswered ==
    /\ asked # NoRequest
    /\ data' = asked.answer
    /\ asked' = NoRequest /\ queryFails' = 0
    /\ UNCHANGED <<feedVars, bootVars, liveVars>>

\* A request that fails is retried twice; then the window shows the failure.
QueryFails ==
    /\ asked # NoRequest
    /\ Fault
    /\ IF queryFails < MaxRetries
       THEN asked' = Request /\ queryFails' = queryFails + 1
       ELSE asked' = NoRequest /\ queryFails' = MaxRetries + 1
    /\ UNCHANGED <<data, bootVars, liveVars>>

-----------------------------------------------------------------------------
(* useLiveEvents.                                                          *)

\* The connection stands: whatever was missed is fetched.
Connected ==
    /\ live.at = "fetch"
    /\ live' = [live EXCEPT !.at = "read"]
    /\ Refreshes
    /\ UNCHANGED <<feedVars, bootVars, lastID, timer>>

FrameWritten ==
    /\ live.at = "read" /\ CanWrite(live.stream)
    /\ live' = [live EXCEPT !.stream = Wrote(@)]
    /\ UNCHANGED <<feedVars, bootVars, lastID, timer, queryVars>>

\* SSEDecoder drops a checkpoint, identifier and all; an event arms the timer.
ReadFrame ==
    /\ live.at = "read" /\ HasFrame(live.stream)
    /\ live' = [live EXCEPT !.stream.read = NextFrame(live.stream)]
    /\ IF log[NextFrame(live.stream)] = "user"
       THEN /\ lastID' = NextFrame(live.stream)
            /\ timer' = IF timer = "off" THEN "armed" ELSE timer
       ELSE UNCHANGED <<lastID, timer>>
    /\ UNCHANGED <<feedVars, bootVars, queryVars>>

\* Mutant of TimerFires: the timer is not forgotten when it fires.
TimerFiresOnce ==
    /\ timer = "armed"
    /\ timer' = "fired"
    /\ Refreshes
    /\ UNCHANGED <<feedVars, bootVars, live, lastID>>

TimerFires ==
    /\ timer = "armed"
    /\ timer' = "off"
    /\ Refreshes
    /\ UNCHANGED <<feedVars, bootVars, live, lastID>>

\* The request fails, or the stream ends or breaks.
Disconnected ==
    /\ live.at \in {"fetch", "read"}
    /\ Fault
    /\ live' = [live EXCEPT !.at = "delay"]
    /\ UNCHANGED <<bootVars, lastID, timer, queryVars>>

\* The back-off is over.
Reconnects ==
    /\ live.at = "delay"
    /\ live' = [at |-> "fetch", stream |-> StreamAfter(lastID)]
    /\ UNCHANGED <<feedVars, bootVars, lastID, timer, queryVars>>

-----------------------------------------------------------------------------
Progress ==
    \/ QueryAnswered \/ Connected \/ FrameWritten \/ ReadFrame \/ TimerFires \/ Reconnects

DesktopNext ==
    \/ Record(Kinds) /\ UNCHANGED <<bootVars, liveVars, queryVars>>
    \/ Bootstrapped \/ Probed \/ BootFails \/ Retry
    \/ Progress
    \/ QueryFails \/ Disconnected

\* Requests are answered or fail, timers fire and the server's ticker runs.
DesktopFairness ==
    /\ WF_desktopVars(Bootstrapped \/ Probed)
    /\ WF_desktopVars(QueryAnswered)
    /\ WF_desktopVars(Connected \/ Reconnects)
    /\ WF_desktopVars(FrameWritten)
    /\ WF_desktopVars(ReadFrame)
    /\ WF_desktopVars(TimerFires)

-----------------------------------------------------------------------------
\* No user event is missed for good, whatever breaks and is replayed: the data
\* of the window come to reflect it, or it shows that they could not be read.
Reflected(n) == \A i \in 1..Len(log) : log[i] = "user" => n >= i

WindowCatchesUp == []<>(appStatus # "ready" \/ queryFails > MaxRetries \/ Reflected(data))
=============================================================================

------------------------------ MODULE Console ------------------------------
(***************************************************************************)
(* The session of the browser console (internal/ui/assets/app.js): the     *)
(* token, the calls of connect(), the polls of the status, and the loops   *)
(* of startEventStream with the identifier they resume from.               *)
(*                                                                         *)
(* All handlers share state.token: a request takes the token there is when *)
(* it is sent, and whichever request is refused for its token ends the     *)
(* session there is when the answer comes.  The three lists that connect() *)
(* loads are answered together.  What is displayed is left out.            *)
(***************************************************************************)
EXTENDS EventFeed

CONSTANT MaxConnects   \* bound on the calls of connect()

ASSUME ConnectsAssumption == MaxConnects \in Nat \ {0}

VARIABLES
    token,       \* state.token
    dialog,      \* whether authDialog is open
    connecting,  \* the calls of connect() that wait for an answer
    polls,       \* the tokens of the refreshes that wait for an answer
    generation,  \* state.streamGeneration
    loops,       \* the calls of startEventStream that have not returned
    lastEventID, \* state.lastEventID
    calls        \* calls of connect() so far

sessionVars == <<token, dialog, connecting, polls>>
loopVars    == <<generation, loops, lastEventID>>
consoleVars == <<feedVars, sessionVars, loopVars, calls>>

NoToken == "none"
Tokens  == {"valid", "wrong"}
Refused(t) == t # "valid"

\* A call of connect() waits for the status, then for the lists; sent is the
\* token of the requests it waits for.
Connect == [origin : {"init", "form"}, step : {"status", "lists"}, sent : Tokens \cup {NoToken}]

\* A loop waits for the answer to its request, reads, or waits to try again.
Loop == [of : Nat, at : {"fetch", "read", "delay"}, sent : Tokens \cup {NoToken}, stream : Streams]

ConsoleTypeOK ==
    /\ FeedTypeOK
    /\ token \in Tokens \cup {NoToken}
    /\ dialog \in BOOLEAN
    /\ connecting \subseteq Connect
    /\ polls \subseteq Tokens
    /\ generation \in Nat
    /\ loops \subseteq Loop
    /\ lastEventID \in 0..MaxEvents
    /\ calls \in 0..MaxConnects

StreamUnopened == generation = 0 /\ loops = {} /\ lastEventID = 0

SignedOut ==
    /\ token = NoToken /\ dialog = TRUE /\ connecting = {} /\ polls = {} /\ calls = 0
    /\ StreamUnopened

\* The page is loaded with a token in sessionStorage.
Restored ==
    /\ token \in Tokens /\ dialog = FALSE /\ polls = {} /\ calls = 1
    /\ connecting = {[origin |-> "init", step |-> "status", sent |-> token]}
    /\ StreamUnopened

ConsoleInit == FeedInit /\ (SignedOut \/ Restored)

-----------------------------------------------------------------------------
\* Aborting the stream's controller ends a loop that waits for the network; one
\* that sleeps finds out when it wakes.
Aborted(L) == {l \in L : l.at = "delay"}

Disconnect ==
    /\ token' = NoToken
    /\ generation' = generation + 1
    /\ loops' = Aborted(loops)

\* api() was answered 401.
Unauthorized == Disconnect /\ dialog' = TRUE

Fetching(g) ==
    [of |-> g, at |-> "fetch", sent |-> token, stream |-> StreamAfter(lastEventID)]

\* The condition of the loop of generation g.
Continues(g) == token # NoToken /\ g = generation

\* Loop l goes round, unless it is over.
GoesRound(l) ==
    loops' = (loops \ {l}) \cup (IF Continues(l.of) THEN {Fetching(l.of)} ELSE {})

\* Mutant of Catches: the loop does not try again.
CatchesOnce(l) == loops' = loops \ {l}

\* The catch of the loop.
Catches(l) ==
    loops' = (loops \ {l}) \cup (IF Continues(l.of) THEN {[l EXCEPT !.at = "delay"]} ELSE {})

\* Mutant of StartEventStream: the loop there may be is left to itself.
StartSecondStream ==
    /\ generation' = generation + 1
    /\ loops' = loops \cup (IF token # NoToken THEN {Fetching(generation')} ELSE {})

StartEventStream ==
    /\ generation' = generation + 1
    /\ loops' = Aborted(loops) \cup (IF token # NoToken THEN {Fetching(generation')} ELSE {})

-----------------------------------------------------------------------------
(* The session.                                                            *)

\* The user submits the form of the dialog, which is busy until connect()
\* returns.
SubmitToken(t) ==
    /\ dialog
    /\ \A c \in connecting : c.origin # "form"
    /\ calls < MaxConnects
    /\ calls' = calls + 1
    /\ token' = t
    /\ connecting' = connecting \cup {[origin |-> "form", step |-> "status", sent |-> t]}
    /\ UNCHANGED <<feedVars, dialog, polls, loopVars>>

ChangeToken ==
    /\ ~dialog
    /\ Disconnect
    /\ dialog' = TRUE
    /\ UNCHANGED <<feedVars, connecting, polls, lastEventID, calls>>

StatusAnswered(c) ==
    /\ c.step = "status"
    /\ IF Refused(c.sent)
       THEN Unauthorized /\ connecting' = connecting \ {c}
       ELSE /\ dialog' = FALSE
            /\ connecting' = (connecting \ {c}) \cup {[c EXCEPT !.step = "lists", !.sent = token]}
            /\ UNCHANGED <<token, generation, loops>>
    /\ UNCHANGED <<feedVars, polls, lastEventID, calls>>

\* The catch of connect(): unlike disconnect() it lets a stream go on.
ConnectFails(c) ==
    /\ c.step = "status"
    /\ Fault
    /\ token'  = NoToken
    /\ dialog' = TRUE
    /\ connecting' = connecting \ {c}
    /\ UNCHANGED <<polls, loopVars, calls>>

\* The lists are there, or each of the three was refused; startEventStream is
\* called in any case.
ListsAnswered(c) ==
    /\ c.step = "lists"
    /\ connecting' = connecting \ {c}
    /\ IF Refused(c.sent)
       THEN /\ token' = NoToken /\ dialog' = TRUE
            /\ generation' = generation + 4
            /\ loops' = Aborted(loops)
       ELSE StartEventStream /\ UNCHANGED <<token, dialog>>
    /\ UNCHANGED <<feedVars, polls, lastEventID, calls>>

\* refreshStatus every five seconds, or any other refresh of a list.
Poll ==
    /\ token # NoToken
    /\ token \notin polls
    /\ polls' = polls \cup {token}
    /\ UNCHANGED <<feedVars, token, dialog, connecting, loopVars, calls>>

PollAnswered(t) ==
    /\ polls' = polls \ {t}
    /\ IF Refused(t) THEN Unauthorized ELSE UNCHANGED <<token, dialog, generation, loops>>
    /\ UNCHANGED <<feedVars, connecting, lastEventID, calls>>

-----------------------------------------------------------------------------
(* The event stream.                                                       *)

StreamAnswered(l) ==
    /\ l.at = "fetch"
    /\ IF Refused(l.sent)
       THEN /\ token' = NoToken /\ dialog' = TRUE
            /\ generation' = generation + 1
            /\ loops' = Aborted(loops) \ {l}
       ELSE /\ loops' = (loops \ {l}) \cup {[l EXCEPT !.at = "read"]}
            /\ UNCHANGED <<token, dialog, generation>>
    /\ UNCHANGED <<feedVars, connecting, polls, lastEventID, calls>>

FramesWritten(l) ==
    /\ l.at = "read" /\ CanWrite(l.stream)
    /\ loops' = (loops \ {l}) \cup {[l EXCEPT !.stream = Wrote(@)]}
    /\ UNCHANGED <<feedVars, sessionVars, generation, lastEventID, calls>>

\* consumeEventFrame
ConsumeFrame(l) ==
    /\ l.at = "read" /\ HasFrame(l.stream)
    /\ lastEventID' = NextFrame(l.stream)
    /\ loops' = (loops \ {l}) \cup {[l EXCEPT !.stream.read = NextFrame(l.stream)]}
    /\ UNCHANGED <<feedVars, sessionVars, generation, calls>>

\* The server ends the stream.
StreamEnds(l) ==
    /\ l.at = "read"
    /\ Fault
    /\ GoesRound(l)
    /\ UNCHANGED <<sessionVars, generation, lastEventID, calls>>

\* The request fails, or the connection is lost.
StreamFails(l) ==
    /\ l.at \in {"fetch", "read"}
    /\ Fault
    /\ Catches(l)
    /\ UNCHANGED <<sessionVars, generation, lastEventID, calls>>

Wakes(l) ==
    /\ l.at = "delay"
    /\ GoesRound(l)
    /\ UNCHANGED <<feedVars, sessionVars, generation, lastEventID, calls>>

-----------------------------------------------------------------------------
Answers ==
    \/ \E c \in connecting : StatusAnswered(c) \/ ListsAnswered(c)
    \/ \E t \in polls : PollAnswered(t)
    \/ \E l \in loops : StreamAnswered(l)

Delivers ==
    \E l \in loops : FramesWritten(l) \/ ConsumeFrame(l) \/ Wakes(l)

ConsoleNext ==
    \/ Record({"user"}) /\ UNCHANGED <<sessionVars, loopVars, calls>>
    \/ \E t \in Tokens : SubmitToken(t)
    \/ ChangeToken
    \/ Poll
    \/ Answers
    \/ Delivers
    \/ \E c \in connecting : ConnectFails(c)
    \/ \E l \in loops : StreamEnds(l) \/ StreamFails(l)

\* Requests are answered, the server's ticker and the timer of delay() run.
ConsoleFairness ==
    /\ WF_consoleVars(\E c \in connecting : StatusAnswered(c) \/ ListsAnswered(c))
    /\ WF_consoleVars(\E l \in loops : StreamAnswered(l))
    /\ WF_consoleVars(\E l \in loops : FramesWritten(l))
    /\ WF_consoleVars(\E l \in loops : ConsumeFrame(l))
    /\ WF_consoleVars(\E l \in loops : Wakes(l))

ConsoleSpec == ConsoleInit /\ [][ConsoleNext]_consoleVars /\ ConsoleFairness

-----------------------------------------------------------------------------
\* Whatever is aborted, retried and reconnected, the frames are consumed one by
\* one: none is skipped, and none is consumed again.
EventsInOrder ==
    [][lastEventID' \in {lastEventID, lastEventID + 1}]_consoleVars

\* As long as a session lasts, its stream comes back and catches up.
StreamRecovers == []<>(token # "valid" \/ lastEventID = Len(log))
=============================================================================

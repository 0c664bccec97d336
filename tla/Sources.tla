------------------------------- MODULE Sources -------------------------------
(***************************************************************************)
(* The source manager (internal/app/sources.go) over the store operations  *)
(* of Batches: API calls that start, resume, pause and stop sessions, the  *)
(* goroutine that captures each active session, the batch sweeper, and the *)
(* end and restart of the application run.                                 *)
(*                                                                         *)
(* An API call takes the manager's lock, then reads the session row, then  *)
(* writes it, in separate steps, so calls and capture goroutines           *)
(* interleave between them.  The done channel is closed with the last step *)
(* of the goroutine, the removal from the active map.                      *)
(***************************************************************************)
EXTENDS Batches

CONSTANTS
    Callers,        \* concurrent API calls
    Runners,        \* capture goroutines
    Nobody,         \* no goroutine, or no session
    StoreMayFail    \* TRUE: a session update may fail

ASSUME SourcesAssumption ==
    /\ Nobody \notin Runners \cup Sessions
    /\ StoreMayFail \in BOOLEAN

VARIABLES
    app,        \* "up", or "stopping" once the root context is cancelled
    active,     \* SourceManager.active
    runner,     \* the capture goroutines
    call        \* the API calls

managerVars == <<active, runner, call>>
sourceVars  == <<storeVars, app, managerVars>>

\* A goroutine ends in "recording" its final state and "leaving" the map.
RunnerSteps == {"none", "starting", "capturing", "queueing", "ended",
                "recording", "leaving"}
CallSteps   == {"idle", "create", "checked", "resume", "launch",
                "lookup", "settle", "wait"}

Runner == [pc      : RunnerSteps,
           session : Sessions \cup {Nobody},
           cancelled : BOOLEAN,                     \* its context
           paused  : BOOLEAN,                       \* waitForCapacity
           final   : {"stopped", "paused"},         \* set by Stop
           verdict : Ended]                         \* the state to record
Call   == [pc      : CallSteps,
           session : Sessions \cup {Nobody},
           awaits  : Runners \cup {Nobody},         \* the done channel
           pause   : BOOLEAN]

NoRunner == [pc |-> "none", session |-> Nobody, cancelled |-> FALSE,
             paused |-> FALSE, final |-> "stopped", verdict |-> "stopped"]
NoCall   == [pc |-> "idle", session |-> Nobody, awaits |-> Nobody,
             pause |-> FALSE]

\* The store, the active map, every goroutine and every call have their type.
SourcesTypeOK ==
    /\ TypeOK
    /\ app    \in {"up", "stopping"}
    /\ active \in [Sessions -> Runners \cup {Nobody}]
    /\ runner \in [Runners -> Runner]
    /\ call   \in [Callers -> Call]

SourcesInit ==
    /\ Init
    /\ app    = "up"
    /\ active = [s \in Sessions |-> Nobody]
    /\ runner = [r \in Runners |-> NoRunner]
    /\ call   = [a \in Callers |-> NoCall]

Alive(r)      == runner[r].pc # "none"
Capturing(r)  == runner[r].pc \in {"capturing", "queueing"}
Captured      == Sessions \ ManualSessions

\* An update whose error is ignored or returned: it happens, or it fails.
Recorded(s, st) ==
    UpdateSourceSession(s, st) \/ (StoreMayFail /\ UNCHANGED storeVars)

-----------------------------------------------------------------------------
(* API calls.                                                              *)

Step(a, pc) == call' = [call EXCEPT ![a].pc = pc]
Answer(a)   == call' = [call EXCEPT ![a] = NoCall]

\* Mutant of Launch: the context does not descend from the root.
LaunchDetached(s) ==
    \E r \in Runners :
        /\ ~Alive(r)
        /\ \A a \in Callers : call[a].awaits # r
        /\ active' = [active EXCEPT ![s] = r]
        /\ runner' = [runner EXCEPT ![r] =
              [NoRunner EXCEPT !.pc = "starting", !.session = s]]

\* The goroutine of a session is registered and started, under a context that
\* descends from the root.
Launch(s) ==
    \E r \in Runners :
        /\ ~Alive(r)
        /\ \A a \in Callers : call[a].awaits # r
        /\ active' = [active EXCEPT ![s] = r]
        /\ runner' = [runner EXCEPT ![r] =
              [NoRunner EXCEPT !.pc = "starting", !.session = s,
                               !.cancelled = (app = "stopping")]]

\* Start: a session row with a fresh identifier.
StartCreate(a, s) ==
    /\ call[a].pc = "idle"
    /\ app = "up"
    /\ SaveSourceSession(s)
    /\ call' = [call EXCEPT ![a] = [NoCall EXCEPT !.pc = "create", !.session = s]]
    /\ UNCHANGED <<app, active, runner>>

StartLaunch(a) ==
    /\ call[a].pc = "create"
    /\ Launch(call[a].session)
    /\ Answer(a)
    /\ UNCHANGED <<storeVars, app>>

\* Resume of a session the API has listed: not active, and the application
\* runs.
ResumeCheck(a, s) ==
    /\ call[a].pc = "idle"
    /\ state[s] # "none"
    /\ app = "up"
    /\ active[s] = Nobody
    /\ call' = [call EXCEPT ![a] = [NoCall EXCEPT !.pc = "checked", !.session = s]]
    /\ UNCHANGED <<storeVars, app, active, runner>>

\* Only a paused session is resumed.
ResumeRead(a) ==
    /\ call[a].pc = "checked"
    /\ IF state[call[a].session] = "paused" THEN Step(a, "resume") ELSE Answer(a)
    /\ UNCHANGED <<storeVars, app, active, runner>>

ResumeWrite(a) ==
    /\ call[a].pc = "resume"
    /\ \/ UpdateSourceSession(call[a].session, "starting") /\ Step(a, "launch")
       \/ StoreMayFail /\ UNCHANGED storeVars /\ Answer(a)
    /\ UNCHANGED <<app, active, runner>>

\* Mutant of ResumeLaunch: the session is not checked again.
ResumeUnchecked(a) ==
    /\ call[a].pc = "launch"
    /\ Launch(call[a].session)
    /\ Answer(a)
    /\ UNCHANGED <<storeVars, app>>

\* The second check, under the lock: the session "became active".
ResumeLaunch(a) ==
    /\ call[a].pc = "launch"
    /\ IF active[call[a].session] = Nobody THEN Launch(call[a].session)
       ELSE UNCHANGED <<active, runner>>
    /\ Answer(a)
    /\ UNCHANGED <<storeVars, app>>

\* Stop, or with pause Pause: an active session is cancelled, and the call
\* waits for its goroutine.
StopLook(a, s, pause) ==
    /\ call[a].pc = "idle"
    /\ state[s] # "none"
    /\ LET r == active[s]
       IN  IF r = Nobody
           THEN /\ call' = [call EXCEPT ![a] = [NoCall EXCEPT
                               !.pc = "lookup", !.session = s, !.pause = pause]]
                /\ UNCHANGED runner
           ELSE /\ call' = [call EXCEPT ![a] = [NoCall EXCEPT
                               !.pc = "wait", !.session = s, !.awaits = r,
                               !.pause = pause]]
                /\ runner' = [runner EXCEPT ![r].cancelled = TRUE,
                        ![r].final = IF pause THEN "paused" ELSE "stopped"]
    /\ UNCHANGED <<storeVars, app, active>>

\* A session that is not active is stopped only if its row is paused; any other
\* row is left alone, with or without an error.
StopLookup(a) ==
    /\ call[a].pc = "lookup"
    /\ IF ~call[a].pause /\ state[call[a].session] = "paused"
       THEN Step(a, "settle") ELSE Answer(a)
    /\ UNCHANGED <<storeVars, app, active, runner>>

StopSettle(a) ==
    /\ call[a].pc = "settle"
    /\ Recorded(call[a].session, "stopped")
    /\ Answer(a)
    /\ UNCHANGED <<app, active, runner>>

\* The goroutine has closed its done channel.
StopReturn(a) ==
    /\ call[a].pc = "wait"
    /\ ~Alive(call[a].awaits)
    /\ Answer(a)
    /\ UNCHANGED <<storeVars, app, active, runner>>

\* The request is cancelled before the goroutine has ended.
StopGivesUp(a) ==
    /\ call[a].pc = "wait"
    /\ Alive(call[a].awaits)
    /\ Answer(a)
    /\ UNCHANGED <<storeVars, app, active, runner>>

CallStep(a) ==
    \/ StartLaunch(a)
    \/ ResumeRead(a) \/ ResumeWrite(a) \/ ResumeLaunch(a)
    \/ StopLookup(a) \/ StopSettle(a) \/ StopReturn(a)

-----------------------------------------------------------------------------
(* The capture goroutine: runSource.                                       *)

Goto(r, pc) == runner' = [runner EXCEPT ![r].pc = pc]

RunnerStart(r) ==
    /\ runner[r].pc = "starting"
    /\ Recorded(runner[r].session, "running")
    /\ Goto(r, "capturing")
    /\ UNCHANGED <<app, active, call>>

\* The source emits a chunk, when a segment ends or while it drains after a
\* cancellation; only then it does not wait for capacity.
Emit(r, c) ==
    /\ runner[r].pc = "capturing"
    /\ SaveChunk(runner[r].session, c)
    /\ Goto(r, IF runner[r].cancelled THEN "capturing" ELSE "queueing")
    /\ UNCHANGED <<app, active, call>>

\* waitForCapacity finds the queue full: the first time the session is shown
\* as paused.  How full the queue is depends on the rest of the pipeline.
Throttle(r) ==
    /\ runner[r].pc = "queueing" /\ ~runner[r].cancelled /\ ~runner[r].paused
    /\ Recorded(runner[r].session, "paused")
    /\ runner' = [runner EXCEPT ![r].paused = TRUE]
    /\ UNCHANGED <<app, active, call>>

\* waitForCapacity finds room.
Proceed(r) ==
    /\ runner[r].pc = "queueing" /\ ~runner[r].cancelled
    /\ IF runner[r].paused THEN Recorded(runner[r].session, "running")
       ELSE UNCHANGED storeVars
    /\ runner' = [runner EXCEPT ![r].pc = "capturing", ![r].paused = FALSE]
    /\ UNCHANGED <<app, active, call>>

\* Mutant of Return: a source that waits for capacity misses the cancellation.
ReturnWhenIdle(r) ==
    /\ runner[r].pc = "capturing" /\ runner[r].cancelled
    /\ Goto(r, "ended")
    /\ UNCHANGED <<storeVars, app, active, call>>

\* The source comes back because its context is cancelled.
Return(r) ==
    /\ Capturing(r) /\ runner[r].cancelled
    /\ Goto(r, "ended")
    /\ UNCHANGED <<storeVars, app, active, call>>

\* The device, the transcriber or the store fails.
Break(r) ==
    /\ Capturing(r)
    /\ runner' = [runner EXCEPT ![r].pc = "recording", ![r].verdict = "failed"]
    /\ UNCHANGED <<storeVars, app, active, call>>

\* Mutant of ReadFinal: the row is believed instead of the call.
ReadRow(r) ==
    /\ runner[r].pc = "ended"
    /\ runner' = [runner EXCEPT ![r].pc = "recording",
                                ![r].verdict = state[runner[r].session]]
    /\ UNCHANGED <<storeVars, app, active, call>>

\* The final state is read under the lock, and recorded without it.
ReadFinal(r) ==
    /\ runner[r].pc = "ended"
    /\ runner' = [runner EXCEPT ![r].pc = "recording",
                                ![r].verdict = runner[r].final]
    /\ UNCHANGED <<storeVars, app, active, call>>

RecordFinal(r) ==
    /\ runner[r].pc = "recording"
    /\ Recorded(runner[r].session, runner[r].verdict)
    /\ Goto(r, "leaving")
    /\ UNCHANGED <<app, active, call>>

Leave(r) ==
    /\ runner[r].pc = "leaving"
    /\ active' = [active EXCEPT ![runner[r].session] = Nobody]
    /\ runner' = [runner EXCEPT ![r] = NoRunner]
    /\ UNCHANGED <<storeVars, app, call>>

RunnerStep(r) ==
    \/ RunnerStart(r)
    \/ Throttle(r)
    \/ Proceed(r)
    \/ Return(r)
    \/ ReadFinal(r)
    \/ RecordFinal(r)
    \/ Leave(r)

-----------------------------------------------------------------------------
(* The application run.                                                    *)

\* The coordinator sweeps while the application runs.
Sweep == app = "up" /\ SweepBatches /\ UNCHANGED <<app, managerVars>>

\* Run's context is cancelled: every active session is, and the sessions
\* launched from now on are born cancelled.
Shutdown ==
    /\ app = "up"
    /\ app' = "stopping"
    /\ runner' = [r \in Runners |-> IF Alive(r) THEN [runner[r] EXCEPT !.cancelled = TRUE]
                                    ELSE runner[r]]
    /\ UNCHANGED <<storeVars, active, call>>

\* The process ends, cleanly or not, and the next one starts.
Restart ==
    /\ StartAppRun
    /\ app'    = "up"
    /\ active' = [s \in Sessions |-> Nobody]
    /\ runner' = [r \in Runners |-> NoRunner]
    /\ call'   = [a \in Callers |-> NoCall]

Pass == Tick /\ UNCHANGED <<app, managerVars>>

SourcesNext ==
    \/ \E a \in Callers :
          \/ \E s \in Captured : \/ StartCreate(a, s) \/ ResumeCheck(a, s)
                                 \/ \E pause \in BOOLEAN : StopLook(a, s, pause)
          \/ CallStep(a)
          \/ StopGivesUp(a)
    \/ \E r \in Runners : \/ RunnerStep(r) \/ Break(r)
                          \/ \E c \in Chunks : Emit(r, c)
    \/ Sweep
    \/ Shutdown
    \/ Restart
    \/ Pass

SourcesSpec == SourcesInit /\ [][SourcesNext]_sourceVars

\* Goroutines and calls are scheduled, a cancelled source comes back (draining
\* is bounded by the transcription timeout), time passes and the ticker
\* sweeps.  Nothing is assumed of the queue's capacity.
SourcesFairness ==
    /\ \A a \in Callers : WF_sourceVars(CallStep(a))
    /\ \A r \in Runners :
        /\ WF_sourceVars(RunnerStart(r) \/ ReadFinal(r) \/ RecordFinal(r) \/ Leave(r))
        /\ WF_sourceVars(Return(r))
    /\ WF_sourceVars(Sweep)
    /\ WF_sourceVars(Pass)

FairSourcesSpec == SourcesSpec /\ SourcesFairness

-----------------------------------------------------------------------------
(* What the source manager promises.                                       *)

\* However starts, resumes and stops interleave, a session is captured by at
\* most one goroutine, and it is the one the active map names, so that Stop
\* and Shutdown reach it.
ActiveIsTheCapture ==
    \A r \in Runners : Alive(r) => active[runner[r].session] = r

\* A call that waits for a goroutine gets its answer: the goroutine ends even
\* when the queue stays full for ever.
StopIsAnswered ==
    \A a \in Callers : call[a].pc = "wait" ~> call[a].pc # "wait"

\* Shutdown ends every capture, also one that a Start or Resume in flight
\* launches after the active sessions have been cancelled.
ShutdownDrains ==
    app = "stopping" ~> \/ app = "up"
                        \/ \A r \in Runners : ~Alive(r)

\* Text captured is handed to extraction whatever happens to the session's
\* state, if the application is run again after it was stopped.
CapturedTextIsHandedOver ==
    []<>(app = "up") =>
        \A s \in Sessions : Collecting(batches[s]) # {} ~> Collecting(batches[s]) = {}

\* Once Stop has waited for the goroutine, the session's row is paused,
\* stopped or failed, unless it has been resumed since (sources.go, Stop: it
\* "persists either paused or stopped state").
StopPersists ==
    [][\A a \in Callers :
          LET s == call[a].session
          IN  StopReturn(a) =>
                 \/ state[s] \in Ended
                 \/ active[s] # Nobody
                 \/ \E b \in Callers : call[b].pc = "launch" /\ call[b].session = s
      ]_sourceVars
=============================================================================

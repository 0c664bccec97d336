---------------------------- MODULE JobLifecycle ----------------------------
(***************************************************************************)
(* What the durable queue promises of every job, without leases, attempts, *)
(* delays or time (docs/pipeline.md section 4, docs/architecture.md        *)
(* invariants 5 and 6): a job is open until it is done or failed, at most  *)
(* one worker holds it, only the holder commits its result, settles it or  *)
(* lets go of it while the run lasts, and it is done only once its result  *)
(* is committed.                                                           *)
(***************************************************************************)
CONSTANTS Jobs, Workers, NoWorker

VARIABLES
    phase,      \* "absent", "open", "done" or "failed"
    holder,     \* the worker that holds the job, or NoWorker
    committed   \* the job's result transaction has committed

lifecycle == <<phase, holder, committed>>

Init ==
    /\ phase     = [j \in Jobs |-> "absent"]
    /\ holder    = [j \in Jobs |-> NoWorker]
    /\ committed = [j \in Jobs |-> FALSE]

Submit(j) ==
    /\ phase[j] = "absent"
    /\ phase' = [phase EXCEPT ![j] = "open"]
    /\ UNCHANGED <<holder, committed>>

Take(j, w) ==
    /\ phase[j] = "open" /\ holder[j] = NoWorker
    /\ holder' = [holder EXCEPT ![j] = w]
    /\ UNCHANGED <<phase, committed>>

Commit(j, w) ==
    /\ holder[j] = w
    /\ committed' = [committed EXCEPT ![j] = TRUE]
    /\ UNCHANGED <<phase, holder>>

\* The holder leaves the job open for another attempt, done or failed.
LetGo(j, w) ==
    /\ holder[j] = w
    /\ holder' = [holder EXCEPT ![j] = NoWorker]
    /\ \/ UNCHANGED phase
       \/ committed[j] /\ phase' = [phase EXCEPT ![j] = "done"]
       \/ phase' = [phase EXCEPT ![j] = "failed"]
    /\ UNCHANGED committed

Reopen(j) ==
    /\ phase[j] = "failed"
    /\ phase' = [phase EXCEPT ![j] = "open"]
    /\ UNCHANGED <<holder, committed>>

\* The run ends and the next one starts: nobody holds a job, and some failed
\* jobs are open again.
NewRun ==
    /\ holder' = [j \in Jobs |-> NoWorker]
    /\ \E R \in SUBSET {j \in Jobs : phase[j] = "failed"} :
          phase' = [j \in Jobs |-> IF j \in R THEN "open" ELSE phase[j]]
    /\ UNCHANGED committed

Next ==
    \/ \E j \in Jobs : Submit(j) \/ Reopen(j)
    \/ \E j \in Jobs, w \in Workers : Take(j, w) \/ Commit(j, w) \/ LetGo(j, w)
    \/ NewRun

Spec == Init /\ [][Next]_lifecycle
=============================================================================

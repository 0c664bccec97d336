------------------------------ MODULE JobQueue ------------------------------
(***************************************************************************)
(* The durable job queue (internal/storage/sqlite/queue.go) and the        *)
(* workers that drain it (internal/ingest/worker.go), with the recovery    *)
(* that StartAppRun performs on the jobs table.                            *)
(*                                                                         *)
(* Every store operation is one SQLite transaction on a pool of one        *)
(* connection, so it is one action here.  A worker is a goroutine that     *)
(* takes several steps between its store operations: claim, handle (with   *)
(* renewals from the ticker), settle.  The job row carries the lease; the  *)
(* worker carries the snapshot of the row it got from Claim.               *)
(*                                                                         *)
(* Times are relative to the current time: due[j] is available_at - now    *)
(* and lease[j] is lease_until - now, in abstract units, so that time is   *)
(* unbounded and the state space finite.                                   *)
(***************************************************************************)
EXTENDS Integers, FiniteSets

CONSTANTS
    Jobs,           \* the job identifiers
    PrepareJobs,    \* the jobs of kind prepare_conspect_review
    ExtractJobs,    \* the jobs of kind extract_analysis_batch
    Workers,        \* the workers of one application run
    NoWorker,       \* the empty lease owner
    NoJob,          \* a worker that holds no job
    MaxAttempts,    \* pipeline.max_attempts
    Lease,          \* pipeline.lease, in time units
    PauseDelay,     \* the fixed pause of ErrPaused and ErrBackpressure
    MaxDelay,       \* the cap of the exponential delay
    TimelyRenewal   \* TRUE: no live worker is ever late with a renewal

ASSUME JobsAssumption ==
    /\ IsFiniteSet(Jobs)
    /\ PrepareJobs \subseteq Jobs
    /\ ExtractJobs \subseteq Jobs
    /\ PrepareJobs \cap ExtractJobs = {}
    /\ NoJob \notin Jobs

ASSUME WorkersAssumption == NoWorker \notin Workers

ASSUME LimitsAssumption ==
    /\ MaxAttempts \in Nat \ {0}
    /\ Lease \in Nat \ {0}
    /\ PauseDelay \in Nat
    /\ MaxDelay \in Nat
    /\ TimelyRenewal \in BOOLEAN

VARIABLES
    status,     \* jobs.status; "none" is a job not enqueued yet
    attempts,   \* jobs.attempts, saturating at MaxAttempts (see Claim)
    due,        \* jobs.available_at - now; kept at 0 in a terminal status
    owner,      \* jobs.lease_owner
    lease,      \* jobs.lease_until - now, 0 is expired
    transient,  \* the jobs whose last_error is a transient transport text
    result,     \* what the handler's own transactions did to the subject
    pc,         \* where each worker is
    task,       \* the job it claimed
    tries,      \* the Attempts field of the snapshot Claim returned
    asked,      \* the workers whose extraction has got past WaitReady
    served,     \* the workers whose handler has found or committed its result
    outcome,    \* what the handler returned
    app,        \* the run: "up", or "stopping" once its context is cancelled
    ready       \* the supervisor's health is "ready", or "external"

rowVars    == <<status, attempts, due, owner, lease, transient>>
workerVars == <<pc, task, tries, asked, served, outcome>>
vars       == <<status, attempts, due, owner, lease, transient, result,
                pc, task, tries, asked, served, outcome, app, ready>>

Statuses == {"none", "queued", "running", "retry", "done", "failed"}
Waiting  == {"queued", "retry"}
Terminal == {"done", "failed"}
\* "committed": the batch is extracted, the review prepared, the export
\* written.  "abandoned": Fail moved the conspect of a prepare job to failed.
Results  == {"none", "committed", "abandoned"}
Outcomes == {"none", "ok", "error", "transient", "paused", "backpressure"}
Phases   == {"idle", "handling", "draining", "returned", "stopped"}

\* A live worker still holds the job it claimed, whether or not the row
\* still names it as the owner.
Live(w)  == pc[w] \in {"handling", "draining", "returned"}

RowsOK ==
    /\ status    \in [Jobs -> Statuses]
    /\ attempts  \in [Jobs -> 0..MaxAttempts]
    /\ due       \in [Jobs -> Int]
    /\ owner     \in [Jobs -> Workers \cup {NoWorker}]
    /\ lease     \in [Jobs -> 0..Lease]
    /\ transient \subseteq Jobs
    /\ result    \in [Jobs -> Results]

WorkersOK ==
    /\ pc       \in [Workers -> Phases]
    /\ task     \in [Workers -> Jobs \cup {NoJob}]
    /\ tries    \in [Workers -> 0..MaxAttempts]
    /\ asked    \subseteq Workers
    /\ served   \subseteq Workers
    /\ outcome  \in [Workers -> Outcomes]
    /\ app      \in {"up", "stopping"}
    /\ ready    \in BOOLEAN

\* Every row of the jobs table and every worker is in a state of its type.
TypeOK == RowsOK /\ WorkersOK

Init ==
    /\ status    = [j \in Jobs |-> "none"]
    /\ attempts  = [j \in Jobs |-> 0]
    /\ due       = [j \in Jobs |-> 0]
    /\ owner     = [j \in Jobs |-> NoWorker]
    /\ lease     = [j \in Jobs |-> 0]
    /\ transient = {}
    /\ result    = [j \in Jobs |-> "none"]
    /\ pc        = [w \in Workers |-> "idle"]
    /\ task      = [w \in Workers |-> NoJob]
    /\ tries     = [w \in Workers |-> 0]
    /\ asked     = {}
    /\ served    = {}
    /\ outcome   = [w \in Workers |-> "none"]
    /\ app       = "up"
    /\ ready     = FALSE

-----------------------------------------------------------------------------
(* Time.                                                                   *)

\* One unit passes.  Overdue jobs keep their order (Claim sorts by
\* available_at) but not how long they have been overdue, which bounds due
\* below by -Cardinality(Jobs).
Aged(f) ==
    [j \in Jobs |-> IF f[j] >= 0 THEN f[j]
                    ELSE -Cardinality({k \in Jobs : f[k] < 0 /\ f[k] >= f[j]})]

\* With TimelyRenewal the ticker (every lease/3) and the settling store call
\* are never a whole lease late, so no live worker's lease runs out.
\* Without it anything may happen to a worker for the length of a lease: the
\* machine sleeps, or the single connection is busy.
Tick ==
    /\ TimelyRenewal => \A w \in Workers : Live(w) => lease[task[w]] > 1
    /\ due' = Aged([j \in Jobs |-> IF status[j] \in Waiting \cup {"running"}
                                   THEN due[j] - 1 ELSE due[j]])
    /\ lease' = [j \in Jobs |-> IF lease[j] > 0 THEN lease[j] - 1 ELSE 0]
    /\ UNCHANGED <<status, attempts, owner, transient, result, workerVars,
                   app, ready>>

-----------------------------------------------------------------------------
(* The store's operations that are not a worker's.                         *)

\* insertJob: a committed stage queues the next one.
Enqueue(j) ==
    /\ status[j] = "none"
    /\ status' = [status EXCEPT ![j] = "queued"]
    /\ UNCHANGED <<attempts, due, owner, lease, transient, result,
                   workerVars, app, ready>>

\* Mutant of RetryFailedJob: the conspect of the job stays failed.
RetryJobAlone(j) ==
    /\ status[j] = "failed"
    /\ status'    = [status    EXCEPT ![j] = "queued"]
    /\ attempts'  = [attempts  EXCEPT ![j] = 0]
    /\ transient' = transient \ {j}
    /\ UNCHANGED <<due, owner, lease, result, workerVars, app, ready>>

\* RetryFailedJob: the user's manual retry of a failed job.
RetryFailedJob(j) ==
    /\ status[j] = "failed"
    /\ status'    = [status    EXCEPT ![j] = "queued"]
    /\ attempts'  = [attempts  EXCEPT ![j] = 0]
    /\ due'       = [due       EXCEPT ![j] = 0]
    /\ owner'     = [owner     EXCEPT ![j] = NoWorker]
    /\ lease'     = [lease     EXCEPT ![j] = 0]
    /\ transient' = transient \ {j}
    /\ result'    = [result    EXCEPT ![j] =
                        IF j \in PrepareJobs /\ @ = "abandoned"
                        THEN "none" ELSE @]
    /\ UNCHANGED <<workerVars, app, ready>>

-----------------------------------------------------------------------------
(* A worker: Claim, then the handler under a renewed lease, then one       *)
(* settling call.                                                          *)

\* Mutant of Expired: recovery takes leases that have not run out.
Unfinished == {j \in Jobs : status[j] = "running"}

Expired  == {j \in Jobs : status[j] = "running" /\ lease[j] = 0}

\* Mutant of Eligible: the status is not looked at.
Overdue == {j \in Jobs : /\ status[j] \notin {"none", "running"} \/ j \in Expired
                         /\ due[j] <= 0}

Eligible == {j \in Jobs : /\ status[j] \in Waiting \/ j \in Expired
                          /\ due[j] <= 0}

\* One transaction: return every expired row to retry, then lease the eligible
\* row with the oldest available_at.  With nothing eligible the transaction is
\* rolled back and nothing changes (ErrNoJob).  attempts saturates: the code
\* only compares it with MaxAttempts, and uses it as an exponent below that.
Claim(w) ==
    /\ pc[w] = "idle"
    /\ app = "up"
    /\ \E j \in Eligible :
        /\ \A k \in Eligible : due[j] <= due[k]
        /\ LET n == IF attempts[j] < MaxAttempts THEN attempts[j] + 1
                                                 ELSE MaxAttempts
           IN  /\ attempts' = [attempts EXCEPT ![j] = n]
               /\ tries'    = [tries    EXCEPT ![w] = n]
        /\ status' = [k \in Jobs |-> IF k = j THEN "running"
                                     ELSE IF k \in Expired THEN "retry"
                                     ELSE status[k]]
        /\ owner'  = [k \in Jobs |-> IF k = j THEN w
                                     ELSE IF k \in Expired THEN NoWorker
                                     ELSE owner[k]]
        /\ lease'  = [lease EXCEPT ![j] = Lease]
        /\ task'   = [task  EXCEPT ![w] = j]
    /\ pc'      = [pc      EXCEPT ![w] = "handling"]
    /\ asked'   = asked  \ {w}
    /\ served'  = served \ {w}
    /\ outcome' = [outcome EXCEPT ![w] = "none"]
    /\ UNCHANGED <<due, transient, result, app, ready>>

Owns(w) == status[task[w]] = "running" /\ owner[task[w]] = w

\* Mutant of Renew: the lease is added to what is left of it.
Extend(w) ==
    /\ pc[w] = "handling"
    /\ Owns(w)
    /\ lease' = [lease EXCEPT ![task[w]] = @ + Lease]
    /\ UNCHANGED <<status, attempts, due, owner, transient, result,
                   workerVars, app, ready>>

\* The ticker branch of handleWithLease: the lease starts over.
Renew(w) ==
    /\ pc[w] = "handling"
    /\ Owns(w)
    /\ lease' = [lease EXCEPT ![task[w]] = Lease]
    /\ UNCHANGED <<status, attempts, due, owner, transient, result,
                   workerVars, app, ready>>

\* The renewal is refused (the row is no longer this worker's) or its store
\* call fails: the worker cancels the handler and waits for it to come back.
RenewFailed(w) ==
    /\ pc[w] = "handling"
    /\ pc' = [pc EXCEPT ![w] = "draining"]
    /\ UNCHANGED <<rowVars, result, task, tries, asked, served, outcome, app, ready>>

\* An extraction that has not found its batch extracted and has not got its
\* turn with the model either: it is on its way to WaitReady or blocked in it.
Waits(w) ==
    /\ pc[w] = "handling"
    /\ task[w] \in ExtractJobs
    /\ result[task[w]] = "none"
    /\ w \notin asked \cup served

\* WaitReady looks every 100 ms whether the model is ready, without a deadline;
\* meanwhile the ticker goes on renewing the lease.
WaitReady(w) ==
    /\ Waits(w)
    /\ ready
    /\ asked' = asked \cup {w}
    /\ UNCHANGED <<rowVars, result, pc, task, tries, served, outcome, app, ready>>

\* The handler's own transaction: it commits its result, or finds the subject
\* already past this stage and leaves it alone (handlers are idempotent).  An
\* extraction has nothing to commit before the model has answered.
Serve(w) ==
    /\ pc[w] \in {"handling", "draining"}
    /\ w \notin served
    /\ task[w] \in ExtractJobs /\ result[task[w]] = "none" => w \in asked
    /\ served' = served \cup {w}
    /\ result' = [result EXCEPT ![task[w]] =
                     IF @ = "none" THEN "committed" ELSE @]
    /\ UNCHANGED <<rowVars, pc, task, tries, asked, outcome, app, ready>>

\* The handler comes back by itself.  Only extraction looks at the review limit,
\* before it asks the model, and has errors of the model's transport, after.
Return(w, o) ==
    /\ pc[w] = "handling"
    /\ o = "ok" => w \in served
    /\ o \in {"transient", "paused", "backpressure"} =>
           w \notin served /\ task[w] \in ExtractJobs
    /\ o \in {"transient", "paused"} => w \in asked
    /\ o = "backpressure" => w \notin asked
    /\ pc'      = [pc      EXCEPT ![w] = "returned"]
    /\ outcome' = [outcome EXCEPT ![w] = o]
    /\ UNCHANGED <<rowVars, result, task, tries, asked, served, app, ready>>

\* A handler cancelled by a refused renewal comes back; whatever it returned,
\* handleWithLease reports the renewal error.
Drained(w) ==
    /\ pc[w] = "draining"
    /\ pc'      = [pc      EXCEPT ![w] = "returned"]
    /\ outcome' = [outcome EXCEPT ![w] = "error"]
    /\ UNCHANGED <<rowVars, result, task, tries, asked, served, app, ready>>

\* Mutant of Settle: available_at is left as it was.
SettleInPlace(j, s, d, T) ==
    /\ status'    = [status    EXCEPT ![j] = s]
    /\ owner'     = [owner     EXCEPT ![j] = NoWorker]
    /\ lease'     = [lease     EXCEPT ![j] = 0]
    /\ transient' = T
    /\ UNCHANGED due

\* setJobState and the last UPDATE of Fail: by id alone.
Settle(j, s, d, T) ==
    /\ status'    = [status    EXCEPT ![j] = s]
    /\ due'       = [due       EXCEPT ![j] = d]
    /\ owner'     = [owner     EXCEPT ![j] = NoWorker]
    /\ lease'     = [lease     EXCEPT ![j] = 0]
    /\ transient' = T

\* The worker forgets its job.
Forget(w, phase) ==
    /\ pc'      = [pc      EXCEPT ![w] = phase]
    /\ task'    = [task    EXCEPT ![w] = NoJob]
    /\ tries'   = [tries   EXCEPT ![w] = 0]
    /\ asked'   = asked  \ {w}
    /\ served'  = served \ {w}
    /\ outcome' = [outcome EXCEPT ![w] = "none"]

\* The exponential delay, or the fixed pause, capped.
RetryDelay(n, o) ==
    LET d == IF o = "paused" THEN PauseDelay ELSE 2 ^ (n - 1)
    IN  IF d > MaxDelay THEN MaxDelay ELSE d

Complete(w) ==
    /\ pc[w] = "returned" /\ app = "up" /\ outcome[w] = "ok"
    /\ Settle(task[w], "done", 0, transient \ {task[w]})
    /\ Forget(w, "idle")
    /\ UNCHANGED <<attempts, result, app, ready>>

\* last_error after an error: the text of an ErrPaused error may or may not be
\* one of the transient ones.
Diagnosed(j, o) ==
    CASE o = "transient" -> {transient \cup {j}}
      [] o = "paused"    -> {transient \cup {j}, transient \ {j}}
      [] OTHER           -> {transient \ {j}}

\* Mutant of RetryLater: the attempt limit is off by one.
RetryOnceMore(w) ==
    /\ pc[w] = "returned" /\ app = "up"
    /\ \/ outcome[w] = "backpressure"
       \/ outcome[w] \in {"error", "transient", "paused"} /\ tries[w] <= MaxAttempts
    /\ \E T \in Diagnosed(task[w], outcome[w]) :
          Settle(task[w], "retry", PauseDelay, T)
    /\ Forget(w, "idle")
    /\ UNCHANGED <<attempts, result, app, ready>>

RetryLater(w) ==
    /\ pc[w] = "returned" /\ app = "up"
    /\ \/ outcome[w] = "backpressure"
       \/ outcome[w] \in {"error", "transient", "paused"} /\ tries[w] < MaxAttempts
    /\ \E T \in Diagnosed(task[w], outcome[w]) :
          Settle(task[w], "retry",
                 IF outcome[w] = "backpressure" THEN PauseDelay
                 ELSE RetryDelay(tries[w], outcome[w]), T)
    /\ Forget(w, "idle")
    /\ UNCHANGED <<attempts, result, app, ready>>

\* Fail: for a prepare job the conspect fails with it, in one transaction.
Fail(w) ==
    /\ pc[w] = "returned" /\ app = "up"
    /\ outcome[w] \in {"error", "transient", "paused"} /\ tries[w] >= MaxAttempts
    /\ \E T \in Diagnosed(task[w], outcome[w]) : Settle(task[w], "failed", 0, T)
    /\ result' = [result EXCEPT ![task[w]] =
                     IF task[w] \in PrepareJobs /\ @ = "none"
                     THEN "abandoned" ELSE @]
    /\ Forget(w, "idle")
    /\ UNCHANGED <<attempts, app, ready>>

\* Mutant of Release: a job cut short by the cancellation counts as done.
ReleaseAsDone(w) ==
    /\ pc[w] = "returned" /\ app = "stopping"
    /\ Settle(task[w], "done", 0, transient \ {task[w]})
    /\ Forget(w, "stopped")
    /\ UNCHANGED <<attempts, result, app, ready>>

\* Cancellation releases the job at once, even when the handler succeeded.
Release(w) ==
    /\ pc[w] = "returned" /\ app = "stopping"
    /\ Settle(task[w], "retry", 0, transient \ {task[w]})
    /\ Forget(w, "stopped")
    /\ UNCHANGED <<attempts, result, app, ready>>

\* Any store call of a worker fails, or its context is cancelled just before:
\* the worker ends with an error, the row keeps what it held, and the error
\* group cancels every other component.
StoreError(w) ==
    /\ pc[w] \in {"idle", "returned"}
    /\ Forget(w, "stopped")
    /\ app' = "stopping"
    /\ UNCHANGED <<rowVars, result, ready>>

\* An idle worker sees the cancellation in wait().
Exit(w) ==
    /\ pc[w] = "idle" /\ app = "stopping"
    /\ Forget(w, "stopped")
    /\ UNCHANGED <<rowVars, result, app, ready>>

-----------------------------------------------------------------------------
(* The application run.                                                    *)

\* The root context is cancelled (user, signal, or a failing component).
Stop ==
    /\ app  = "up"
    /\ app' = "stopping"
    /\ UNCHANGED <<rowVars, result, workerVars, ready>>

\* The supervisor's health becomes "ready" or "external", or ceases to be: the
\* model server starts, exits, is restarted, or its files are missing.
HealthChanges ==
    /\ ready' = ~ready
    /\ UNCHANGED <<rowVars, result, workerVars, app>>

Recovered(j) ==
    status[j] = "failed" /\ j \in ExtractJobs \cap transient

\* The process ends, cleanly or not, whatever its workers were doing, and the
\* next one runs StartAppRun: running jobs become claimable at once, and
\* extraction jobs that failed for a transport reason start over.
Restart ==
    /\ status' = [j \in Jobs |-> IF status[j] = "running" THEN "retry"
                                 ELSE IF Recovered(j) THEN "queued"
                                 ELSE status[j]]
    /\ attempts' = [j \in Jobs |-> IF Recovered(j) THEN 0 ELSE attempts[j]]
    /\ due' = [j \in Jobs |-> IF status[j] = "running" THEN 0 ELSE due[j]]
    /\ owner' = [j \in Jobs |-> IF status[j] = "running" THEN NoWorker
                                ELSE owner[j]]
    /\ lease' = [j \in Jobs |-> IF status[j] = "running" THEN 0 ELSE lease[j]]
    /\ transient' = {j \in transient : status[j] # "running" /\ ~Recovered(j)}
    /\ pc'      = [w \in Workers |-> "idle"]
    /\ task'    = [w \in Workers |-> NoJob]
    /\ tries'   = [w \in Workers |-> 0]
    /\ asked'   = {}
    /\ served'  = {}
    /\ outcome' = [w \in Workers |-> "none"]
    /\ app'     = "up"
    /\ ready'   = FALSE
    /\ UNCHANGED result

WorkerStep(w) ==
    \/ Claim(w)
    \/ Renew(w)
    \/ RenewFailed(w)
    \/ WaitReady(w)
    \/ Serve(w)
    \/ \E o \in Outcomes \ {"none"} : Return(w, o)
    \/ Drained(w)
    \/ Complete(w)
    \/ RetryLater(w)
    \/ Fail(w)
    \/ Release(w)
    \/ StoreError(w)
    \/ Exit(w)

Next ==
    \/ Tick
    \/ \E j \in Jobs : Enqueue(j) \/ RetryFailedJob(j)
    \/ \E w \in Workers : WorkerStep(w)
    \/ Stop
    \/ HealthChanges
    \/ Restart

Spec == Init /\ [][Next]_vars

\* Goroutines are scheduled and store calls come back.  A handler comes back
\* once it is past WaitReady: what follows, the slot of the client included, is
\* bounded by the request timeouts.  WaitReady itself ends only when the model is
\* ready or the run is cancelled, so nothing is assumed of a handler that may be
\* in it while the run goes on.  Nothing is assumed of the environment either:
\* neither the model's health nor enqueueing, manual retries, stops or restarts.
Fairness ==
    /\ WF_vars(Tick)
    /\ \A w \in Workers :
        /\ WF_vars(Claim(w))
        /\ WF_vars(Renew(w) \/ RenewFailed(w))
        /\ WF_vars(WaitReady(w))
        /\ WF_vars(Serve(w))
        /\ WF_vars(/\ Waits(w) => app = "stopping"
                   /\ \E o \in Outcomes \ {"none"} : Return(w, o))
        /\ WF_vars(Drained(w))
        /\ WF_vars(Complete(w) \/ RetryLater(w) \/ Fail(w) \/ Release(w))

FairSpec == Spec /\ Fairness

-----------------------------------------------------------------------------
(* What the queue promises.                                                *)

\* At most one live worker handles a job (docs/configuration.md, `lease`:
\* exclusive job ownership).
ExclusiveHandling ==
    \A v, w \in Workers : v # w /\ Live(v) /\ Live(w) => task[v] # task[w]

\* A job is completed only after its result transaction commits
\* (docs/architecture.md invariant 6).
DoneIsCommitted == \A j \in Jobs : status[j] = "done" => result[j] = "committed"

\* The conspect of a prepare job is never stranded: while it waits for its
\* preparation its job will still run, and once it is failed its job is failed
\* too, so that RetryFailedJob can bring both back (docs/pipeline.md section 4,
\* "manual retry available").
ConspectNotStranded ==
    \A j \in PrepareJobs :
        /\ result[j] = "none" => status[j] \in {"none", "queued", "retry", "running"}
        /\ result[j] = "abandoned" => status[j] = "failed"

\* A conspect that failed with its preparation can be brought back: its job is
\* not done, so RetryFailedJob has or will have something to retry
\* (docs/pipeline.md section 4: at the attempt limit, "manual retry available").
FailedConspectRetryable ==
    \A j \in PrepareJobs : result[j] = "abandoned" => status[j] # "done"

\* The events after which a job may wait again: the end of a run, a store
\* failure, and back-pressure.  RetryFailedJob is not one of them.
Disruption ==
    \/ app # app'
    \/ Restart
    \/ \E w \in Workers : Return(w, "backpressure")

\* What the workers need to make progress, from some time on: the run goes on,
\* and the model is ready.  Without a model (docs/runtime.md: missing files leave
\* the supervisor "unavailable") every worker may end in WaitReady for ever.
Stable == <>[](app = "up" /\ ready)

\* Once the disruptions end with the application running and the model ready, no
\* job stays open for ever: it is done, or failed and left to the user.
JobsSettle ==
    <>[][~Disruption]_vars /\ Stable =>
        \A j \in Jobs : []<>(status[j] \in {"none", "done", "failed"})

\* With the application running and the model ready a waiting job is claimed in
\* the end, however long the other jobs go on being refused, retried or requeued:
\* Claim takes the oldest available_at first, and a job that is put back gets a
\* later one.
NoStarvation ==
    <>[][~Restart]_vars /\ Stable =>
        \A j \in Jobs : status[j] \in Waiting ~> status[j] = "running"

\* What is left of DoneIsCommitted when leases may be lost to a late renewal:
\* an extraction or an export is never skipped.
WorkIsNotSkipped ==
    \A j \in Jobs \ PrepareJobs : status[j] = "done" => result[j] = "committed"

\* A row as the abstract lifecycle sees it.
Phase(j)  == IF status[j] = "none" THEN "absent"
             ELSE IF status[j] \in Terminal THEN status[j] ELSE "open"
Holder(j) == IF status[j] = "running" THEN owner[j] ELSE NoWorker

Lifecycle == INSTANCE JobLifecycle WITH
    phase     <- [j \in Jobs |-> Phase(j)],
    holder    <- [j \in Jobs |-> Holder(j)],
    committed <- [j \in Jobs |-> result[j] = "committed"]

\* Under timely renewals the queue implements the abstract lifecycle.
ImplementsLifecycle == Lifecycle!Spec
=============================================================================

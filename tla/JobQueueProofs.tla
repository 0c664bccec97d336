--------------------------- MODULE JobQueueProofs ---------------------------
(***************************************************************************)
(* Theorems about JobQueue, for any jobs, workers, attempt limit, lease    *)
(* and delays.                                                             *)
(***************************************************************************)
EXTENDS JobQueue, FiniteSetTheorems, TLAPS

\* A live worker holds a job, and the snapshot of a claimed row counts at
\* least one attempt.
LiveTask == \A w \in Workers : Live(w) => task[w] \in Jobs /\ tries[w] >= 1

TypeInv == TypeOK /\ LiveTask

-----------------------------------------------------------------------------
(* Type correctness.                                                       *)

\* Ageing the relative times yields relative times.
LEMMA AgedType ==
    ASSUME NEW f \in [Jobs -> Int]
    PROVE  Aged(f) \in [Jobs -> Int]
<1>1. ASSUME NEW j \in Jobs
      PROVE  Cardinality({k \in Jobs : f[k] < 0 /\ f[k] >= f[j]}) \in Nat
  <2>1. IsFiniteSet({k \in Jobs : f[k] < 0 /\ f[k] >= f[j]})
    BY JobsAssumption, FS_Subset
  <2>2. QED
    BY <2>1, FS_CardinalityType
<1>2. QED
  BY <1>1 DEF Aged

\* The delay before the next attempt is a number of time units.
LEMMA RetryDelayType ==
    ASSUME NEW n \in 1..MaxAttempts, NEW o \in Outcomes
    PROVE  RetryDelay(n, o) \in Int
<1>1. n - 1 \in Nat
  BY LimitsAssumption
<1>2. 2 ^ (n - 1) \in Int
  BY <1>1
<1>3. QED
  BY <1>2, LimitsAssumption DEF RetryDelay

LEMMA InitTypeInv == Init => TypeInv
<1> SUFFICES ASSUME Init PROVE TypeInv
  OBVIOUS
<1>1. RowsOK
  BY LimitsAssumption DEF Init, RowsOK, Statuses, Results
<1>2. WorkersOK
  <2>1. ready \in BOOLEAN /\ app \in {"up", "stopping"}
    BY DEF Init
  <2>2. /\ pc \in [Workers -> Phases] /\ outcome \in [Workers -> Outcomes]
        /\ task \in [Workers -> Jobs \cup {NoJob}]
        /\ asked \subseteq Workers /\ served \subseteq Workers
    BY DEF Init, Phases, Outcomes
  <2>3. tries \in [Workers -> 0..MaxAttempts]
    BY LimitsAssumption DEF Init
  <2>4. QED
    BY <2>1, <2>2, <2>3 DEF WorkersOK
<1>3. LiveTask
  BY DEF Init, LiveTask, Live
<1>4. QED
  BY <1>1, <1>2, <1>3 DEF TypeInv, TypeOK

\* Settling a held job and forgetting it keeps the types.
LEMMA SettleType ==
    ASSUME TypeInv, NEW w \in Workers, Live(w),
           NEW s \in Statuses, NEW d \in Int, NEW T \in SUBSET Jobs,
           NEW phase \in {"idle", "stopped"},
           Settle(task[w], s, d, T), Forget(w, phase),
           attempts' = attempts, result' \in [Jobs -> Results],
           app' = app, ready' = ready
    PROVE  TypeInv'
<1>1. task[w] \in Jobs
  BY DEF TypeInv, LiveTask
<1>2. RowsOK'
  <2>1. /\ status' \in [Jobs -> Statuses]
        /\ owner' \in [Jobs -> Workers \cup {NoWorker}]
    BY <1>1 DEF Settle, TypeInv, TypeOK, RowsOK
  <2>2. due' \in [Jobs -> Int]
    BY <1>1 DEF Settle, TypeInv, TypeOK, RowsOK
  <2>3. lease' \in [Jobs -> 0..Lease]
    BY <1>1, LimitsAssumption DEF Settle, TypeInv, TypeOK, RowsOK
  <2>4. QED
    BY <2>1, <2>2, <2>3 DEF Settle, TypeInv, TypeOK, RowsOK
<1>3. WorkersOK'
  BY LimitsAssumption DEF Forget, TypeInv, TypeOK, WorkersOK, Phases, Outcomes
<1>4. LiveTask'
  BY DEF Forget, TypeInv, TypeOK, WorkersOK, LiveTask, Live
<1>5. QED
  BY <1>2, <1>3, <1>4 DEF TypeInv, TypeOK

\* The steps of a worker keep the types.
LEMMA WorkerTypeInv ==
    ASSUME TypeInv, NEW w \in Workers, WorkerStep(w)
    PROVE  TypeInv'
<1> USE DEF TypeInv, TypeOK
<1>1. CASE Claim(w)
  <2>1. PICK j \in Jobs, n \in 0..MaxAttempts :
           /\ n >= 1
           /\ attempts' = [attempts EXCEPT ![j] = n]
           /\ tries'    = [tries    EXCEPT ![w] = n]
           /\ lease'    = [lease    EXCEPT ![j] = Lease]
           /\ task'     = [task     EXCEPT ![w] = j]
           /\ status' = [k \in Jobs |-> IF k = j THEN "running"
                                        ELSE IF k \in Expired THEN "retry"
                                        ELSE status[k]]
           /\ owner'  = [k \in Jobs |-> IF k = j THEN w
                                        ELSE IF k \in Expired THEN NoWorker
                                        ELSE owner[k]]
    <3>1. PICK j \in Eligible : Claim(w)!3!(j)!1 /\ Claim(w)!3!(j)
      BY <1>1 DEF Claim
    <3>2. j \in Jobs
      BY DEF Eligible
    <3> DEFINE n == IF attempts[j] < MaxAttempts THEN attempts[j] + 1 ELSE MaxAttempts
    <3>3. n \in 0..MaxAttempts /\ n >= 1
      BY <3>2, LimitsAssumption DEF RowsOK
    <3>4. QED
      BY <3>1, <3>2, <3>3
  <2> USE <2>1
  <2>2. RowsOK'
    <3>1. status' \in [Jobs -> Statuses]
      BY DEF RowsOK, Statuses
    <3>2. owner' \in [Jobs -> Workers \cup {NoWorker}]
      BY DEF RowsOK
    <3>3. attempts' \in [Jobs -> 0..MaxAttempts] /\ lease' \in [Jobs -> 0..Lease]
      BY LimitsAssumption DEF RowsOK
    <3>4. QED
      BY <1>1, <3>1, <3>2, <3>3 DEF Claim, RowsOK
  <2>3. WorkersOK'
    BY <1>1 DEF Claim, WorkersOK, Phases, Outcomes
  <2>4. LiveTask'
    BY <1>1 DEF Claim, WorkersOK, LiveTask, Live
  <2>5. QED
    BY <2>2, <2>3, <2>4
<1>2. CASE Renew(w)
  <2>1. lease' \in [Jobs -> 0..Lease]
    <3>1. lease' = [lease EXCEPT ![task[w]] = Lease]
      BY <1>2 DEF Renew
    <3>2. lease \in [Jobs -> 0..Lease] /\ Lease \in 0..Lease
      BY LimitsAssumption DEF RowsOK
    <3>3. QED
      BY <3>1, <3>2
  <2>2. RowsOK'
    BY <1>2, <2>1 DEF Renew, RowsOK
  <2>3. WorkersOK' /\ LiveTask'
    BY <1>2 DEF Renew, workerVars, WorkersOK, LiveTask, Live
  <2>4. QED
    BY <2>2, <2>3
<1>3. CASE RenewFailed(w)
  <2>1. RowsOK' /\ WorkersOK'
    BY <1>3 DEF RenewFailed, rowVars, RowsOK, WorkersOK, Phases
  <2>2. LiveTask'
    BY <1>3 DEF RenewFailed, WorkersOK, LiveTask, Live
  <2>3. QED
    BY <2>1, <2>2
<1>13. CASE WaitReady(w)
  <2>1. RowsOK' /\ WorkersOK'
    BY <1>13 DEF WaitReady, rowVars, RowsOK, WorkersOK
  <2>2. LiveTask'
    BY <1>13 DEF WaitReady, WorkersOK, LiveTask, Live
  <2>3. QED
    BY <2>1, <2>2
<1>4. CASE Serve(w)
  <2>1. RowsOK'
    BY <1>4 DEF Serve, rowVars, RowsOK, Results
  <2>2. WorkersOK' /\ LiveTask'
    BY <1>4 DEF Serve, WorkersOK, LiveTask, Live
  <2>3. QED
    BY <2>1, <2>2
<1>5. ASSUME NEW o \in Outcomes \ {"none"}, Return(w, o)
      PROVE  TypeInv'
  <2>1. RowsOK' /\ WorkersOK'
    BY <1>5 DEF Return, rowVars, RowsOK, WorkersOK, Phases
  <2>2. LiveTask'
    BY <1>5 DEF Return, WorkersOK, LiveTask, Live
  <2>3. QED
    BY <2>1, <2>2
<1>6. CASE Drained(w)
  <2>1. RowsOK' /\ WorkersOK'
    BY <1>6 DEF Drained, rowVars, RowsOK, WorkersOK, Phases, Outcomes
  <2>2. LiveTask'
    BY <1>6 DEF Drained, WorkersOK, LiveTask, Live
  <2>3. QED
    BY <2>1, <2>2
<1>7. CASE Complete(w)
  <2>1. Live(w) /\ "done" \in Statuses /\ transient \ {task[w]} \in SUBSET Jobs
    BY <1>7 DEF Complete, Live, Statuses, RowsOK
  <2>2. /\ Settle(task[w], "done", 0, transient \ {task[w]})
        /\ Forget(w, "idle")
        /\ attempts' = attempts /\ result' \in [Jobs -> Results]
        /\ app' = app /\ ready' = ready
    BY <1>7 DEF Complete, RowsOK
  <2>3. QED
    BY <2>1, <2>2, SettleType
<1>8. CASE RetryLater(w)
  <2>1. Live(w) /\ "retry" \in Statuses
    BY <1>8 DEF RetryLater, Live, Statuses
  <2>2. RetryDelay(tries[w], outcome[w]) \in Int
    <3>1. tries[w] \in 1..MaxAttempts /\ outcome[w] \in Outcomes
      BY <2>1 DEF LiveTask, WorkersOK
    <3>2. QED
      BY <3>1, RetryDelayType
  <2>3. PICK d \in Int, T \in SUBSET Jobs : Settle(task[w], "retry", d, T)
    <3>1. Diagnosed(task[w], outcome[w]) \subseteq SUBSET Jobs
      BY <2>1 DEF Diagnosed, LiveTask, RowsOK
    <3>2. QED
      BY <1>8, <2>2, <3>1, LimitsAssumption DEF RetryLater
  <2>4. QED
    BY <1>8, <2>1, <2>3, SettleType DEF RetryLater, RowsOK
<1>9. CASE Fail(w)
  <2>1. Live(w) /\ "failed" \in Statuses
    BY <1>9 DEF Fail, Live, Statuses
  <2>2. PICK T \in SUBSET Jobs : Settle(task[w], "failed", 0, T)
    <3>1. Diagnosed(task[w], outcome[w]) \subseteq SUBSET Jobs
      BY <2>1 DEF Diagnosed, LiveTask, RowsOK
    <3>2. QED
      BY <1>9, <3>1 DEF Fail
  <2>3. result' \in [Jobs -> Results]
    BY <1>9 DEF Fail, RowsOK, Results
  <2>4. QED
    BY <1>9, <2>1, <2>2, <2>3, SettleType DEF Fail
<1>10. CASE Release(w)
  <2>1. Live(w) /\ "retry" \in Statuses /\ transient \ {task[w]} \in SUBSET Jobs
    BY <1>10 DEF Release, Live, Statuses, RowsOK
  <2>2. /\ Settle(task[w], "retry", 0, transient \ {task[w]})
        /\ Forget(w, "stopped")
        /\ attempts' = attempts /\ result' \in [Jobs -> Results]
        /\ app' = app /\ ready' = ready
    BY <1>10 DEF Release, RowsOK
  <2>3. QED
    BY <2>1, <2>2, SettleType
<1>11. CASE StoreError(w) \/ Exit(w)
  <2>1. RowsOK'
    BY <1>11 DEF StoreError, Exit, rowVars, RowsOK
  <2>2. WorkersOK'
    BY <1>11, LimitsAssumption DEF StoreError, Exit, Forget, WorkersOK, Phases, Outcomes
  <2>3. LiveTask'
    BY <1>11 DEF StoreError, Exit, Forget, WorkersOK, LiveTask, Live
  <2>4. QED
    BY <2>1, <2>2, <2>3
<1>12. QED
  BY <1>1, <1>2, <1>3, <1>4, <1>5, <1>6, <1>7, <1>8, <1>9, <1>10, <1>11, <1>13
     DEF WorkerStep

\* So do the steps of the environment and of the application run.
LEMMA StepTypeInv == TypeInv /\ [Next]_vars => TypeInv'
<1> SUFFICES ASSUME TypeInv, [Next]_vars PROVE TypeInv'
  OBVIOUS
<1> USE DEF TypeInv, TypeOK
<1>1. CASE Tick
  <2>1. due' \in [Jobs -> Int]
    <3> DEFINE f == [j \in Jobs |-> IF status[j] \in Waiting \cup {"running"}
                                    THEN due[j] - 1 ELSE due[j]]
    <3>1. f \in [Jobs -> Int]
      BY DEF RowsOK
    <3>2. due' = Aged(f)
      BY <1>1 DEF Tick
    <3> HIDE DEF f
    <3>3. QED
      BY <3>1, <3>2, AgedType
  <2>2. lease' \in [Jobs -> 0..Lease]
    <3>1. \A j \in Jobs : lease[j] \in 0..Lease
      BY DEF RowsOK
    <3>2. \A j \in Jobs : (IF lease[j] > 0 THEN lease[j] - 1 ELSE 0) \in 0..Lease
      BY <3>1, LimitsAssumption
    <3>3. QED
      BY <1>1, <3>2 DEF Tick
  <2>3. RowsOK'
    BY <1>1, <2>1, <2>2 DEF Tick, RowsOK
  <2>4. WorkersOK' /\ LiveTask'
    BY <1>1 DEF Tick, workerVars, WorkersOK, LiveTask, Live
  <2>5. QED
    BY <2>3, <2>4
<1>2. ASSUME NEW j \in Jobs, Enqueue(j)
      PROVE  TypeInv'
  <2>1. RowsOK'
    BY <1>2 DEF Enqueue, RowsOK, Statuses
  <2>2. WorkersOK' /\ LiveTask'
    BY <1>2 DEF Enqueue, workerVars, WorkersOK, LiveTask, Live
  <2>3. QED
    BY <2>1, <2>2
<1>3. ASSUME NEW j \in Jobs, RetryFailedJob(j)
      PROVE  TypeInv'
  <2>1. status' \in [Jobs -> Statuses] /\ owner' \in [Jobs -> Workers \cup {NoWorker}]
    BY <1>3 DEF RetryFailedJob, RowsOK, Statuses
  <2>2. attempts' \in [Jobs -> 0..MaxAttempts] /\ lease' \in [Jobs -> 0..Lease]
    BY <1>3, LimitsAssumption DEF RetryFailedJob, RowsOK
  <2>3. due' \in [Jobs -> Int]
    BY <1>3 DEF RetryFailedJob, RowsOK
  <2>4. transient' \subseteq Jobs /\ result' \in [Jobs -> Results]
    BY <1>3 DEF RetryFailedJob, RowsOK, Results
  <2>5. RowsOK'
    BY <2>1, <2>2, <2>3, <2>4 DEF RowsOK
  <2>6. WorkersOK' /\ LiveTask'
    BY <1>3 DEF RetryFailedJob, workerVars, WorkersOK, LiveTask, Live
  <2>7. QED
    BY <2>5, <2>6
<1>4. ASSUME NEW w \in Workers, WorkerStep(w)
      PROVE  TypeInv'
  BY <1>4, WorkerTypeInv
<1>5. CASE Stop \/ HealthChanges
  <2>1. RowsOK'
    BY <1>5 DEF Stop, HealthChanges, rowVars, RowsOK
  <2>2. WorkersOK' /\ LiveTask'
    BY <1>5 DEF Stop, HealthChanges, workerVars, WorkersOK, LiveTask, Live
  <2>3. QED
    BY <2>1, <2>2
<1>6. CASE Restart
  <2>1. status' \in [Jobs -> Statuses]
    BY <1>6 DEF Restart, RowsOK, Statuses
  <2>2. owner' \in [Jobs -> Workers \cup {NoWorker}]
    BY <1>6 DEF Restart, RowsOK
  <2>3. attempts' \in [Jobs -> 0..MaxAttempts]
    BY <1>6, LimitsAssumption DEF Restart, RowsOK
  <2>4. lease' \in [Jobs -> 0..Lease]
    BY <1>6, LimitsAssumption DEF Restart, RowsOK
  <2>5. due' \in [Jobs -> Int]
    BY <1>6 DEF Restart, RowsOK
  <2>6. RowsOK'
    BY <1>6, <2>1, <2>2, <2>3, <2>4, <2>5 DEF Restart, RowsOK
  <2>7. WorkersOK'
    <3>1. ready' \in BOOLEAN /\ app' \in {"up", "stopping"}
      BY <1>6 DEF Restart
    <3>2. /\ pc' \in [Workers -> Phases] /\ outcome' \in [Workers -> Outcomes]
          /\ task' \in [Workers -> Jobs \cup {NoJob}]
          /\ asked' \subseteq Workers /\ served' \subseteq Workers
      BY <1>6 DEF Restart, Phases, Outcomes
    <3>3. tries' \in [Workers -> 0..MaxAttempts]
      BY <1>6, LimitsAssumption DEF Restart
    <3>4. QED
      BY <3>1, <3>2, <3>3 DEF WorkersOK
  <2>8. LiveTask'
    BY <1>6 DEF Restart, LiveTask, Live
  <2>9. QED
    BY <2>6, <2>7, <2>8
<1>7. CASE UNCHANGED vars
  <2>1. RowsOK'
    BY <1>7 DEF vars, RowsOK
  <2>2. WorkersOK' /\ LiveTask'
    BY <1>7 DEF vars, WorkersOK, LiveTask, Live
  <2>3. QED
    BY <2>1, <2>2
<1>8. QED
  BY <1>1, <1>2, <1>3, <1>4, <1>5, <1>6, <1>7 DEF Next

\* In every run every row and every worker keeps its type, and a live worker
\* holds a job whatever the leases did: TypeOK with its strengthening.
THEOREM TypeCorrect == Spec => []TypeInv
<1>1. QED
  BY InitTypeInv, StepTypeInv, PTL DEF Spec

\* Every row of the jobs table and every worker keeps its type.
THEOREM RowsAndWorkersTyped == Spec => []TypeOK
<1>1. TypeInv => TypeOK
  BY DEF TypeInv
<1>2. QED
  BY <1>1, TypeCorrect, PTL

-----------------------------------------------------------------------------
(* Whatever the leases do: no work is skipped.                             *)

\* A handler that comes back without an error has served its job.
OkIsServed == \A w \in Workers : outcome[w] = "ok" => w \in served

\* Only a prepare job gives up its subject.
AbandonedIsPrepare ==
    \A j \in Jobs : result[j] = "abandoned" => j \in PrepareJobs

\* What a handler of another kind has served stays committed.
ServedWork ==
    \A w \in Workers :
        Live(w) /\ w \in served /\ task[w] \notin PrepareJobs
            => result[task[w]] = "committed"

WorkInv == OkIsServed /\ AbandonedIsPrepare /\ ServedWork /\ WorkIsNotSkipped

\* Nothing takes a committed result back, except that of a prepare job.
LEMMA ResultStep ==
    ASSUME TypeInv, [Next]_vars
    PROVE  /\ \A j \in Jobs : result'[j] = "abandoned" =>
                  result[j] = "abandoned" \/ j \in PrepareJobs
           /\ \A j \in Jobs : result[j] = "committed" => result'[j] = "committed"
<1> USE DEF TypeInv, TypeOK, RowsOK
<1>1. CASE UNCHANGED result
  BY <1>1
<1>2. ASSUME NEW w \in Workers, Serve(w) \/ Fail(w)
      PROVE  /\ \A j \in Jobs : result'[j] = "abandoned" =>
                    result[j] = "abandoned" \/ j \in PrepareJobs
             /\ \A j \in Jobs : result[j] = "committed" => result'[j] = "committed"
  BY <1>2 DEF Serve, Fail
<1>3. ASSUME NEW j \in Jobs, RetryFailedJob(j)
      PROVE  /\ \A i \in Jobs : result'[i] = "abandoned" =>
                    result[i] = "abandoned" \/ i \in PrepareJobs
             /\ \A i \in Jobs : result[i] = "committed" => result'[i] = "committed"
  BY <1>3 DEF RetryFailedJob
<1>4. QED
  BY <1>1, <1>2, <1>3
     DEF Next, WorkerStep, vars, Tick, Enqueue, Claim, Renew, RenewFailed, WaitReady,
         Return, Drained, Complete, RetryLater, Release, StoreError, Exit, Stop, HealthChanges,
         Restart

LEMMA WorkStep == TypeInv /\ WorkInv /\ [Next]_vars => WorkInv'
<1> SUFFICES ASSUME TypeInv, WorkInv, [Next]_vars PROVE WorkInv'
  OBVIOUS
<1>1. AbandonedIsPrepare'
  BY ResultStep DEF WorkInv, AbandonedIsPrepare
<1>2. OkIsServed'
  <2>1. CASE UNCHANGED <<served, outcome>>
    BY <2>1 DEF WorkInv, OkIsServed
  <2>2. ASSUME NEW w \in Workers,
               Claim(w) \/ Serve(w) \/ Drained(w) \/ (\E phase \in Phases : Forget(w, phase))
        PROVE  OkIsServed'
    BY <2>2 DEF WorkInv, OkIsServed, Claim, Serve, Drained, Forget, TypeInv,
                TypeOK, WorkersOK
  <2>3. ASSUME NEW w \in Workers, NEW o \in Outcomes, Return(w, o)
        PROVE  OkIsServed'
    BY <2>3 DEF WorkInv, OkIsServed, Return, TypeInv, TypeOK, WorkersOK
  <2>4. CASE Restart
    BY <2>4 DEF OkIsServed, Restart
  <2>5. QED
    BY <2>1, <2>2, <2>3, <2>4
       DEF Next, WorkerStep, vars, workerVars, Phases, Tick, Enqueue,
           RetryFailedJob, Renew, RenewFailed, WaitReady, Complete, RetryLater, Fail,
           Release, StoreError, Exit, Stop, HealthChanges
<1>3. ServedWork'
  <2> SUFFICES ASSUME NEW v \in Workers, Live(v)', v \in served',
                      task'[v] \notin PrepareJobs
               PROVE  result'[task'[v]] = "committed"
    BY DEF ServedWork
  <2>1. CASE Live(v) /\ v \in served /\ task'[v] = task[v]
    BY <2>1, ResultStep DEF WorkInv, ServedWork, TypeInv, LiveTask
  <2>2. CASE Serve(v)
    <3>1. task[v] \in Jobs /\ task' = task
      BY <2>2 DEF Serve, TypeInv, LiveTask, Live
    <3>2. result'[task[v]] = IF result[task[v]] = "none" THEN "committed"
                                                        ELSE result[task[v]]
      BY <2>2, <3>1 DEF Serve, TypeInv, TypeOK, RowsOK
    <3>3. result[task[v]] \in {"none", "committed"}
      BY <3>1 DEF WorkInv, AbandonedIsPrepare, TypeInv, TypeOK, RowsOK, Results
    <3>4. QED
      BY <3>1, <3>2, <3>3
  <2>3. CASE ~(Live(v) /\ v \in served /\ task'[v] = task[v]) /\ ~Serve(v)
    <3>1. ~Restart
      BY DEF Restart
    <3>2. ASSUME NEW w \in Workers, WorkerStep(w)
          PROVE  FALSE
      BY <2>3, <3>2 DEF WorkerStep, Claim, Renew, RenewFailed, WaitReady, Serve, Return,
         Drained, Complete, RetryLater, Fail, Release, StoreError, Exit, Forget,
         Live, rowVars, workerVars, TypeInv, TypeOK, WorkersOK
    <3>3. QED
      BY <2>3, <3>1, <3>2 DEF Next, Tick, Enqueue, RetryFailedJob, Stop, HealthChanges, vars,
         workerVars, Live
  <2>4. QED
    BY <2>1, <2>2, <2>3
<1>4. WorkIsNotSkipped'
  <2> SUFFICES ASSUME NEW j \in Jobs \ PrepareJobs, status'[j] = "done"
               PROVE  result'[j] = "committed"
    BY DEF WorkIsNotSkipped
  <2>1. CASE status[j] = "done"
    BY <2>1, ResultStep DEF WorkInv, WorkIsNotSkipped
  <2>2. ASSUME NEW w \in Workers, Complete(w), task[w] = j
        PROVE  result'[j] = "committed"
    BY <2>2, ResultStep DEF WorkInv, OkIsServed, ServedWork, Complete, Live
  <2>3. CASE status[j] # "done" /\ ~(\E w \in Workers : Complete(w) /\ task[w] = j)
    <3>1. ASSUME NEW w \in Workers, WorkerStep(w)
          PROVE  status'[j] # "done"
      BY <2>3, <3>1 DEF WorkerStep, Claim, Renew, RenewFailed, WaitReady, Serve, Return,
         Drained, Complete, RetryLater, Fail, Release, StoreError, Exit, Settle,
         rowVars, TypeInv, TypeOK, RowsOK
    <3>2. QED
      BY <2>3, <3>1 DEF Next, Tick, Enqueue, RetryFailedJob, Stop, HealthChanges, Restart,
         vars, rowVars, TypeInv, TypeOK, RowsOK
  <2>4. QED
    BY <2>1, <2>2, <2>3
<1>5. QED
  BY <1>1, <1>2, <1>3, <1>4 DEF WorkInv

LEMMA InitWork == Init => WorkInv
  BY DEF Init, WorkInv, OkIsServed, AbandonedIsPrepare, ServedWork, Live,
         WorkIsNotSkipped

\* Even when leases run out under live workers and several of them handle and
\* settle the same job, a batch extraction or an export that is done has been
\* committed: setJobState by id alone never skips work of these kinds.
THEOREM NoWorkSkipped == Spec => []WorkIsNotSkipped
<1>1. WorkInv => WorkIsNotSkipped
  BY DEF WorkInv
<1>2. QED
  BY <1>1, InitWork, WorkStep, TypeCorrect, PTL DEF Spec

-----------------------------------------------------------------------------
(* With timely renewals: exclusive handling and the results.               *)

\* A live worker holds an unexpired lease on its job.
Holds ==
    \A w \in Workers : Live(w) => /\ status[task[w]] = "running"
                                  /\ owner[task[w]] = w
                                  /\ lease[task[w]] > 0

\* A handler that has served its job has committed its result.
ServedIsCommitted ==
    \A w \in Workers : Live(w) /\ w \in served => result[task[w]] = "committed"

ResultInv == ServedIsCommitted /\ DoneIsCommitted /\ ConspectNotStranded

LEMMA InitResult == Init => Holds /\ ResultInv
  BY JobsAssumption DEF Init, Holds, Live, ResultInv, ServedIsCommitted,
                        DoneIsCommitted, ConspectNotStranded

LEMMA HoldsStep ==
    TypeInv /\ Holds /\ TimelyRenewal /\ [Next]_vars => Holds'
<1> SUFFICES ASSUME TypeInv, Holds, TimelyRenewal, [Next]_vars,
                    NEW v \in Workers, Live(v)'
             PROVE  /\ status'[task'[v]] = "running"
                    /\ owner'[task'[v]] = v
                    /\ lease'[task'[v]] > 0
  BY DEF Holds
<1> DEFINE Held == /\ status'[task'[v]] = "running"
                   /\ owner'[task'[v]] = v
                   /\ lease'[task'[v]] > 0
<1>1. ASSUME Live(v)
      PROVE  /\ task[v] \in Jobs
             /\ status[task[v]] = "running"
             /\ owner[task[v]] = v
             /\ lease[task[v]] > 0
             /\ lease[task[v]] \in Nat
  BY <1>1, LimitsAssumption DEF Holds, TypeInv, TypeOK, RowsOK, LiveTask
<1>2. CASE Tick
  <2>1. Live(v) /\ task' = task /\ status' = status /\ owner' = owner
    BY <1>2 DEF Tick, Live, workerVars
  <2>2. lease[task[v]] > 1 /\ lease'[task[v]] = lease[task[v]] - 1
    BY <1>1, <1>2, <2>1 DEF Tick
  <2>3. QED
    BY <1>1, <2>1, <2>2
<1>3. ASSUME NEW j \in Jobs, Enqueue(j) \/ RetryFailedJob(j)
      PROVE  Held
  <2>1. Live(v) /\ task' = task
    BY <1>3 DEF Enqueue, RetryFailedJob, Live, workerVars
  <2>2. task[v] # j
    BY <1>1, <1>3, <2>1 DEF Enqueue, RetryFailedJob
  <2>3. QED
    BY <1>1, <1>3, <2>1, <2>2
       DEF Enqueue, RetryFailedJob, TypeInv, TypeOK, RowsOK
<1>4. ASSUME NEW w \in Workers, Claim(w)
      PROVE  Held
  <2>1. PICK j \in Eligible : Claim(w)!3!(j)!1 /\ Claim(w)!3!(j)
    BY <1>4 DEF Claim
  <2>2. j \in Jobs
    BY DEF Eligible
  <2>3. CASE v = w
    <3>1. task'[v] = j
      BY <2>1, <2>3 DEF TypeInv, TypeOK, WorkersOK
    <3>2. status'[j] = "running" /\ owner'[j] = v
      BY <2>1, <2>2, <2>3
    <3>3. lease'[j] = Lease
      BY <2>1, <2>2 DEF TypeInv, TypeOK, RowsOK
    <3>4. QED
      BY <3>1, <3>2, <3>3, LimitsAssumption
  <2>4. CASE v # w
    <3>1. Live(v) /\ task'[v] = task[v]
      BY <1>4, <2>1, <2>4 DEF Claim, Live, TypeInv, TypeOK, WorkersOK
    <3>2. task[v] \notin Expired /\ task[v] # j
      BY <1>1, <3>1, <2>1 DEF Expired, Eligible, Waiting
    <3>3. status'[task[v]] = "running" /\ owner'[task[v]] = v
      BY <1>1, <2>1, <3>1, <3>2
    <3>4. lease'[task[v]] = lease[task[v]]
      BY <1>1, <2>1, <3>1, <3>2 DEF TypeInv, TypeOK, RowsOK
    <3>5. QED
      BY <1>1, <3>1, <3>3, <3>4
  <2>5. QED
    BY <2>3, <2>4
<1>5. ASSUME NEW w \in Workers, Renew(w)
      PROVE  Held
  <2>1. /\ Live(v) /\ task' = task /\ status' = status /\ owner' = owner
        /\ lease' = [lease EXCEPT ![task[w]] = Lease]
    BY <1>5 DEF Renew, Live, workerVars
  <2>2. lease'[task[v]] \in {Lease, lease[task[v]]}
    BY <1>1, <2>1 DEF TypeInv, TypeOK, RowsOK
  <2>3. QED
    BY <1>1, <2>1, <2>2, LimitsAssumption
<1>6. ASSUME NEW w \in Workers, NEW s, NEW d, NEW T, NEW phase \in {"idle", "stopped"},
             Live(w), Settle(task[w], s, d, T), Forget(w, phase)
      PROVE  Held
  <2>1. v # w /\ Live(v) /\ task'[v] = task[v]
    BY <1>6 DEF Forget, Live, TypeInv, TypeOK, WorkersOK
  <2>2. task[v] # task[w]
    BY <1>6, <2>1 DEF Holds
  <2>3. status'[task[v]] = status[task[v]] /\ owner'[task[v]] = owner[task[v]]
    BY <1>1, <1>6, <2>1, <2>2 DEF Settle, TypeInv, TypeOK, RowsOK
  <2>4. lease'[task[v]] = lease[task[v]]
    BY <1>1, <1>6, <2>1, <2>2 DEF Settle, TypeInv, TypeOK, RowsOK
  <2>5. QED
    BY <1>1, <2>1, <2>3, <2>4
<1>7. ASSUME NEW w \in Workers,
             Complete(w) \/ RetryLater(w) \/ Fail(w) \/ Release(w)
      PROVE  Held
  <2>1. Live(w)
    BY <1>7 DEF Complete, RetryLater, Fail, Release, Live
  <2>2. \E s, d, T : Settle(task[w], s, d, T)
    BY <1>7 DEF Complete, RetryLater, Fail, Release
  <2>3. \E phase \in {"idle", "stopped"} : Forget(w, phase)
    BY <1>7 DEF Complete, RetryLater, Fail, Release
  <2>4. QED
    BY <1>6, <2>1, <2>2, <2>3
<1>8. CASE /\ UNCHANGED <<status, owner, lease>>
           /\ Live(v) /\ task'[v] = task[v]
  BY <1>1, <1>8
<1>9. ASSUME NEW w \in Workers, NEW o,
             RenewFailed(w) \/ WaitReady(w) \/ Serve(w) \/ Return(w, o) \/ Drained(w)
             \/ StoreError(w) \/ Exit(w)
      PROVE  UNCHANGED <<status, owner, lease>> /\ Live(v) /\ task'[v] = task[v]
  BY <1>9 DEF RenewFailed, WaitReady, Serve, Return, Drained, StoreError, Exit, Forget,
              Live, rowVars, TypeInv, TypeOK, WorkersOK
<1>10. CASE Stop \/ HealthChanges \/ UNCHANGED vars
  BY <1>8, <1>10 DEF Stop, HealthChanges, vars, rowVars, workerVars, Live
<1>11. ~Restart
  BY DEF Restart, Live
<1>12. QED
  BY <1>2, <1>3, <1>4, <1>5, <1>7, <1>8, <1>9, <1>10, <1>11 DEF Next, WorkerStep

LEMMA ResultInvStep ==
    TypeInv /\ WorkInv /\ Holds /\ ResultInv /\ [Next]_vars => ResultInv'
<1> SUFFICES ASSUME TypeInv, WorkInv, Holds, ResultInv, [Next]_vars
             PROVE  ResultInv'
  OBVIOUS
\* The job of a live worker is not abandoned, because it is running.
<1>1. ASSUME NEW w \in Workers, Live(w)
      PROVE  task[w] \in Jobs /\ result[task[w]] \in {"none", "committed"}
  <2>1. task[w] \in Jobs /\ status[task[w]] = "running"
    BY <1>1 DEF Holds, TypeInv, LiveTask
  <2>2. result[task[w]] # "abandoned"
    BY <2>1 DEF ResultInv, ConspectNotStranded, WorkInv, AbandonedIsPrepare
  <2>3. QED
    BY <2>1, <2>2 DEF TypeInv, TypeOK, RowsOK, Results
<1>2. ServedIsCommitted'
  <2> SUFFICES ASSUME NEW v \in Workers, Live(v)', v \in served'
               PROVE  result'[task'[v]] = "committed"
    BY DEF ServedIsCommitted
  <2>1. CASE Live(v) /\ v \in served /\ task'[v] = task[v]
    BY <1>1, <2>1, ResultStep DEF ResultInv, ServedIsCommitted
  <2>2. CASE Serve(v)
    <3>1. Live(v) /\ task' = task
      BY <2>2 DEF Serve, Live
    <3>2. QED
      BY <1>1, <2>2, <3>1 DEF Serve, TypeInv, TypeOK, RowsOK
  <2>3. CASE ~(Live(v) /\ v \in served /\ task'[v] = task[v]) /\ ~Serve(v)
    <3>1. ~Restart
      BY DEF Restart
    <3>2. ASSUME NEW w \in Workers, WorkerStep(w)
          PROVE  FALSE
      BY <2>3, <3>2 DEF WorkerStep, Claim, Renew, RenewFailed, WaitReady, Serve, Return,
         Drained, Complete, RetryLater, Fail, Release, StoreError, Exit, Forget,
         Live, rowVars, workerVars, TypeInv, TypeOK, WorkersOK
    <3>3. QED
      BY <2>3, <3>1, <3>2 DEF Next, Tick, Enqueue, RetryFailedJob, Stop, HealthChanges, vars,
         workerVars, Live
  <2>4. QED
    BY <2>1, <2>2, <2>3
<1>3. DoneIsCommitted'
  <2> SUFFICES ASSUME NEW j \in Jobs, status'[j] = "done"
               PROVE  result'[j] = "committed"
    BY DEF DoneIsCommitted
  <2>1. CASE status[j] = "done"
    BY <2>1, ResultStep DEF ResultInv, DoneIsCommitted
  <2>2. ASSUME NEW w \in Workers, Complete(w), task[w] = j
        PROVE  result'[j] = "committed"
    BY <2>2, ResultStep DEF WorkInv, OkIsServed, ResultInv, ServedIsCommitted,
                            Complete, Live
  <2>3. CASE status[j] # "done" /\ ~(\E w \in Workers : Complete(w) /\ task[w] = j)
    <3>1. ASSUME NEW w \in Workers, WorkerStep(w)
          PROVE  status'[j] # "done"
      BY <2>3, <3>1 DEF WorkerStep, Claim, Renew, RenewFailed, WaitReady, Serve, Return,
         Drained, Complete, RetryLater, Fail, Release, StoreError, Exit, Settle,
         rowVars, TypeInv, TypeOK, RowsOK
    <3>2. QED
      BY <2>3, <3>1 DEF Next, Tick, Enqueue, RetryFailedJob, Stop, HealthChanges, Restart,
         vars, rowVars, TypeInv, TypeOK, RowsOK
  <2>4. QED
    BY <2>1, <2>2, <2>3
<1>4. ConspectNotStranded'
  <2> DEFINE Open == {"none", "queued", "retry", "running"}
             Kept(j) == /\ result'[j] = "none" => status'[j] \in Open
                        /\ result'[j] = "abandoned" => status'[j] = "failed"
  <2> SUFFICES ASSUME NEW j \in PrepareJobs
               PROVE  Kept(j)
    BY DEF ConspectNotStranded
  <2>1. /\ j \in Jobs
        /\ j \notin ExtractJobs
        /\ result[j] = "none" => status[j] \in Open
        /\ result[j] = "abandoned" => status[j] = "failed"
        /\ result[j] \in Results
    BY JobsAssumption DEF ResultInv, ConspectNotStranded, TypeInv, TypeOK, RowsOK
  <2>2. CASE status'[j] = status[j] /\ result'[j] = result[j]
    BY <2>1, <2>2
  <2>3. CASE result[j] = "committed"
    BY <2>1, <2>3, ResultStep
  <2>4. ASSUME NEW w \in Workers, Claim(w)
        PROVE  Kept(j)
    <3>1. result' = result /\ status'[j] \in {"running", "retry", status[j]}
      BY <2>1, <2>4 DEF Claim
    <3>2. status[j] = "failed" => status'[j] = "failed"
      BY <2>1, <2>4 DEF Claim, Eligible, Expired, Waiting
    <3>3. QED
      BY <2>1, <3>1, <3>2
  <2>5. ASSUME NEW w \in Workers, Complete(w), task[w] = j
        PROVE  Kept(j)
    BY <2>3, <2>5 DEF WorkInv, OkIsServed, ResultInv, ServedIsCommitted,
                      Complete, Live
  <2>6. ASSUME NEW w \in Workers, RetryLater(w) \/ Release(w), task[w] = j
        PROVE  Kept(j)
    <3>1. Live(w) /\ result' = result /\ status'[j] = "retry"
      BY <2>1, <2>6 DEF RetryLater, Release, Settle, Live, TypeInv, TypeOK, RowsOK
    <3>2. QED
      BY <1>1, <2>6, <3>1
  <2>7. ASSUME NEW w \in Workers, Fail(w), task[w] = j
        PROVE  Kept(j)
    <3>1. Live(w) /\ status'[j] = "failed"
      BY <2>1, <2>7 DEF Fail, Settle, Live, TypeInv, TypeOK, RowsOK
    <3>2. result'[j] = IF result[j] = "none" THEN "abandoned" ELSE result[j]
      BY <2>1, <2>7 DEF Fail, TypeInv, TypeOK, RowsOK
    <3>3. QED
      BY <3>1, <3>2
  <2>8. ASSUME NEW w \in Workers, Serve(w), task[w] = j
        PROVE  Kept(j)
    <3>1. Live(w) /\ result'[j] = "committed"
      BY <1>1, <2>8 DEF Serve, Live, TypeInv, TypeOK, RowsOK
    <3>2. QED
      BY <3>1
  <2>9. ASSUME NEW w \in Workers, task[w] # j,
               Serve(w) \/ Complete(w) \/ RetryLater(w) \/ Fail(w) \/ Release(w)
        PROVE  status'[j] = status[j] /\ result'[j] = result[j]
    BY <2>1, <2>9 DEF Serve, Complete, RetryLater, Fail, Release, Settle,
       rowVars, TypeInv, TypeOK, RowsOK
  <2>10. ASSUME NEW i \in Jobs, Enqueue(i) \/ RetryFailedJob(i)
         PROVE  Kept(j)
    BY <2>1, <2>10 DEF Enqueue, RetryFailedJob, TypeInv, TypeOK, RowsOK
  <2>11. CASE Restart
    BY <2>1, <2>11 DEF Restart, Recovered
  <2>12. ASSUME NEW w \in Workers, NEW o,
                Renew(w) \/ RenewFailed(w) \/ WaitReady(w) \/ Return(w, o) \/ Drained(w)
                \/ StoreError(w) \/ Exit(w)
         PROVE  status'[j] = status[j] /\ result'[j] = result[j]
    BY <2>12 DEF Renew, RenewFailed, WaitReady, Return, Drained, StoreError, Exit, rowVars
  <2>13. CASE Tick \/ Stop \/ HealthChanges \/ UNCHANGED vars
    BY <2>2, <2>13 DEF Tick, Stop, HealthChanges, vars, rowVars
  <2>14. QED
    BY <2>2, <2>4, <2>5, <2>6, <2>7, <2>8, <2>9, <2>10, <2>11, <2>12, <2>13
       DEF Next, WorkerStep
<1>5. QED
  BY <1>2, <1>3, <1>4 DEF ResultInv

\* While no live worker is late with a renewal, at most one worker handles a
\* job: the lease is the exclusive ownership that docs/configuration.md says.
THEOREM HandlingIsExclusive == TimelyRenewal => (Spec => []ExclusiveHandling)
<1> SUFFICES ASSUME TimelyRenewal PROVE Spec => []ExclusiveHandling
  OBVIOUS
<1>1. TypeInv /\ Holds /\ [Next]_vars => Holds'
  BY HoldsStep
<1>2. Holds => ExclusiveHandling
  BY DEF Holds, ExclusiveHandling
<1>3. Init => Holds
  BY InitResult
<1>4. QED
  BY <1>1, <1>2, <1>3, TypeCorrect, PTL DEF Spec

LEMMA ResultsHold == TimelyRenewal => (Spec => []ResultInv)
<1> SUFFICES ASSUME TimelyRenewal PROVE Spec => []ResultInv
  OBVIOUS
<1>1. TypeInv /\ Holds /\ [Next]_vars => Holds'
  BY HoldsStep
<1>2. QED
  BY <1>1, InitResult, InitWork, WorkStep, ResultInvStep, TypeCorrect, PTL DEF Spec

\* Under the same condition a job is done only after its result transaction
\* has committed, for every kind of job.
THEOREM DoneAfterCommit == TimelyRenewal => (Spec => []DoneIsCommitted)
<1>1. ResultInv => DoneIsCommitted
  BY DEF ResultInv
<1>2. QED
  BY <1>1, ResultsHold, PTL

\* Under the same condition no conspect is stranded by its preparation: either
\* its job still runs, or both are failed and RetryFailedJob brings both back.
THEOREM NoConspectStranded == TimelyRenewal => (Spec => []ConspectNotStranded)
<1>1. ResultInv => ConspectNotStranded
  BY DEF ResultInv
<1>2. QED
  BY <1>1, ResultsHold, PTL

-----------------------------------------------------------------------------
(* With timely renewals: the queue implements the abstract lifecycle.      *)

\* While the run lasts a running row has its worker: only a worker that ends on
\* a store error leaves a row behind, and that error stops the run.
RunningIsHeld ==
    app = "up" => \A j \in Jobs : status[j] = "running" =>
                     \E w \in Workers : Live(w) /\ task[w] = j

LEMMA RunningIsHeldStep ==
    TypeInv /\ Holds /\ RunningIsHeld /\ [Next]_vars => RunningIsHeld'
<1> SUFFICES ASSUME TypeInv, Holds, RunningIsHeld, [Next]_vars,
                    app' = "up", NEW j \in Jobs, status'[j] = "running"
             PROVE  \E w \in Workers : Live(w)' /\ task'[w] = j
  BY DEF RunningIsHeld
<1>1. ASSUME NEW w \in Workers, Claim(w)
      PROVE  \E v \in Workers : Live(v)' /\ task'[v] = j
  <2>1. PICK i \in Eligible : Claim(w)!3!(i)!1 /\ Claim(w)!3!(i)
    BY <1>1 DEF Claim
  <2>2. CASE i = j
    <3>1. Live(w)' /\ task'[w] = j
      BY <1>1, <2>1, <2>2 DEF Claim, Live, TypeInv, TypeOK, WorkersOK
    <3>2. QED
      BY <3>1
  <2>3. CASE i # j
    <3>1. status[j] = "running" /\ app = "up"
      BY <1>1, <2>1, <2>3 DEF Claim
    <3>2. PICK v \in Workers : Live(v) /\ task[v] = j
      BY <3>1 DEF RunningIsHeld
    <3>3. v # w
      BY <1>1, <3>2 DEF Claim, Live
    <3>4. Live(v)' /\ task'[v] = j
      BY <1>1, <2>1, <3>2, <3>3 DEF Claim, Live, TypeInv, TypeOK, WorkersOK
    <3>5. QED
      BY <3>4
  <2>4. QED
    BY <2>2, <2>3
<1>2. ASSUME NEW w \in Workers,
             Complete(w) \/ RetryLater(w) \/ Fail(w) \/ Release(w)
      PROVE  \E v \in Workers : Live(v)' /\ task'[v] = j
  <2>1. app = "up" /\ Live(w) /\ task[w] \in Jobs
    BY <1>2 DEF Complete, RetryLater, Fail, Release, Live, TypeInv, LiveTask
  <2>2. PICK s \in Statuses \ {"running"} : status' = [status EXCEPT ![task[w]] = s]
    BY <1>2 DEF Complete, RetryLater, Fail, Release, Settle, Statuses
  <2>3. \E phase : Forget(w, phase)
    BY <1>2 DEF Complete, RetryLater, Fail, Release
  <2>4. j # task[w] /\ status[j] = "running"
    BY <2>1, <2>2 DEF TypeInv, TypeOK, RowsOK
  <2>5. PICK v \in Workers : Live(v) /\ task[v] = j
    BY <2>1, <2>4 DEF RunningIsHeld
  <2>6. Live(v)' /\ task'[v] = j
    BY <2>3, <2>4, <2>5 DEF Forget, Live, TypeInv, TypeOK, WorkersOK
  <2>7. QED
    BY <2>6
<1>3. ASSUME NEW w \in Workers, NEW o,
             Renew(w) \/ RenewFailed(w) \/ WaitReady(w) \/ Serve(w) \/ Return(w, o) \/ Drained(w)
      PROVE  \E v \in Workers : Live(v)' /\ task'[v] = j
  <2>1. app = "up" /\ status[j] = "running" /\ task' = task
    BY <1>3 DEF Renew, RenewFailed, WaitReady, Serve, Return, Drained, rowVars, workerVars
  <2>2. PICK v \in Workers : Live(v) /\ task[v] = j
    BY <2>1 DEF RunningIsHeld
  <2>3. Live(v)'
    BY <1>3, <2>2 DEF Renew, RenewFailed, WaitReady, Serve, Return, Drained, rowVars,
       workerVars, Live, TypeInv, TypeOK, WorkersOK
  <2>4. QED
    BY <2>1, <2>2, <2>3
<1>4. ASSUME NEW w \in Workers
      PROVE  ~StoreError(w) /\ ~Exit(w)
  BY DEF StoreError, Exit
<1>5. ~Restart /\ ~Stop
  BY DEF Restart, Stop, TypeInv, TypeOK, RowsOK
<1>6. CASE \/ Tick \/ HealthChanges \/ UNCHANGED vars
         \/ \E i \in Jobs : Enqueue(i) \/ RetryFailedJob(i)
  <2>1. UNCHANGED <<workerVars, app>> /\ status[j] = "running"
    BY <1>6 DEF Tick, HealthChanges, Enqueue, RetryFailedJob, vars, rowVars,
       workerVars, TypeInv, TypeOK, RowsOK
  <2>2. QED
    BY <2>1 DEF RunningIsHeld, workerVars, Live
<1>7. QED
  BY <1>1, <1>2, <1>3, <1>4, <1>5, <1>6 DEF Next, WorkerStep

LEMMA LifecycleInit == Init => Lifecycle!Init
  BY DEF Init, Lifecycle!Init, Phase, Holder

\* A step that changes neither statuses, owners nor results stutters.
LEMMA LifecycleStutter ==
    UNCHANGED <<status, owner, result>> => UNCHANGED Lifecycle!lifecycle
<1> SUFFICES ASSUME UNCHANGED <<status, owner, result>>
             PROVE  UNCHANGED Lifecycle!lifecycle
  OBVIOUS
<1>1. [j \in Jobs |-> Phase(j)]' = [j \in Jobs |-> Phase(j)]
  BY DEF Phase
<1>2. [j \in Jobs |-> Holder(j)]' = [j \in Jobs |-> Holder(j)]
  BY DEF Holder
<1>3. [j \in Jobs |-> result[j] = "committed"]' = [j \in Jobs |-> result[j] = "committed"]
  OBVIOUS
<1>4. QED
  BY <1>1, <1>2, <1>3 DEF Lifecycle!lifecycle

\* The settling call of a live worker lets go of its job: open, failed, or done
\* once its result is committed.
LEMMA LifecycleSettle ==
    ASSUME NEW w \in Workers,
           NEW i \in Jobs, status[i] = "running", owner[i] = w,
           NEW s \in {"retry", "done", "failed"},
           s = "done" => result[i] = "committed",
           \A j \in Jobs : /\ status'[j] = IF j = i THEN s ELSE status[j]
                           /\ owner'[j] = IF j = i THEN NoWorker ELSE owner[j]
                           /\ result'[j] = "committed" <=> result[j] = "committed"
    PROVE  Lifecycle!LetGo(i, w)
<1>1. [j \in Jobs |-> Holder(j)][i] = w
  BY DEF Holder
<1>2. [j \in Jobs |-> Holder(j)]' = [[j \in Jobs |-> Holder(j)] EXCEPT ![i] = NoWorker]
  BY DEF Holder
<1>3. [j \in Jobs |-> result[j] = "committed"]' = [j \in Jobs |-> result[j] = "committed"]
  OBVIOUS
<1>4. CASE s = "retry"
  <2>1. [j \in Jobs |-> Phase(j)]' = [j \in Jobs |-> Phase(j)]
    BY <1>4 DEF Phase, Terminal
  <2>2. QED
    BY <1>1, <1>2, <1>3, <2>1 DEF Lifecycle!LetGo
<1>5. CASE s \in {"done", "failed"}
  <2>1. [j \in Jobs |-> Phase(j)]' = [[j \in Jobs |-> Phase(j)] EXCEPT ![i] = s]
    BY <1>5 DEF Phase, Terminal
  <2>2. s = "done" => [j \in Jobs |-> result[j] = "committed"][i]
    OBVIOUS
  <2>3. QED
    BY <1>1, <1>2, <1>3, <1>5, <2>1, <2>2 DEF Lifecycle!LetGo
<1>6. QED
  BY <1>4, <1>5

LEMMA LifecycleWorker ==
    ASSUME TypeInv, WorkInv, Holds, ResultInv, RunningIsHeld,
           NEW w \in Workers, WorkerStep(w)
    PROVE  [Lifecycle!Next]_Lifecycle!lifecycle
\* No row has expired while a worker may claim, so Claim takes one row.
<1>1. ASSUME Claim(w)
      PROVE  \E j \in Jobs : Lifecycle!Take(j, w)
  <2>1. PICK i \in Eligible : Claim(w)!3!(i)!1 /\ Claim(w)!3!(i)
    BY <1>1 DEF Claim
  <2>2. Expired = {}
    BY <1>1 DEF Claim, RunningIsHeld, Holds, Expired
  <2>3. i \in Jobs /\ status[i] \in Waiting
    BY <2>2 DEF Eligible
  <2>4. ASSUME NEW j \in Jobs
        PROVE  /\ status'[j] = IF j = i THEN "running" ELSE status[j]
               /\ owner'[j] = IF j = i THEN w ELSE owner[j]
    BY <2>1, <2>2
  <2>5. [j \in Jobs |-> Phase(j)][i] = "open" /\ [j \in Jobs |-> Holder(j)][i] = NoWorker
    BY <2>3 DEF Phase, Holder, Waiting, Terminal
  <2>6. [j \in Jobs |-> Holder(j)]' = [[j \in Jobs |-> Holder(j)] EXCEPT ![i] = w]
    BY <2>3, <2>4 DEF Holder
  <2>7. [j \in Jobs |-> Phase(j)]' = [j \in Jobs |-> Phase(j)]
    BY <2>3, <2>4 DEF Phase, Waiting, Terminal
  <2>8. [j \in Jobs |-> result[j] = "committed"]' = [j \in Jobs |-> result[j] = "committed"]
    BY <1>1 DEF Claim
  <2>9. QED
    BY <2>3, <2>5, <2>6, <2>7, <2>8 DEF Lifecycle!Take
<1>2. ASSUME Serve(w)
      PROVE  Lifecycle!Commit(task[w], w) /\ task[w] \in Jobs
  <2> DEFINE i == task[w]
  <2>1. i \in Jobs /\ status[i] = "running" /\ owner[i] = w
    BY <1>2 DEF Serve, Live, Holds, TypeInv, LiveTask
  <2>2. result[i] \in {"none", "committed"}
    BY <2>1 DEF ResultInv, ConspectNotStranded, WorkInv, AbandonedIsPrepare,
                TypeInv, TypeOK, RowsOK, Results
  <2>3. ASSUME NEW j \in Jobs
        PROVE  result'[j] = IF j = i THEN "committed" ELSE result[j]
    BY <1>2, <2>1, <2>2 DEF Serve, TypeInv, TypeOK, RowsOK
  <2>4. [j \in Jobs |-> Holder(j)][i] = w
    BY <2>1 DEF Holder
  <2>5. [j \in Jobs |-> result[j] = "committed"]'
           = [[j \in Jobs |-> result[j] = "committed"] EXCEPT ![i] = TRUE]
    BY <2>1, <2>3
  <2>6. /\ [j \in Jobs |-> Holder(j)]' = [j \in Jobs |-> Holder(j)]
        /\ [j \in Jobs |-> Phase(j)]' = [j \in Jobs |-> Phase(j)]
    BY <1>2 DEF Serve, rowVars, Holder, Phase
  <2>7. QED
    BY <2>1, <2>4, <2>5, <2>6 DEF Lifecycle!Commit
<1>3. ASSUME Complete(w) \/ RetryLater(w) \/ Fail(w) \/ Release(w)
      PROVE  Lifecycle!LetGo(task[w], w) /\ task[w] \in Jobs
  <2>1. Live(w) /\ task[w] \in Jobs
    BY <1>3 DEF Complete, RetryLater, Fail, Release, Live, TypeInv, LiveTask
  <2>2. ASSUME Complete(w)
        PROVE  result[task[w]] = "committed"
    BY <2>1, <2>2 DEF Complete, WorkInv, OkIsServed, ResultInv, ServedIsCommitted
  <2>3. PICK s \in {"retry", "done", "failed"} :
           /\ s = "done" => result[task[w]] = "committed"
           /\ status' = [status EXCEPT ![task[w]] = s]
           /\ owner'  = [owner  EXCEPT ![task[w]] = NoWorker]
    BY <1>3, <2>2 DEF Complete, RetryLater, Fail, Release, Settle
  <2>4. \A j \in Jobs : result'[j] = "committed" <=> result[j] = "committed"
    <3>1. CASE Fail(w)
      BY <2>1, <3>1 DEF Fail, TypeInv, TypeOK, RowsOK
    <3>2. CASE ~Fail(w)
      BY <1>3, <3>2 DEF Complete, RetryLater, Release
    <3>3. QED
      BY <3>1, <3>2
  <2>5. status[task[w]] = "running" /\ owner[task[w]] = w
    BY <2>1 DEF Holds
  <2>6. \A j \in Jobs : /\ status'[j] = IF j = task[w] THEN s ELSE status[j]
                        /\ owner'[j] = IF j = task[w] THEN NoWorker ELSE owner[j]
    BY <2>1, <2>3 DEF TypeInv, TypeOK, RowsOK
  <2>7. QED
    BY <2>1, <2>3, <2>4, <2>5, <2>6, LifecycleSettle
<1>4. ASSUME NEW o, Renew(w) \/ RenewFailed(w) \/ WaitReady(w) \/ Return(w, o) \/ Drained(w)
                    \/ StoreError(w) \/ Exit(w)
      PROVE  UNCHANGED Lifecycle!lifecycle
  BY <1>4, LifecycleStutter
     DEF Renew, RenewFailed, WaitReady, Return, Drained, StoreError, Exit, rowVars
<1>5. QED
  BY <1>1, <1>2, <1>3, <1>4 DEF WorkerStep, Lifecycle!Next

LEMMA LifecycleStep ==
    TypeInv /\ WorkInv /\ Holds /\ ResultInv /\ RunningIsHeld /\ [Next]_vars
        => [Lifecycle!Next]_Lifecycle!lifecycle
<1> SUFFICES ASSUME TypeInv, WorkInv, Holds, ResultInv, RunningIsHeld, [Next]_vars
             PROVE  [Lifecycle!Next]_Lifecycle!lifecycle
  OBVIOUS
<1>1. ASSUME NEW i \in Jobs, Enqueue(i) \/ RetryFailedJob(i)
      PROVE  Lifecycle!Submit(i) \/ Lifecycle!Reopen(i)
  <2>1. \A j \in Jobs : status'[j] = IF j = i THEN "queued" ELSE status[j]
    BY <1>1 DEF Enqueue, RetryFailedJob, TypeInv, TypeOK, RowsOK
  <2>2. status[i] \in {"none", "failed"}
    BY <1>1 DEF Enqueue, RetryFailedJob
  <2>3. \A j \in Jobs : /\ j # i => owner'[j] = owner[j]
                        /\ result'[j] = "committed" <=> result[j] = "committed"
    BY <1>1 DEF Enqueue, RetryFailedJob, TypeInv, TypeOK, RowsOK
  <2>4. [j \in Jobs |-> Phase(j)]' = [[j \in Jobs |-> Phase(j)] EXCEPT ![i] = "open"]
    BY <2>1 DEF Phase, Terminal
  <2>5. [j \in Jobs |-> Holder(j)]' = [j \in Jobs |-> Holder(j)]
    BY <2>1, <2>2, <2>3 DEF Holder
  <2>6. [j \in Jobs |-> result[j] = "committed"]' = [j \in Jobs |-> result[j] = "committed"]
    BY <2>3
  <2>7. [j \in Jobs |-> Phase(j)][i] \in {"absent", "failed"}
    BY <2>2 DEF Phase, Terminal
  <2>8. QED
    BY <2>4, <2>5, <2>6, <2>7 DEF Lifecycle!Submit, Lifecycle!Reopen
<1>2. ASSUME Restart
      PROVE  Lifecycle!NewRun
  <2> DEFINE R == {j \in Jobs : Recovered(j)}
  <2>1. \A j \in Jobs : status'[j] = IF status[j] = "running" THEN "retry"
                                     ELSE IF j \in R THEN "queued" ELSE status[j]
    BY <1>2 DEF Restart
  <2>2. R \in SUBSET {j \in Jobs : [i \in Jobs |-> Phase(i)][j] = "failed"}
    BY DEF Recovered, Phase, Terminal
  <2>3. [j \in Jobs |-> Holder(j)]' = [j \in Jobs |-> NoWorker]
    BY <2>1 DEF Holder
  <2>4. [j \in Jobs |-> Phase(j)]'
           = [j \in Jobs |-> IF j \in R THEN "open" ELSE [i \in Jobs |-> Phase(i)][j]]
    BY <2>1 DEF Phase, Terminal, Recovered
  <2>5. [j \in Jobs |-> result[j] = "committed"]' = [j \in Jobs |-> result[j] = "committed"]
    BY <1>2 DEF Restart
  <2> HIDE DEF R
  <2>6. QED
    BY <2>2, <2>3, <2>4, <2>5 DEF Lifecycle!NewRun
<1>3. ASSUME Tick \/ Stop \/ HealthChanges \/ UNCHANGED vars
      PROVE  UNCHANGED Lifecycle!lifecycle
  BY <1>3, LifecycleStutter DEF Tick, Stop, HealthChanges, vars, rowVars
<1>4. QED
  BY <1>1, <1>2, <1>3, LifecycleWorker DEF Next, Lifecycle!Next

\* While no live worker is late with a renewal, the queue with its leases,
\* attempts, delays, crashes and recovery implements the abstract lifecycle:
\* a job has one holder, only the holder commits, settles or lets go of it, and
\* a job is done only with its result committed.
THEOREM QueueImplementsLifecycle == TimelyRenewal => (Spec => ImplementsLifecycle)
<1> SUFFICES ASSUME TimelyRenewal PROVE Spec => ImplementsLifecycle
  OBVIOUS
<1>1. TypeInv /\ Holds /\ [Next]_vars => Holds'
  BY HoldsStep
<1>2. Init => RunningIsHeld
  BY DEF Init, RunningIsHeld
<1>3. QED
  BY <1>1, <1>2, InitResult, InitWork, WorkStep, ResultInvStep, ResultsHold,
     RunningIsHeldStep, LifecycleInit, LifecycleStep, TypeCorrect, PTL
     DEF Spec, ImplementsLifecycle, Lifecycle!Spec
=============================================================================

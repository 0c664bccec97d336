\* Safety, refinement and liveness with timely renewals.
SPECIFICATION FairSpec
CONSTANTS
    extract1 = extract1
    prepare1 = prepare1
    w1 = w1
    w2 = w2
    NoWorker = NoWorker
    NoJob = NoJob
    Jobs <- MCJobs
    PrepareJobs <- MCPrepareJobs
    ExtractJobs <- MCExtractJobs
    Workers <- MCWorkers
    MaxAttempts = 2
    Lease = 2
    PauseDelay = 1
    MaxDelay = 1
    TimelyRenewal = TRUE
INVARIANTS
    ExclusiveHandling
    DoneIsCommitted
    ConspectNotStranded
PROPERTIES
    ImplementsLifecycle
    JobsSettle
    NoStarvation

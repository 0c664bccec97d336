\* A worker that lost its lease strands a conspect.
SPECIFICATION Spec
CONSTANTS
    extract1 = extract1
    prepare1 = prepare1
    w1 = w1
    w2 = w2
    NoWorker = NoWorker
    NoJob = NoJob
    Jobs <- MCJobs
    PrepareJobs <- MCPrepareJobs
    ExtractJobs <- MCExtractJobs
    Workers <- MCWorkers
    MaxAttempts = 2
    Lease = 1
    PauseDelay = 1
    MaxDelay = 1
    TimelyRenewal = FALSE
SYMMETRY WorkerSymmetry
INVARIANTS
    FailedConspectRetryable

\* Partition of the text, one job per batch, context, refinement, liveness.
SPECIFICATION FairSpec
CONSTANTS
    mic = mic
    manual = manual
    c1 = c1
    c2 = c2
    c3 = c3
    Sessions <- MCSessions
    ManualSessions <- MCManualSessions
    Chunks <- MCChunks
    SuffixLength <- MCSuffixLength
    SentenceEnds <- MCSentenceEnds
    MaxDuration = 3
    IdleTimeout = 2
    TailLimit = 2
INVARIANTS
    FocusPartitionsChunks
    OnlyNewestCollects
    OneJobPerClosedBatch
    ContextContinuesPrevious
PROPERTIES
    ClosedIsFrozen
    CollectingEnds
    ImplementsIntake

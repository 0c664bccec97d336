\* Capture goroutines and API calls: safety and liveness.
SPECIFICATION FairSourcesSpec
CONSTANTS
    mic1 = mic1
    a1 = a1
    a2 = a2
    r1 = r1
    r2 = r2
    c1 = c1
    Nobody = Nobody
    Sessions <- OneSession
    ManualSessions <- Nothing
    Chunks <- OneChunk
    SuffixLength <- UnitSuffix
    SentenceEnds <- Nothing
    MaxDuration = 1
    IdleTimeout = 1
    TailLimit = 1
    Callers <- TwoCallers
    Runners <- TwoRunners
    StoreMayFail = TRUE
INVARIANTS
    ActiveIsTheCapture
PROPERTIES
    StopIsAnswered
    ShutdownDrains
    CapturedTextIsHandedOver

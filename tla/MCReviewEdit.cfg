\* One conspect decided, split and rematched: items, dependencies, liveness.
SPECIFICATION FairSpec
CONSTANTS
    k1 = k1
    a1 = a1
    a2 = a2
    h1 = h1
    p1 = p1
    p2 = p2
    titleA = titleA
    titleB = titleB
    titleH = titleH
    Conspects <- MCConspects
    Candidates <- MCCandidates
    Terms <- MCTerms
    CandidatesOf <- MCCandidatesOf
    TitleOf <- MCTitleOf
    Relates <- MCRelates
    Titles <- MCTitles
    EditTitles <- MCEditTitles
    Similar <- MCSimilar
    InitialGraph <- MCInitialGraph
    Preparers <- MCPreparers
    MaxErrors = 1
    MaxRestarts = 0
INVARIANTS
    EachCandidateOnce
    DependenciesHold
PROPERTIES
    PreparationKeepsDecisions
    PreparationEnds
CHECK_DEADLOCK FALSE

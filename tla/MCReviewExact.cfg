\* Two conspects create the same title.
SPECIFICATION Spec
CONSTANTS
    k1 = k1
    k2 = k2
    a1 = a1
    a2 = a2
    p1 = p1
    p2 = p2
    titleA = titleA
    titleX = titleX
    Conspects <- MCConspects
    Candidates <- MCCandidates
    Terms <- MCCandidates
    CandidatesOf <- MCCandidatesOf
    TitleOf <- MCTitleOf
    Relates = {}
    Titles <- MCTitles
    EditTitles = {}
    Similar = {}
    InitialGraph <- MCInitialGraph
    Preparers <- MCPreparers
    MaxErrors = 0
    MaxRestarts = 0
INVARIANTS
    ExactMatchIsNotCreated
CHECK_DEADLOCK FALSE

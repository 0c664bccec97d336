\* A preparation that is done again after a restart, with three similar terms.
SPECIFICATION Spec
CONSTANTS
    k1 = k1
    a1 = a1
    a2 = a2
    h1 = h1
    p1 = p1
    p2 = p2
    titleA = titleA
    titleB = titleB
    titleH = titleH
    Conspects <- MCConspects
    Candidates <- MCCandidates
    Terms <- MCCandidates
    CandidatesOf <- MCCandidatesOf
    TitleOf <- MCTitleOf
    Relates = {}
    Titles <- MCTitles
    EditTitles = {}
    Similar <- MCAllSimilar
    InitialGraph <- MCEmptyGraph
    Preparers <- MCPreparers
    MaxErrors = 0
    MaxRestarts = 1
INVARIANTS
    EachCandidateOnce
CHECK_DEADLOCK FALSE

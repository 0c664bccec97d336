\* The review window: its drafts, moves and application, while others write too.
SPECIFICATION WindowSpec
CONSTANTS
    c1 = c1
    c2 = c2
    term = term
    thought = thought
    other = other
    Conspects <- MCConspects
    Items     <- MCItems
    ItemsOf   <- MCItemsOf
    Terms     = {term, other}
    Extracted <- MCExtracted
    Matched   = {other}
    Tagged    = {term}
    Typed     = {"edited"}
    MaxEdits  = 2
    MaxFaults = 1
INVARIANTS
    WindowTypeOK
    SavedWasWritten
    UnsavedIsPursued
    IndicatorIsTrue
    AppliedIsGone
    MoveIsPursued
PROPERTIES
    MoveWaitsForItsEditor

\* A move that waits for the save of an editor that a failed poll has replaced.
SPECIFICATION WindowSpec
CONSTANTS
    c1 = c1
    c2 = c2
    term = term
    thought = thought
    other = other
    Conspects <- MCConspects
    Items     <- MCItems
    ItemsOf   <- MCItemsOf
    Terms     = {term, other}
    Extracted <- MCExtracted
    Matched   = {other}
    Tagged    = {term}
    Typed     = {"edited"}
    MaxEdits  = 2
    MaxFaults = 1
PROPERTIES
    NavigationWaits

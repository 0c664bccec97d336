\* The session, cards, window and settings of the clients, with their faults.
SPECIFICATION ClientsSpec
CONSTANTS
    card1 = card1
    card2 = card2
    Cards <- MCCards
    MaxCardEdits = 2
    MaxInFlight  = 2
    MaxEvents    = 3
    MaxFaults    = 2
    MaxConnects  = 3
    MaxFailures  = 2
    thought1 = thought1
    thought2 = thought2
    topic    = topic
    GraphTerms <- MCGraphTerms
    Thoughts   <- MCThoughts
    Topics     <- MCTopics
    MaxLinks   = 4
INVARIANTS
    ClientsTypeOK
    DraftsAreShown
    NativeMatchesStored
    WidgetFits
    EdgesAreShared
PROPERTIES
    EventsInOrder
    StreamRecovers
    WindowCatchesUp
CHECK_DEADLOCK FALSE

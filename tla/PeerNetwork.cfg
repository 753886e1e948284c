\* Three nodes in a line whose ends may be connected, one call.
CONSTANTS
    A = a
    B = b
    C = c
    Inbox = inbox
    Nodes <- MCNodes
    InboxThreads <- OneThread
    Main = main
    Calls = {c1}
    Commands <- KnownToAll
    Known <- Line
    Links <- Ends
    Welcoming = {c}
    Vote <- VoteForA
    MaxOverlap = 1
    Ids <- MCIds
    NULL = NULL
SPECIFICATION FairSpec
INVARIANTS TypeOK
PROPERTIES ImplementsNetwork BroadcastsEnd OneWayIsEnough
CHECK_DEADLOCK FALSE

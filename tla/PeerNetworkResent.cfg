\* Does a node receive a broadcast again when the ends of the line are connected?
CONSTANTS
    A = a
    B = b
    C = c
    Inbox = inbox
    Nodes <- MCNodes
    InboxThreads <- OneThread
    Main = main
    Calls = {c1}
    Commands <- KnownToAll
    Known <- Line
    Links <- Ends
    Welcoming = {c}
    Vote <- VoteForA
    MaxOverlap = 1
    Ids <- MCIds
    NULL = NULL
SPECIFICATION Spec
INVARIANT NeverResent
CHECK_DEADLOCK FALSE

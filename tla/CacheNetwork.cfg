\* One server, three clients, one call besides the four announcements.
CONSTANTS
    Server = s
    ClientA = a
    ClientB = b
    ClientC = c
    Nodes <- MCNodes
    InboxThreads <- TwoAtTheServer
    First = t1
    Second = t2
    Main = main
    Calls = {c1}
    Commands <- AllButTheThird
    MaxOverlap = 2
    Known <- known_peers
    Vote <- cast_leadership_vote
    Welcoming <- adds_joining_node
    Links = {}
    Ids <- MCIds
    NULL = NULL
SPECIFICATION FairSpec
ACTION_CONSTRAINT InOrder
INVARIANTS PacedNetworkIsReliable
PROPERTIES EventuallyReached EventuallyKnown
CHECK_DEADLOCK FALSE

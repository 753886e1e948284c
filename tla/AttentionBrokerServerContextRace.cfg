\* Can two calls end up with two networks for one context?
CONSTANTS
    First = r1
    Second = r2
    Requests <- MCRequests
    ThreadsCount = 3
    NULL = NULL
    Contexts = {global, other}
    GLOBAL_CONTEXT = global
    NoContext = NoContext
    Absent = Absent
    Main = main
SPECIFICATION Spec
ACTION_CONSTRAINT Bounds
INVARIANT OneNetworkPerContext
CHECK_DEADLOCK FALSE

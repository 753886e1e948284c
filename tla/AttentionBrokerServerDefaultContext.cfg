\* Is there a network for the calls that name no context?
CONSTANTS
    First = r1
    Second = r2
    Requests <- MCRequests
    ThreadsCount = 3
    NULL = NULL
    Contexts = {global, other}
    GLOBAL_CONTEXT = global
    NoContext = NoContext
    Absent = Absent
    Main = main
SPECIFICATION Spec
ACTION_CONSTRAINT Bounds
INVARIANT DefaultContextExists
CHECK_DEADLOCK FALSE

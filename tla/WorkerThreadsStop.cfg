\* Is every request accepted before graceful_stop processed when it returns?
CONSTANTS
    Requests = {r1, r2}
    ThreadsCount = 2
    NULL = NULL
SPECIFICATION ThreadsSpec
INVARIANT ProcessesAcceptedBeforeReturn
CHECK_DEADLOCK FALSE

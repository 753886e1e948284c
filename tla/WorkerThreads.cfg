\* Two workers share the stimulus queue, so that they race for a request and one
\* of them may sleep while the other works; one serves the correlation queue.
CONSTANTS
    Requests = {r1, r2, r3}
    ThreadsCount = 3
    NULL = NULL
SPECIFICATION FairThreadsSpec
INVARIANTS ThreadsTypeOK ExactlyOnce NeverStranded DrainedOnReturn
PROPERTIES EventuallyProcessed StopReturns
CHECK_DEADLOCK FALSE

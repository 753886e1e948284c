\* Two calls at a time, without end, around a signal that any thread may receive, or
\* for two contexts and the empty name; two workers for stimuli, one for correlations.
CONSTANTS
    First = r1
    Second = r2
    Requests <- MCRequests
    ThreadsCount = 3
    NULL = NULL
    Contexts = {global, other}
    GLOBAL_CONTEXT = global
    NoContext = NoContext
    Absent = Absent
    Main = main
SPECIFICATION FairSpec
ACTION_CONSTRAINT Bounds
INVARIANTS TypeOK ContextsIsolated UnracedContextHasOneNetwork OnlyTheDefaultIsIgnored AnsweredOKBeforeStop EndsDrained 
PROPERTIES SigintEnds
CHECK_DEADLOCK FALSE

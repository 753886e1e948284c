\* Two callers race on a ring that starts with two cells and is enlarged twice
\* (to four and to eight cells), with every offset of start, wrapped or not.
CONSTANTS
    Callers = {t1, t2}
    Requests = {r1, r2}
    NULL = NULL
    Garbage = Garbage
    InitialSize = 2
    MaxCount = 5
SPECIFICATION Spec
INVARIANT RingInvariant
PROPERTY ImplementsFIFO

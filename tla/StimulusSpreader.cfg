\* Up to three correlations by two updaters, or stimuli by two spreaders, before,
\* between or during correlations; the rates are those of AttentionBrokerServer.cc.
CONSTANTS
    HandleCount = 3
    Updaters = {w1, w2}
    Lists <- SomeLists
    MaxRequests = 3
    NULL = NULL
    Spreaders = {s1, s2}
    Stimuli <- SomeUnchecked
    Malformed = {bad}
    MaxStimuli = 2
    TOKENS = 100000
    RENT_PERCENT = 10
    LOWERBOUND_PERCENT = 1
    UPPERBOUND_PERCENT = 10
    NaN = NaN
    Tolerance = 100
SPECIFICATION MCSpreaderSpec
INVARIANTS TypeOK ExactCounts WeightBounded ArityNeverOvercounts ExactWhenSequential SpreaderTypeOK ConservedWhenAlone NeverCreated ImportanceNotNegative 
SYMMETRY SpreaderSymmetry
CHECK_DEADLOCK FALSE

\* Do two stimuli that overlap keep the total amount of tokens?
CONSTANTS
    HandleCount = 3
    Updaters = {w1}
    Lists <- PathLists
    MaxRequests = 1
    NULL = NULL
    Spreaders = {s1, s2}
    Stimuli <- StimulusRequests
    Malformed = {bad}
    MaxStimuli = 2
    TOKENS = 100000
    RENT_PERCENT = 10
    LOWERBOUND_PERCENT = 1
    UPPERBOUND_PERCENT = 10
    NaN = NaN
    Tolerance = 100
SPECIFICATION SpreaderSpec
INVARIANT TokensRemainFixed
CHECK_DEADLOCK FALSE

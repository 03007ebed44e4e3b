SPECIFICATION Spec
CONSTANTS
    NumTerminals = 2
    NumPids = 4
    EarlyExecute = FALSE
    Counts <- MCCounts
INVARIANT NoStackOverrun

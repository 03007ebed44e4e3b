SPECIFICATION Spec
CONSTANTS
    NumTerminals = 2
    NumPids = 5
    EarlyExecute = TRUE
    Counts <- MCCounts
CONSTRAINT Untorn
INVARIANTS
    SuspendedResumable
    ParentsResumable
    UserRunsAsItself
    PoolCount
PROPERTIES
    RefusalJustified
    ImplementsChains

SPECIFICATION FairSpec
CONSTANTS
    NumTerminals = 2
    NumPids = 3
    EarlyExecute = TRUE
    Counts <- MCDriftCounts
INVARIANTS
    RootsKeepSlots
PROPERTIES
    KernelCallsEnd

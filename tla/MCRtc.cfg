SPECIFICATION FairSpec
CONSTANTS
    NumTerminals = 2
    PhysicalRate = 8
    Requests <- MCRequests
INVARIANTS
    NoEarlyReturn
    CountIsOwed
PROPERTY ReadReturns

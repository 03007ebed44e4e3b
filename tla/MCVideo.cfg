SPECIFICATION Spec
CONSTANTS
    NumTerminals = 3
    MaxDepth = 2
    Marks <- MCMarks
INVARIANTS
    OwnPage
    ScreensSeparate
    VidmapKept
CONSTRAINT
    MCUntilSpoilt

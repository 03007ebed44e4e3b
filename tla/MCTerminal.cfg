SPECIFICATION FairSpec
CONSTANTS
    NumTerminals = 2
    BufferSize = 3
    EllKey = "l"
    Letters <- MCLetters
    Code <- MCCode
    Modifiers = {"alt", "ctrl"}
    Backspaces = TRUE
    Readers = {1}
    ReadSizes = {2, 4}
    MaxOverflow = 1
INVARIANTS
    TypeOK
    BufferIsLine
    ReadStaysInBuffer
PROPERTIES
    ReadReturnsLine
    LineStandsStill
    EnterWakesReader

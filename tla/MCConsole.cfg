SPECIFICATION Spec
CONSTANTS
    NumTerminals = 2
    Cols = 2
    Rows = 2
    Chars = {a}
INVARIANTS
    WritesNearGrid
    ScreenShowsText
    CursorShown

SPECIFICATION PartSpec
CONSTANTS
    NumTerminals = 3
    LoaderUnmasked = {0, 1}
    MaxNesting = 3
CHECK_DEADLOCK FALSE
INVARIANTS
    InServiceHasHandler
    InterruptsReturn
PROPERTIES
    ServedWhenReady
    RequestsServed
    InterruptTransparent

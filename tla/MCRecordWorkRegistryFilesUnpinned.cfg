SPECIFICATION Spec
CONSTANTS
    Callers = {"p1", "p2", "p3"}
    TokenOf <- MCTokenOf
    Contents = {"x", "y"}
    PinnedClock = FALSE
    MaxRevision = 3
    MaxClock = 3
    MaxFaults = 1
PROPERTIES
    InterruptedCreationCompletes
CHECK_DEADLOCK FALSE

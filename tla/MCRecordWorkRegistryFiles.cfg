SPECIFICATION Spec
CONSTANTS
    Callers = {"p1", "p2", "p3"}
    TokenOf <- MCTokenOf
    Contents = {"x", "y"}
    PinnedClock = TRUE
    MaxRevision = 3
    MaxClock = 3
    MaxFaults = 3
INVARIANTS
    TypeOK
PROPERTIES
    ImplementsStore
    InterruptedCreationCompletes
CHECK_DEADLOCK FALSE

SPECIFICATION Spec
CONSTANTS
    f1 = f1
    f2 = f2
    r1 = r1
    r2 = r2
    Foreground = {f1, f2}
    Record = {r1, r2}
    Candidates = {r2}
    Slots = 2
    InitStrays = 0
    MaxCancels = 1
    MaxFailures = 1
    MaxOpens = 1
    MaxWaiters = 1
    MayRecover = TRUE
    MayClose = TRUE
INVARIANTS
    TypeOK
    LeaseIsHeld
    CancelledGetsNoPermit
    RecordTurnComes
    LaneInOrder
    ClosedIsQuiet
PROPERTIES
    QueuedIsServed
    CloseTerminates
CHECK_DEADLOCK FALSE

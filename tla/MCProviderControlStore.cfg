SPECIFICATION Spec
CONSTANTS
    o1 = o1
    o2 = o2
    a1 = a1
    a2 = a2
    Owners = {o1, o2}
    Attempts = {a1, a2}
    PhysicalMax = 2
    InitialLimit = 2
    OwnerLeaseMs = 2
    RenewalMs = 1
    CallLeaseMs = 2
    GraceMs = 1
    MaxOpenMs = 1
    FailureBudgets <- OneBudget
    Outcomes = {"success", "congestion", "availability", "cancelled", "unknown-outcome"}
    RetryAfters = {1}
    MaxBack = 1
    MaxBacks = 1
    MaxCrashes = 1
SYMMETRY Symmetry
INVARIANTS
    TypeOK
    PermitHoldsSlot
PROPERTIES
    ClockFreezeStays

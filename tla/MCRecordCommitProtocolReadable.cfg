SPECIFICATION Spec
CONSTANTS
    Me = "t1"
    Others = {}
    InitialClaims = {"none"}
    MayCancel = TRUE
    MayLoseFence = FALSE
    MaxJoins = 0
    MaxCrashes = 0
INVARIANTS
    LedgerStaysReadable
CHECK_DEADLOCK FALSE

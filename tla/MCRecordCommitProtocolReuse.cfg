SPECIFICATION Spec
CONSTANTS
    Me = "t1"
    Others = {}
    InitialClaims = {"same"}
    MayCancel = FALSE
    MayLoseFence = FALSE
    MaxJoins = 0
    MaxCrashes = 1
PROPERTIES
    CommitVerifies
CHECK_DEADLOCK FALSE

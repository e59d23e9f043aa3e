SPECIFICATION Spec
CONSTANTS
    Me = "t1"
    Others = {}
    InitialClaims = {"none"}
    MayCancel = FALSE
    MayLoseFence = FALSE
    MaxJoins = 0
    MaxCrashes = 4
PROPERTIES
    CommitVerifies
CHECK_DEADLOCK FALSE

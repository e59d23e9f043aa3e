SPECIFICATION Spec
CONSTANTS
    Me = "t1"
    Others = {"t2"}
    InitialClaims = {"none", "same", "other"}
    MayCancel = TRUE
    MayLoseFence = TRUE
    MaxJoins = 1
    MaxCrashes = 1
INVARIANTS
    TypeOK
    CancelledIsUndone
    VerifiedIsVisible
PROPERTIES
    NoPublicationAfterCancel
    ForeignArtifactsKept
CHECK_DEADLOCK FALSE

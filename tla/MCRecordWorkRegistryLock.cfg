SPECIFICATION Spec
CONSTANTS
    p1 = p1
    p2 = p2
    Procs = {p1, p2}
    Files = {"f1", "f2", "f3", "f4", "f5", "f6", "f7", "f8", "f9", "fa", "fb"}
    LeaseMs = 2
    GraceMs = 1
    BarrierLeaseMs = 2
    MayStopAt = {"barrier", "hold", "inspect"}
    MaxFaults = 1
INVARIANTS
    TypeOK
    ExclusiveWrites
PROPERTIES
    DeadLockGivesWay

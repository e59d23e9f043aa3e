SPECIFICATION Spec
CONSTANTS
    r1 = r1
    r2 = r2
    t1 = t1
    t2 = t2
    c1 = c1
    c2 = c2
    c3 = c3
    Revisions = {r1, r2}
    Tasks = {t1, t2}
    o1 = o1
    o2 = o2
    Owners = {o1, o2}
    Commits = {c1, c2, c3}
    WorkOf <- MCWorkOf
    TaskOf <- MCTaskOf
    SchedulerEpochs = {1, 2}
    LeaseMs = 2
    MaxRevision = 7
    MaxClock = 2
INVARIANTS
    TypeOK
    PersistedRegistryValid
    TokenNamesOneLease
    OnePublisherPerEpoch
    FencingInv
    PublicationInv
PROPERTIES
    RevisionGuardsDocument
    FencedForever
    HonouredWorkIsStable
    VisibleNeverRegresses
SYMMETRY OwnersAlike
CHECK_DEADLOCK FALSE

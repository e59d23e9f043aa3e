SPECIFICATION Spec

CONSTANTS
  Units = {u1, u2}
  RetryBudget = 1
  Capacity = 1
  MaxCrashes = 1
  MaxFailures = 2

SYMMETRY UnitSymmetry

INVARIANTS
  TypeOK
  CalledOnce
  OutcomeIsHonest
  InFlightIsUndisturbed
  LeaseIsAccountedFor
  RepairNeedsFault

CHECK_DEADLOCK FALSE

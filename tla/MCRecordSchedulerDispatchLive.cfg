SPECIFICATION FairSpec

CONSTANTS
  Units = {u1, u2}
  RetryBudget = 1
  Capacity = 1
  MaxCrashes = 1
  MaxFailures = 0

PROPERTIES
  UnitsEnd

CHECK_DEADLOCK FALSE

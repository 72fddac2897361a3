SPECIFICATION Spec
CONSTANTS
  Runs = {1, 2}
  EndDay = 2
  ChargeBefore = 2
  MaxTries = 2
  MaxCrashes = 1
INVARIANTS
  RenewalSafe
PROPERTIES
  NeverChargedForPaidDays
  ClaimIsResumed
CHECK_DEADLOCK FALSE

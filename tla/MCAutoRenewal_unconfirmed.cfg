SPECIFICATION Spec
CONSTANTS
  Runs = {1}
  EndDay = 2
  ChargeBefore = 2
  MaxTries = 2
  MaxCrashes = 1
PROPERTIES
  UnconfirmedForADay
CHECK_DEADLOCK FALSE

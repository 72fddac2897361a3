SPECIFICATION MCSpec
CONSTANTS
  r1 = r1
  r2 = r2
  bus = bus
  Noon = 4
  Riders = {r1, r2}
  Offered = {r1}
  Days = {1, 2}
  LastTime = 5
  CoverEnds = {4, 6}
  Granted = 1
  Vehicles = {bus}
  Sizes = {1, 2}
  MinPause = 2
  MaxPause = 2
  MaxEdits = 2
INVARIANTS
  SeatsSafe
PROPERTIES
  OnlyEditsOverbook
  AnswersAndChargesStand
  EveryDaySettles
CHECK_DEADLOCK FALSE

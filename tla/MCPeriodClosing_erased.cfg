SPECIFICATION ClosingSpec
CONSTANTS
  first = first
  second = second
  third = third
  last = last
  Riders = {first, second, third, last}
  EndsAt <- Ending
  Id <- Ids
  Closers = {1, 2}
  Limit = 3
  Malformed = {first}
  Disputed = {second}
  Erasable = {second}
  Horizon = 2
PROPERTIES
  EndedPeriodsClose
CHECK_DEADLOCK FALSE

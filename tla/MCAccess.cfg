SPECIFICATION AccessSpec
CONSTANTS
  Numbers = {n1, n2}
  Accounts = {u1, u2, u3}
  Joined = {u1}
  MaxTries = 2
  MaxCodes = 2
  Owners = {u1, u2}
  PhoneOwners = {u2}
  Addresses = {e1, e2}
  Browsers = {b1, b2}
  MaxVersion = 3
  MaxOpened = 1
  People = {p0, p1}
  Founder = p0
  MaxOperators = 2
  MaxInvitations = 2
  MaxMailings = 2
  MaxSignIns = 2
  Admins = {o1, o2}
  CallKeys = {i1, i2}
  Paid = 2
  MaxRefunds = 2
  first = first
  second = second
  third = third
  last = last
  Riders = {first, second, third, last}
  EndsAt <- Ending
  Id <- Ids
  Closers = {1, 2}
  Limit = 3
  Malformed = {first}
  Disputed = {second}
  Erasable = {last}
  Horizon = 2
INVARIANTS
  OperatorsSafe
  RefundsSafe
  ClosingSafe
PROPERTIES
  PhonesSafe
  EmailSafe
  EndedPeriodsClose
CHECK_DEADLOCK FALSE

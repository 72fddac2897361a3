SPECIFICATION MCSpec
CONSTANTS
  Phones = {p1}
  LastHour = 1
  MaxSessions = 2
  MaxRotations = 2
  MaxOrders = 1
  DeviceTtl = 2
  ShiftTtl = 1
  TemporaryTtl = 1
  LockTime = 1
  MaxFailures = 1
  Users = {u1, u2}
  Names = {1, 2}
  MaxRevision = 4
  Keys = {k1, k2}
  Requests = {q1, q2}
  MaxApplications = 2
  LastDay = 2
  MaxOffer = 1
  Riders = {r1, r2}
  Slots = {s1}
  Length = 1
  LastDate = 1
  Drains = {d1, d2}
  PinLife = 3
  Ceiling = 1
  Window = 2
  MaxTries = 2
  LastTick = 3
  MaxVersion = 2
  MaxMessages = 1
  Replicas = {a1, a2}
  Seats = {1, 2, 3}
  Late = {3}
  Stuck = {1}
  BatchLimit = 2
  MaxPasses = 2
  LastPart = 3
  MaxStarts = 2
  Capacity = 2
  MaxAge = 1
  MaxFixes = 2
  LastMoment = 2
INVARIANTS
  ErasureSafe
  StandbySafe
  CommuteSafe
  SchedulerSafe
PROPERTIES
  SessionsSafe
  DeliverySafe
  PositionsSafe
VIEW MCView
CHECK_DEADLOCK FALSE

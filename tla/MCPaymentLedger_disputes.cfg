SPECIFICATION Spec
CONSTANTS
  a = a
  b = b
  c = c
  t1 = t1
  t2 = t2
  t3 = t3
  r1 = r1
  r2 = r2
  r3 = r3
  d1 = d1
  d2 = d2
  NoTx = NoTx
  NoPurchase = NoPurchase
  MinCharge = 2
  Transactions = {t1, t2, t3}
  Purchases = {a}
  Terms <- OnePackage
  Events <- DisputeEvents
  Refunds = {r1, r2}
  Disputes = {d1, d2}
  PauseLengths = {}
  OpsDecides <- DisputeDecisions
  LastDay = 3
INVARIANTS
  DisputeHoldsCoverage
  PaidBackIsReleased
PROPERTIES
  ReplaysChangeNothing
CHECK_DEADLOCK FALSE

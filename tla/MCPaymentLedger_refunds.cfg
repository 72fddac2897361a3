SPECIFICATION Spec
CONSTANTS
  a = a
  b = b
  c = c
  t1 = t1
  t2 = t2
  t3 = t3
  r1 = r1
  r2 = r2
  r3 = r3
  d1 = d1
  d2 = d2
  NoTx = NoTx
  NoPurchase = NoPurchase
  MinCharge = 2
  Transactions = {t1, t2, t3}
  Purchases = {a, b}
  Terms <- TwoOffers
  Events <- RefundEvents
  Refunds = {r1, r2, r3}
  Disputes = {}
  PauseLengths = {}
  OpsDecides <- NoDecisions
  LastDay = 3
INVARIANTS
  CreditCovered
  CreditAddsUp
  RefundEndsCoverage
PROPERTIES
  PromiseKept
CHECK_DEADLOCK FALSE

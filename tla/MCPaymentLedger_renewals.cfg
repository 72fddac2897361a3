SPECIFICATION Spec
CONSTANTS
  a = a
  b = b
  c = c
  t1 = t1
  t2 = t2
  t3 = t3
  r1 = r1
  r2 = r2
  r3 = r3
  d1 = d1
  d2 = d2
  NoTx = NoTx
  NoPurchase = NoPurchase
  MinCharge = 2
  Transactions = {t1, t2, t3}
  Purchases = {a, b, c}
  Terms <- Renewals
  Events <- RenewalEvents
  Refunds = {}
  Disputes = {}
  PauseLengths = {2}
  OpsDecides <- NoDecisions
  LastDay = 5
INVARIANTS
  NoDaySoldTwice
  SettlementNeverStuck
PROPERTIES
  ClosesServed
CHECK_DEADLOCK FALSE

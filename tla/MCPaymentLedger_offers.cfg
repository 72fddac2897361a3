SPECIFICATION Spec
CONSTANTS
  a = a
  b = b
  c = c
  t1 = t1
  t2 = t2
  t3 = t3
  r1 = r1
  r2 = r2
  r3 = r3
  d1 = d1
  d2 = d2
  NoTx = NoTx
  NoPurchase = NoPurchase
  MinCharge = 2
  Transactions = {t1, t2, t3}
  Purchases = {a, b}
  Terms <- TwoOffers
  Events <- OfferEvents
  Refunds = {}
  Disputes = {}
  PauseLengths = {1}
  OpsDecides <- NoDecisions
  LastDay = 4
INVARIANTS
  TypeOK
  SingleUnresolved
  HoldFollowsPurchase
  CoverageIsPaid
  CollectedIsAccounted
  RidesConserved
PROPERTIES
  NoRejectedUpdate
CHECK_DEADLOCK FALSE

SPECIFICATION InboxSpec
CONSTANTS
  a = a
  t1 = t1
  t2 = t2
  r1 = r1
  w1 = w1
  NoTx = NoTx
  NoPurchase = NoPurchase
  MinCharge = 2
  Transactions = {t1, t2}
  Purchases = {a}
  Terms <- OneRide
  Events <- Rows
  Answers <- AnswerRows
  Refunds = {r1}
  Disputes = {}
  PauseLengths = {}
  OpsDecides <- NoDecisions
  LastDay = 1
  Workers = {w1}
  MaxAttempts = 2
  MaxFaults = 1
INVARIANTS
  InboxSafe
PROPERTIES
  OutcomesStand
  PaidIsFound
CHECK_DEADLOCK FALSE

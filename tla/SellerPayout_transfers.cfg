SPECIFICATION PayoutsAlone
CONSTANTS
  Clients = {c1}
  Worker = w
  PaymentRefs = {p1}
  ManualRefs = {}
  Stamps = {t1}
  Calls = {k1, k2, k3}
  TransferRefs = {x1, x2, x3}
  Accounts = {a1, a2}
  MaxAttempts = 1
SYMMETRY Symmetric
INVARIANTS
  RecordsTellTheTruth
  PaidOutOnce
CHECK_DEADLOCK FALSE

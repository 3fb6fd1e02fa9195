SPECIFICATION SteadySpec
CONSTANTS
  Clients = {c1}
  Worker = w
  PaymentRefs = {p1}
  ManualRefs = {}
  Stamps = {t1, t2}
  MaxAttempts = 3
INVARIANTS
  ReleasedOnce
CHECK_DEADLOCK FALSE

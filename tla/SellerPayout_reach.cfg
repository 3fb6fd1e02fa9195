SPECIFICATION SteadySellerSpec
CONSTANTS
  Clients = {c1}
  Worker = w
  PaymentRefs = {p1}
  ManualRefs = {}
  Stamps = {t1}
  Calls = {k1, k2}
  TransferRefs = {x1}
  Accounts = {a1}
  MaxAttempts = 1
PROPERTIES
  ReleaseReachesSeller
CHECK_DEADLOCK FALSE

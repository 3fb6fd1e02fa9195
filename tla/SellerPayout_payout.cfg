SPECIFICATION SellerSpec
CONSTANTS
  Clients = {c1}
  Worker = w
  PaymentRefs = {p1}
  ManualRefs = {}
  Stamps = {t1, t2}
  Calls = {k1}
  TransferRefs = {x1}
  Accounts = {a1}
  MaxAttempts = 1
SYMMETRY Symmetric
INVARIANTS
  PayoutTypeOK
  TransferHasACause
  NotPaidAndRefunded
CHECK_DEADLOCK FALSE

SPECIFICATION RaceSpec
CONSTANTS
  Clients = {c1, c2}
  Worker = w
  PaymentRefs = {p1}
  ManualRefs = {m1}
  Stamps = {t1, t2}
  MaxAttempts = 1
SYMMETRY Symmetric
INVARIANTS
  HoldingIsBacked
  SettlementHasACause
  HeldAndReleasedOnce
  FundsMoveOnce
  ColumnsAgree
PROPERTIES
  DisputeDecidedOnce
  NoReleaseUnderDispute
  KeepsCustody
CHECK_DEADLOCK FALSE

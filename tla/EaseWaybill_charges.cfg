SPECIFICATION FairSpec
CONSTANTS
  Clients = {c1}
  Worker = w
  PaymentRefs = {p1, p2}
  ManualRefs = {m1}
  Stamps = {t1}
  MaxAttempts = 3
INVARIANTS
  TypeOK
  PayoutsAreBacked
  HoldsAreFullyPaid
PROPERTIES
  StatusFollowsTable AutoReleaseSettles
CHECK_DEADLOCK FALSE

SPECIFICATION AccountsSpec
CONSTANTS
  Users = {ann, bob}
  Requests = {r1, r2}
  MaxLinks = 1
INVARIANTS AdminRemains LinkUsedOnce
PROPERTY SuspensionBites
CHECK_DEADLOCK FALSE

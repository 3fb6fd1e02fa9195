SPECIFICATION SessionSpec
CONSTANTS
  Me = me
  Users = {me}
  Requests = {c1, c2}
  Tabs = {tab1, tab2}
  MaxLinks = 0
SYMMETRY Symmetric
INVARIANTS LogoutHolds NoRefreshStorm
PROPERTY KeptSignedIn
CHECK_DEADLOCK FALSE

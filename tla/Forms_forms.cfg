SPECIFICATION FormsSpec
CONSTANTS
  Addresses = {"a1", "a2"}
  Fields = {"pickup"}
  Accounts = {"b1", "b2"}
  NoTimer = "none"
  MaxPosts = 2
  MaxSaves = 2
INVARIANTS
  OrderAsShown
  NoSecondOrder
  AccountAsShown
CHECK_DEADLOCK FALSE

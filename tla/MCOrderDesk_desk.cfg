SPECIFICATION DeskSpec
CONSTANTS
  People = {sue, bob, rex, ada}
  Admins = {ada}
  Riders = {rex}
  NoOne = NoOne
  Sellers = {sue}
  Addressees = {bob}
  Calls = {c1, c2}
  Viewers = {bob}
  MaxOddities = 1
INVARIANTS OfferedIsAccepted NobodyStuck StaleClickRefused OwnChangeShown PagesTellOneStory ListsAgree
PROPERTY PaymentIsShown
CHECK_DEADLOCK FALSE

SPECIFICATION NoticesSpec
CONSTANTS
  MaxTries = 2
  MaxListeners = 1
  MaxMails = 2
INVARIANTS
  ToldWhatHappened
PROPERTIES
  DeliveryIsTold
CHECK_DEADLOCK FALSE

SPECIFICATION InboxSpec
CONSTANTS
  PageLimit = 2
  ThreadLimit = 2
  MaxRows = 2
  MaxMessages = 2
  MaxCalls = 2
INVARIANTS
  NothingInvented
PROPERTIES
  ReadStaysRead
  HeardWhileListening
CHECK_DEADLOCK FALSE

SPECIFICATION AnsweringSpec
CONSTANTS
  CancelDuring <- AnyWaiter
  Events <- AnyEvent
INVARIANTS
  TypeOK
  SessionInv
  ActionHasWaiter
  TlsServerInTime
  ScanWaiterOwned
PROPERTIES
  BringUpEnds

SPECIFICATION Spec
CONSTANTS
  Masked = TRUE
  TxCount = 3
  FifoSize = 2
  MaxMsgs = 5
INVARIANTS
  TypeOK
  WireInOrder
  LostIsCounted
  InterruptsRestored
PROPERTIES
  PendingUntouched
  NotStuck

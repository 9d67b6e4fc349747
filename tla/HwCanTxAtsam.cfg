SPECIFICATION Spec
CONSTANTS
  Masked = FALSE
  TxCount = 3
  FifoSize = 2
  MaxMsgs = 3
INVARIANTS
  LostIsCounted

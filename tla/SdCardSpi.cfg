\* All windows are scaled down with the block; the gaps reach beyond the shorter ones.
SPECIFICATION Spec
CONSTANTS
  NBlocks = 3
  BlockBytes = 8
  Requests <- MCRequests
  CmdWindow = 8
  AnswerWindow = 5
  AppWindow = 3
  PollWindow = 6
  CrcWindow = 4
  NextWindow = 8
  StopWindow = 8
  MaxTry = 2
  MaxUnacked = 2
  MaxGap = 4
INVARIANTS TypeOK UsedWhenReady
PROPERTIES ImplementsCard LeavesListening SentWhenAwaited TransferEnds

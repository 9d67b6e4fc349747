\* Two files on a sound volume whose storage may fail.  The system stops, with its
\* transactions pending, when the boot sector could not be read.
SPECIFICATION Spec
CONSTANTS
  f1 = f1
  f2 = f2
  File = {f1, f2}
  FullRoot = FALSE
  SectorUnits = 2
  ClusterUnits = 4
  DataStart = 4
  clustercount = 9
  Fat <- MCFat
  Chain <- MCChain
  Entry <- MCEntry
  Begins <- Prefixes
  TooLong = {"long"}
  Paths <- MCPaths
  Lengths = {2, 5}
  Positions = {0, 9}
  FailPoints = {0}
  FdataSize = 4
  BootOk = TRUE
INVARIANTS TypeOK PositionKept DirListsInOrder EofIsEnd
PROPERTIES ReadReturnsFile OpenResolves TransactionsEnd
CHECK_DEADLOCK FALSE

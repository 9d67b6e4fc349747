\* Seeks to any position of a file, the first of a cluster included.
SPECIFICATION Spec
CONSTANTS
  f1 = f1
  f2 = f2
  File = {f1}
  FullRoot = FALSE
  SectorUnits = 2
  ClusterUnits = 4
  DataStart = 4
  clustercount = 9
  Fat <- MCFat
  Chain <- MCChain
  Entry <- MCEntry
  Begins <- Prefixes
  TooLong = {"long"}
  Paths <- MCPaths
  Lengths = {1, 5}
  Positions = {0, 4, 9}
  FailPoints = {0}
  FdataSize = 2
  BootOk = TRUE
INVARIANT ChunkInFile
CHECK_DEADLOCK FALSE

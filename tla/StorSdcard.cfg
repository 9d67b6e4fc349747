SPECIFICATION Spec
CONSTANTS
  Tra = {t1, t2}
  NULL = NULL
  SectorSize = 2
  NumSectors = 2
  MaxLen = 4
  Val = {0, 1, 2, 3}
  Requests <- MCRequests
  InitialDisk <- MCInitialDisk
  FailPoints = {1}
SYMMETRY Symmetry
INVARIANTS
  TypeOK
  ChainIsQueue
  CompletedWhenServed
  BufferCoherent
PROPERTIES
  ImplementsDevice

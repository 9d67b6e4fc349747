\* hweth_imxrt: two transmit packets, one receive buffer and two items of the
\* address table.
SPECIFICATION Spec
CONSTANTS
  Ip = {"host", "gateway"}
  Mac = {"m1", "m2", "m3"}
  MaxItems = 2
  Pool = 2
  MaxRx = 1
  MaxTries = 2
  Dest = {"near", "far"}
  Hop <- MCHop
  Socket = {"s"}
  Heard <- MCHeard
  Marks = TRUE
  Burst = 1
  Links = {TRUE}
INVARIANTS TypeOK OnePlace MacOwnsChain QueuedIsKept TableIsMru
PROPERTIES GoesToLatest GivenUpLate JobsEnd

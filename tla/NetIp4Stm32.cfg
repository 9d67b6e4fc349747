\* hweth_stm32: two receive buffers.
SPECIFICATION Spec
CONSTANTS
  Ip = {"host", "gateway"}
  Mac = {"m1", "m2", "m3"}
  MaxItems = 2
  Pool = 1
  MaxRx = 2
  MaxTries = 1
  Dest = {"near", "far"}
  Hop <- MCHop
  Socket = {"s"}
  Heard <- MCHeard
  Marks = FALSE
  Burst = 2
  Links = {TRUE, FALSE}
INVARIANT QueuedIsKept

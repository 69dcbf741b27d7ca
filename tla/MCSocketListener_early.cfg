\* A shutdown() while the server comes up.
\* All may stop: a process that threw, and no more sockets.
SPECIFICATION FairSpec
CONSTANTS
  Callers = {c1, c2}
  Nobody = Nobody
  NumThreads = 2
  MaxSockets = 2
  EarlyShutdown = TRUE
  SecondStart = FALSE
CHECK_DEADLOCK FALSE
INVARIANT
  ShutdownStops

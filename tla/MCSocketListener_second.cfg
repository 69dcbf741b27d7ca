\* A start() while the server is up.
\* All may stop: a process that threw, and no more sockets.
SPECIFICATION FairSpec
CONSTANTS
  Callers = {c1, c2}
  Nobody = Nobody
  NumThreads = 2
  MaxSockets = 2
  EarlyShutdown = FALSE
  SecondStart = TRUE
CHECK_DEADLOCK FALSE
PROPERTY
  ShutdownReturns

\* One client, as in C2SSocketListener::run and C2STaskQueue: every call returns,
\* unless a failure of pthread_create has lost what it waits for.
SPECIFICATION FairSpec
CONSTANTS
  Callers = {c1}
  Runners = {r1, r2, r3}
  Threads = {t1, t2, t3}
  Nobody = Nobody
  MaxRefusals = 1
  QueueWhenAllBusy = FALSE
CHECK_DEADLOCK FALSE
PROPERTIES
  StartReturns
  JoinReturns

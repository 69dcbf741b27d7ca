\* One client that also queues a runner while all others are busy.
SPECIFICATION FairSpec
CONSTANTS
  Callers = {c1}
  Runners = {r1, r2}
  Threads = {t1, t2}
  Nobody = Nobody
  MaxRefusals = 0
  QueueWhenAllBusy = TRUE
CHECK_DEADLOCK FALSE
PROPERTY
  StartReturns

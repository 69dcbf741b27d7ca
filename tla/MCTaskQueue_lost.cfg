\* One client, as in the test: a task queued while the dispatcher stops.
SPECIFICATION FairSpec
CONSTANTS
  Clients = {c1}
  Dispatcher = Dispatcher
  Workers = {w1, w2}
  Tasks = {k1, k2}
  Nobody = Nobody
  MaxRefusals = 0
CHECK_DEADLOCK FALSE
PROPERTY
  EveryTaskRuns

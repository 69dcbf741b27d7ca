\* Two clients, two workers, three tasks.
\* A queue() and a join() of two clients can block each other for ever.
SPECIFICATION FairSpec
CONSTANTS
  Clients = {c1, c2}
  Dispatcher = Dispatcher
  Workers = {w1, w2}
  Tasks = {k1, k2, k3}
  Nobody = Nobody
  MaxRefusals = 1
CHECK_DEADLOCK FALSE
INVARIANTS
  TypeOK
  DetachFindsTask
  TaskInOnePlace
  OneDispatcher
  JoinWaitsForTasks
PROPERTIES
  SeenTasksRun
  CallsReturn

\* Two clients, three runners, one failure of pthread_create.
\* A failed start loses its runner, and join() and start() may then wait for ever.
SPECIFICATION Spec
CONSTANTS
  Callers = {c1, c2}
  Runners = {r1, r2, r3}
  Threads = {t1, t2, t3}
  Nobody = Nobody
  MaxRefusals = 1
  QueueWhenAllBusy = FALSE
SYMMETRY Symmetry
CHECK_DEADLOCK FALSE
INVARIANTS
  TypeOK
  SingleThreadPerRunner
  RunnerInOnePlace
  UnlocksLocked
  StartFindsRunner
  JoinSeesAllIdle
  IdleRunnerAvailable
  NoDeadlock
  NoUseAfterDelete
PROPERTY
  ImplementsWorkerPool

\* Two callers that start the server when it is down and shut it down when it is up,
\* and a program that then deletes it.
\* All may stop: a process that threw, no more sockets, a server that is deleted.
SPECIFICATION FairServerSpec
CONSTANTS
  Callers = {c1, c2}
  Nobody = Nobody
  NumThreads = 2
  MaxSockets = 2
  EarlyShutdown = FALSE
  SecondStart = FALSE
  Resources <- MCResources
  ContextRoot <- MCContextRoot
  MethodsOf <- MCMethodsOf
  PartsOf <- MCPartsOf
  LogLevel = "Info"
  HasBody <- MCHasBody
  ServerThreads = {c2}
CHECK_DEADLOCK FALSE
INVARIANTS
  ServerTypeOK
  NoUseAfterDelete
  NothingLeaks
  CleanShutdown
  StartMeansListening
  ShutdownStops
PROPERTIES
  StartReturns
  ShutdownReturns

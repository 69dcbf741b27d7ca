--------------------------- MODULE SocketListener ---------------------------
(***************************************************************************)
(* The life of a server: C2SRuntime::start(), run() and shutdown(), the    *)
(* C2SSocketListener they drive, the C2SSocketListenerThread that start()  *)
(* runs it on, and the C2SSocketAcceptHandlers that accept and serve the   *)
(* connections.  The handlers are the runnables of a C2SThreadQueue of     *)
(* which the listener's thread is the only caller: a WorkerPool.           *)
(*                                                                         *)
(* An exception that leaves a handler ends the process, since nothing      *)
(* catches it: "threw" says so, and no step follows.                       *)
(*                                                                         *)
(* What a remote client does is not ours to choose: when a connection      *)
(* arrives and when its request ends are steps without fairness.           *)
(***************************************************************************)
EXTENDS Integers, Sequences

CONSTANTS Callers,        \* the threads that use the C2SRuntime
          Nobody,         \* holder of a free lock
          NumThreads,     \* iNumThreads
          MaxSockets,     \* bound: how many sockets connect() may create
          EarlyShutdown,  \* TRUE iff shutdown() may be called while the server comes up
          SecondStart     \* TRUE iff start() may be called while the server is up

ASSUME SocketListenerAssumption ==
  /\ NumThreads \in Nat \ {0}
  /\ MaxSockets \in Nat
  /\ EarlyShutdown \in BOOLEAN /\ SecondStart \in BOOLEAN
  /\ Nobody \notin 1..NumThreads

Handlers == 1..NumThreads
Listener == "listener"

VARIABLES
  idle, running, call,    \* the C2SThreadQueue of the handlers, as in WorkerPool
  m_bIsRunning,           \* of C2SSocketListenerThread
  m_bKeepRunning, m_bIsListening,
  earlier,                \* how many handlers of earlier run()s the list begins with
  m_acceptHandlers,       \* how many this run() has put behind them: 1..m_acceptHandlers
  m_bInterrupted,         \* of each handler
  m_acceptMutex,          \* the handler that holds it, or Nobody
  m_socketInfo,           \* the descriptor each handler has copied
  SocketDescriptor,       \* the listener's own; 0 before any connect()
  sockets,                \* what has become of the sockets connect() has created
  cpc,                    \* where each caller is
  at,                     \* where in the list of handlers a caller's interrupt() is
  lpc,                    \* where the thread in C2SSocketListener::run() is
  hpc,                    \* where each handler's accept() is
  connected,              \* TRUE iff a handler's ::accept() has returned a connection
  threw                   \* on whose account a handler has ended the process, or "none"

poolVars == <<idle, running, call>>
flagVars == <<m_bIsRunning, m_bKeepRunning, m_bIsListening>>
handlerVars == <<m_acceptMutex, hpc, connected>>
setupVars == <<earlier, m_acceptHandlers, m_socketInfo>>
socketVars == <<SocketDescriptor, sockets>>
callerVars == <<cpc, at>>
workVars == <<poolVars, handlerVars, setupVars, threw>>  \* no step of a caller
serverVars ==                                            \* no step of a handler
  <<flagVars, setupVars, m_bInterrupted, socketVars, callerVars, lpc>>
outsideVars == <<m_bInterrupted, socketVars, callerVars, threw>>
vars == <<poolVars, flagVars, handlerVars, setupVars, m_bInterrupted, socketVars, callerVars,
          lpc, threw>>

Pool == INSTANCE WorkerPool WITH Callers <- {Listener}, Workers <- Handlers

StartPCs == {"s_connect", "s_test", "s_wait", "s_done"}
RunPCs == {"r_connect", "r_run"}
ShutdownPCs == {"x_keep", "x_handlers", "x_shutdown", "x_close", "x_wait", "x_done"}
ListenerPCs == {"none", "begin", "keep", "create", "queue", "listen", "loop", "start",
                "started", "join", "joined", "end", "ended"}
HandlerPCs == {"idle", "lock", "check", "accept", "accepted", "receive", "flush", "return"}
SocketStates == {"unbound", "listening", "shut", "closed"}

Init ==
  /\ Pool!Init
  /\ m_bIsRunning = FALSE /\ m_bKeepRunning = FALSE /\ m_bIsListening = FALSE
  /\ earlier = 0 /\ m_acceptHandlers = 0
  /\ m_bInterrupted = [h \in Handlers |-> FALSE]
  /\ m_acceptMutex = Nobody
  /\ m_socketInfo = [h \in Handlers |-> 0]
  /\ SocketDescriptor = 0
  /\ sockets = <<>>
  /\ cpc = [c \in Callers |-> "idle"]
  /\ at = [c \in Callers |-> 1]
  /\ lpc = "none"
  /\ hpc = [h \in Handlers |-> "idle"]
  /\ connected = [h \in Handlers |-> FALSE]
  /\ threw = "none"

CallerStep(c, from, to) ==
  /\ threw = "none"
  /\ cpc[c] = from
  /\ cpc' = [cpc EXCEPT ![c] = to]

ListenerStep(from, to) ==
  /\ threw = "none"
  /\ lpc = from
  /\ lpc' = to

HandlerStep(h, from, to) ==
  /\ threw = "none"
  /\ hpc[h] = from
  /\ hpc' = [hpc EXCEPT ![h] = to]

(* Steps that change nothing but where the caller or the handler is. *)
CallerMoves(c, from, to) ==
  /\ CallerStep(c, from, to)
  /\ UNCHANGED <<workVars, flagVars, socketVars, m_bInterrupted, at, lpc>>

HandlerMoves(h, from, to) ==
  /\ HandlerStep(h, from, to)
  /\ UNCHANGED <<serverVars, poolVars, m_acceptMutex, connected, threw>>

-----------------------------------------------------------------------------
(* How a program may use a server: it starts one that is down, and shuts   *)
(* down one that is up, with one call at a time; start() or run() may be   *)
(* under way when shutdown() is called only if EarlyShutdown allows it.    *)
OthersIn(c, pcs) == \A d \in Callers \ {c} : cpc[d] \in pcs

MayStart(c) ==
  /\ Len(sockets) < MaxSockets
  /\ \/ lpc = "none" /\ OthersIn(c, {"idle"})
     \/ SecondStart /\ m_bIsListening /\ OthersIn(c, {"idle", "r_run"})

MayShutdown(c) ==
  \/ m_bIsListening /\ OthersIn(c, {"idle", "r_run"})
  \/ EarlyShutdown /\ \E d \in Callers \ {c} : cpc[d] \in StartPCs \cup RunPCs

CallRuntimeStart(c) ==
  /\ MayStart(c)
  /\ CallerMoves(c, "idle", "s_connect")

CallRuntimeRun(c) ==
  /\ MayStart(c) /\ lpc = "none"
  /\ CallerMoves(c, "idle", "r_connect")

CallShutdown(c) ==
  /\ MayShutdown(c)
  /\ CallerMoves(c, "idle", "x_keep")

-----------------------------------------------------------------------------
(* C2SSocketListener::connect().  A port has one listening socket.         *)
Connect(c, from, to) ==
  /\ CallerStep(c, from, to)
  /\ \A s \in DOMAIN sockets : sockets[s] # "listening"
  /\ SocketDescriptor' = Len(sockets) + 1
  /\ sockets' = Append(sockets, "listening")
  /\ UNCHANGED <<workVars, flagVars, m_bInterrupted, at>>

(* bind() fails, because of the port or for another reason, and connect()  *)
(* throws with the descriptor of the new socket stored.                    *)
ConnectThrows(c) ==
  /\ CallerStep(c, "s_connect", "idle") \/ CallerStep(c, "r_connect", "idle")
  /\ SocketDescriptor' = Len(sockets) + 1
  /\ sockets' = Append(sockets, "unbound")
  /\ UNCHANGED <<workVars, flagVars, m_bInterrupted, at, lpc>>

(* C2SRuntime::start(), once connected: C2SSocketListenerThread::          *)
(* startListener().  A thread that cannot be created is an exception too.  *)
ConnectForStart(c) == Connect(c, "s_connect", "s_test") /\ UNCHANGED lpc

StartThrows(c) == CallerMoves(c, "s_test", "idle")

StartThread(c) ==
  /\ CallerStep(c, "s_test", "s_wait")
  /\ ~m_bIsRunning
  /\ lpc' = "begin"
  /\ UNCHANGED <<workVars, flagVars, socketVars, m_bInterrupted, at>>

(* Seeded fault: m_bIsListening is not waited for. *)
WaitForStartup_NoWait(c) == CallerMoves(c, "s_wait", "s_done")

WaitForStartup(c) ==
  /\ CallerMoves(c, "s_wait", "s_done")
  /\ m_bIsListening

StartReturn(c) == CallerMoves(c, "s_done", "idle")

(* C2SRuntime::run(): the listener runs on the caller's thread. *)
ConnectForRun(c) == Connect(c, "r_connect", "r_run") /\ lpc' = "begin"

RunReturn(c) ==
  /\ CallerMoves(c, "r_run", "idle")
  /\ lpc = "none"

-----------------------------------------------------------------------------
(* Seeded fault: no handler is interrupted. *)
StopKeepRunning_NoHandlers(c) ==
  /\ CallerStep(c, "x_keep", "x_shutdown")
  /\ m_bKeepRunning' = FALSE
  /\ at' = [at EXCEPT ![c] = 1]
  /\ UNCHANGED <<workVars, socketVars, m_bIsRunning, m_bIsListening, m_bInterrupted, lpc>>

(* Seeded fault: m_bKeepRunning is not reset. *)
StopKeepRunning_Keeps(c) ==
  /\ CallerStep(c, "x_keep", "x_handlers")
  /\ at' = [at EXCEPT ![c] = 1]
  /\ UNCHANGED <<workVars, flagVars, socketVars, m_bInterrupted, lpc>>

(* C2SRuntime::shutdown(): C2SSocketListenerThread::stopListener(), which  *)
(* calls interrupt() and then waits for the listener's thread.             *)
StopKeepRunning(c) ==
  /\ CallerStep(c, "x_keep", "x_handlers")
  /\ m_bKeepRunning' = FALSE
  /\ at' = [at EXCEPT ![c] = 1]
  /\ UNCHANGED <<workVars, socketVars, m_bIsRunning, m_bIsListening, m_bInterrupted, lpc>>

(* interrupt() goes through the handlers of every run() there has been.  The *)
(* flags of those of earlier run()s are read by nobody: their accept() has   *)
(* returned for good.                                                        *)
InterruptEarlier(c) ==
  /\ threw = "none" /\ cpc[c] = "x_handlers"
  /\ at[c] <= earlier
  /\ at' = [at EXCEPT ![c] = @ + 1]
  /\ UNCHANGED <<workVars, flagVars, socketVars, m_bInterrupted, cpc, lpc>>

(* Seeded fault: the loop goes one handler too far. *)
InterruptHandler_OnePast(c) ==
  LET h == at[c] - earlier
  IN  /\ threw = "none" /\ cpc[c] = "x_handlers"
      /\ 0 < h /\ h <= m_acceptHandlers + 1
      /\ m_bInterrupted' = [m_bInterrupted EXCEPT ![h] = TRUE]
      /\ at' = [at EXCEPT ![c] = @ + 1]
      /\ UNCHANGED <<workVars, flagVars, socketVars, cpc, lpc>>

InterruptHandler(c) ==
  LET h == at[c] - earlier
  IN  /\ threw = "none" /\ cpc[c] = "x_handlers"
      /\ 0 < h /\ h <= m_acceptHandlers
      /\ m_bInterrupted' = [m_bInterrupted EXCEPT ![h] = TRUE]
      /\ at' = [at EXCEPT ![c] = @ + 1]
      /\ UNCHANGED <<workVars, flagVars, socketVars, cpc, lpc>>

InterruptedAll(c) ==
  /\ CallerStep(c, "x_handlers", "x_shutdown")
  /\ at[c] > earlier + m_acceptHandlers
  /\ at' = [at EXCEPT ![c] = 1]
  /\ UNCHANGED <<workVars, flagVars, socketVars, m_bInterrupted, lpc>>

(* ::shutdown() wakes a handler that waits in ::accept(); ::close() alone  *)
(* would not.                                                              *)
ShutSocket(c) ==
  /\ CallerStep(c, "x_shutdown", "x_close")
  /\ sockets' = [s \in DOMAIN sockets |->
                   IF s = SocketDescriptor /\ sockets[s] = "listening" THEN "shut" ELSE sockets[s]]
  /\ UNCHANGED <<workVars, flagVars, m_bInterrupted, SocketDescriptor, at, lpc>>

CloseSocket(c) ==
  /\ CallerStep(c, "x_close", "x_wait")
  /\ sockets' = [s \in DOMAIN sockets |-> IF s = SocketDescriptor THEN "closed" ELSE sockets[s]]
  /\ UNCHANGED <<workVars, flagVars, m_bInterrupted, SocketDescriptor, at, lpc>>

(* Seeded fault: m_bIsRunning is not waited for. *)
AwaitStopped_NoWait(c) == CallerMoves(c, "x_wait", "x_done")

AwaitStopped(c) ==
  /\ CallerMoves(c, "x_wait", "x_done")
  /\ ~m_bIsRunning

ShutdownReturn(c) == CallerMoves(c, "x_done", "idle")

-----------------------------------------------------------------------------
(* C2SSocketListenerThread::run() and C2SSocketListener::run(). *)
SetRunning ==
  /\ ListenerStep("begin", "keep")
  /\ m_bIsRunning' = TRUE
  /\ UNCHANGED <<outsideVars, poolVars, handlerVars, setupVars, m_bKeepRunning, m_bIsListening>>

(* A new accept mutex, a new thread queue and no new handlers yet; those of *)
(* earlier run()s stay in the list and are in no queue.                     *)
SetKeepRunning ==
  /\ ListenerStep("keep", "create")
  /\ m_bKeepRunning' = TRUE
  /\ earlier' = earlier + m_acceptHandlers /\ m_acceptHandlers' = 0
  /\ m_acceptMutex' = Nobody
  /\ idle' = <<>>
  /\ UNCHANGED <<outsideVars, running, call, m_bIsRunning, m_bIsListening, hpc, connected, m_socketInfo>>

CreateHandler ==
  LET h == m_acceptHandlers + 1
  IN  /\ ListenerStep("create", "queue")
      /\ h \in Handlers
      /\ m_acceptHandlers' = h
      /\ m_socketInfo' = [m_socketInfo EXCEPT ![h] = SocketDescriptor]
      /\ m_bInterrupted' = [m_bInterrupted EXCEPT ![h] = FALSE]
      /\ UNCHANGED <<poolVars, flagVars, handlerVars, socketVars, callerVars, threw, earlier>>

QueueHandler ==
  /\ ListenerStep("queue", IF m_acceptHandlers = NumThreads THEN "listen" ELSE "create")
  /\ Pool!Register(m_acceptHandlers)
  /\ UNCHANGED <<outsideVars, flagVars, handlerVars, setupVars>>

(* Seeded fault: m_bIsListening is not set. *)
SetListening_NotSet ==
  /\ ListenerStep("listen", "loop")
  /\ UNCHANGED <<outsideVars, poolVars, flagVars, handlerVars, setupVars>>

SetListening ==
  /\ ListenerStep("listen", "loop")
  /\ m_bIsListening' = TRUE
  /\ UNCHANGED <<outsideVars, poolVars, handlerVars, setupVars, m_bIsRunning, m_bKeepRunning>>

LoopContinues ==
  /\ ListenerStep("loop", "start")
  /\ m_bKeepRunning
  /\ Pool!CallStart(Listener)
  /\ UNCHANGED <<outsideVars, flagVars, handlerVars, setupVars>>

StartHandler ==
  /\ ListenerStep("start", "started")
  /\ Pool!Dispatch(Listener)
  /\ hpc' = [hpc EXCEPT ![Head(idle)] = "lock"]
  /\ UNCHANGED <<outsideVars, flagVars, setupVars, m_acceptMutex, connected>>

StartedHandler ==
  /\ ListenerStep("started", "loop")
  /\ Pool!Return(Listener)
  /\ UNCHANGED <<outsideVars, flagVars, handlerVars, setupVars>>

LoopEnds ==
  /\ ListenerStep("loop", "join")
  /\ ~m_bKeepRunning
  /\ Pool!CallJoin(Listener)
  /\ UNCHANGED <<outsideVars, flagVars, handlerVars, setupVars>>

(* Seeded fault: join() does not wait for the handlers. *)
JoinHandlers_NoWait ==
  /\ ListenerStep("join", "joined")
  /\ Pool!CallStep(Listener, "join", "joined")
  /\ UNCHANGED <<outsideVars, flagVars, handlerVars, setupVars, idle, running>>

JoinHandlers ==
  /\ ListenerStep("join", "joined")
  /\ Pool!Join(Listener)
  /\ UNCHANGED <<outsideVars, flagVars, handlerVars, setupVars>>

(* The queue and the accept mutex are deleted; the handlers are not. *)
DeleteQueue ==
  /\ ListenerStep("joined", "end")
  /\ Pool!Return(Listener)
  /\ UNCHANGED <<outsideVars, flagVars, handlerVars, setupVars>>

ResetListening ==
  /\ ListenerStep("end", "ended")
  /\ m_bIsListening' = FALSE
  /\ UNCHANGED <<outsideVars, poolVars, handlerVars, setupVars, m_bIsRunning, m_bKeepRunning>>

ResetRunning ==
  /\ ListenerStep("ended", "none")
  /\ m_bIsRunning' = FALSE
  /\ UNCHANGED <<outsideVars, poolVars, handlerVars, setupVars, m_bKeepRunning, m_bIsListening>>

-----------------------------------------------------------------------------
(* C2SSocketAcceptHandler::accept(), which holds the accept mutex from its  *)
(* first look at m_bInterrupted until ::accept() has returned.              *)
lock(h) == m_acceptMutex = Nobody /\ m_acceptMutex' = h
unlock == m_acceptMutex' = Nobody

LockAccept(h) ==
  /\ HandlerStep(h, "lock", "check")
  /\ lock(h)
  /\ UNCHANGED <<serverVars, poolVars, connected, threw>>

InterruptedBefore(h) ==
  /\ HandlerStep(h, "check", "return")
  /\ m_bInterrupted[h]
  /\ unlock
  /\ UNCHANGED <<serverVars, poolVars, connected, threw>>

NotInterrupted(h) ==
  /\ HandlerMoves(h, "check", "accept")
  /\ ~m_bInterrupted[h]

ListensOn(h) == m_socketInfo[h] \in DOMAIN sockets /\ sockets[m_socketInfo[h]] = "listening"

(* ::accept() waits until a client connects ... *)
AcceptConnection(h) ==
  /\ HandlerStep(h, "accept", "accepted")
  /\ ListensOn(h)
  /\ connected' = [connected EXCEPT ![h] = TRUE]
  /\ unlock
  /\ UNCHANGED <<serverVars, poolVars, threw>>

(* ... or fails for a reason of the network or of the process ... *)
AcceptErrs(h) ==
  /\ HandlerStep(h, "accept", "accepted")
  /\ ListensOn(h)
  /\ unlock
  /\ UNCHANGED <<serverVars, poolVars, connected, threw>>

(* ... or fails at once on a socket that does not listen. *)
AcceptFails(h) ==
  /\ HandlerStep(h, "accept", "accepted")
  /\ ~ListensOn(h)
  /\ unlock
  /\ UNCHANGED <<serverVars, poolVars, connected, threw>>

(* A connection that was accepted is left as it is. *)
InterruptedAfter(h) ==
  /\ HandlerStep(h, "accepted", "return")
  /\ m_bInterrupted[h]
  /\ connected' = [connected EXCEPT ![h] = FALSE]
  /\ UNCHANGED <<serverVars, poolVars, m_acceptMutex, threw>>

AcceptThrows(h) ==
  /\ threw = "none" /\ hpc[h] = "accepted"
  /\ ~m_bInterrupted[h] /\ ~connected[h]
  /\ threw' = IF ListensOn(h) THEN "client" ELSE "shutdown"
  /\ UNCHANGED <<serverVars, poolVars, handlerVars>>

Serve(h) ==
  /\ HandlerMoves(h, "accepted", "receive")
  /\ ~m_bInterrupted[h] /\ connected[h]

(* The request is complete, or its client has stopped sending ... *)
RequestEnds(h) == HandlerMoves(h, "receive", "flush")

(* ... or recv() fails, or the parser throws. *)
RequestThrows(h) ==
  /\ threw = "none" /\ hpc[h] = "receive"
  /\ threw' = "client"
  /\ UNCHANGED <<serverVars, poolVars, handlerVars>>

(* flush(), whose exceptions are caught, and close(). *)
Flush(h) ==
  /\ HandlerStep(h, "flush", "return")
  /\ connected' = [connected EXCEPT ![h] = FALSE]
  /\ UNCHANGED <<serverVars, poolVars, m_acceptMutex, threw>>

FinishHandler(h) ==
  /\ HandlerStep(h, "return", "idle")
  /\ Pool!Finish(h)
  /\ UNCHANGED <<serverVars, m_acceptMutex, connected, threw>>

-----------------------------------------------------------------------------
CallerCalls(c) == CallRuntimeStart(c) \/ CallRuntimeRun(c) \/ CallShutdown(c)

CallerNext(c) ==
  \/ ConnectForStart(c) \/ ConnectForRun(c) \/ ConnectThrows(c)
  \/ StartThread(c) \/ StartThrows(c) \/ WaitForStartup(c) \/ StartReturn(c) \/ RunReturn(c)
  \/ StopKeepRunning(c) \/ InterruptEarlier(c) \/ InterruptHandler(c) \/ InterruptedAll(c)
  \/ ShutSocket(c) \/ CloseSocket(c) \/ AwaitStopped(c) \/ ShutdownReturn(c)

ListenerNext ==
  \/ SetRunning \/ SetKeepRunning \/ CreateHandler \/ QueueHandler \/ SetListening
  \/ LoopContinues \/ StartHandler \/ StartedHandler \/ LoopEnds \/ JoinHandlers
  \/ DeleteQueue \/ ResetListening \/ ResetRunning

(* What a handler does by itself, and what it needs its client for. *)
HandlerNext(h) ==
  \/ LockAccept(h) \/ InterruptedBefore(h) \/ NotInterrupted(h) \/ AcceptFails(h)
  \/ InterruptedAfter(h) \/ AcceptThrows(h) \/ Serve(h) \/ Flush(h) \/ FinishHandler(h)

HandlerMeetsClient(h) ==
  AcceptConnection(h) \/ AcceptErrs(h) \/ RequestEnds(h) \/ RequestThrows(h)

Next ==
  \/ \E c \in Callers : CallerCalls(c) \/ CallerNext(c)
  \/ ListenerNext
  \/ \E h \in Handlers : HandlerNext(h) \/ HandlerMeetsClient(h)

Spec == Init /\ [][Next]_vars

(* Every thread keeps being scheduled; nothing is assumed of the clients.  *)
Fairness ==
  /\ \A c \in Callers : WF_vars(CallerNext(c))
  /\ WF_vars(ListenerNext)
  /\ \A h \in Handlers : WF_vars(HandlerNext(h))

FairSpec == Spec /\ Fairness

-----------------------------------------------------------------------------
(* Type invariant. *)
TypeOK ==
  /\ idle \in Seq(Handlers) /\ running \in SUBSET Handlers
  /\ call \in [{Listener} -> Pool!CallStates]
  /\ m_bIsRunning \in BOOLEAN /\ m_bKeepRunning \in BOOLEAN /\ m_bIsListening \in BOOLEAN
  /\ earlier \in Nat /\ m_acceptHandlers \in 0..NumThreads
  /\ m_bInterrupted \in [Handlers -> BOOLEAN]
  /\ m_acceptMutex \in Handlers \cup {Nobody}
  /\ sockets \in Seq(SocketStates) /\ Len(sockets) <= MaxSockets
  /\ SocketDescriptor \in 0..Len(sockets)
  /\ m_socketInfo \in [Handlers -> 0..Len(sockets)]
  /\ cpc \in [Callers -> {"idle"} \cup StartPCs \cup RunPCs \cup ShutdownPCs]
  /\ at \in [Callers -> 1..earlier + m_acceptHandlers + 1]
  /\ lpc \in ListenerPCs
  /\ hpc \in [Handlers -> HandlerPCs]
  /\ connected \in [Handlers -> BOOLEAN]
  /\ threw \in {"none", "client", "shutdown"}

(* A handler whose ::accept() fails because the listener is shut down has  *)
(* been interrupted before, so that it returns and does not throw.         *)
CleanShutdown == threw # "shutdown"

(* When start() returns, the server listens: every handler is created and  *)
(* in the queue, and the socket accepts connections.                       *)
StartMeansListening ==
  \A c \in Callers : cpc[c] = "s_done" =>
    /\ m_bIsListening /\ m_bKeepRunning
    /\ m_acceptHandlers = NumThreads
    /\ \A h \in Handlers : ListensOn(h) /\ ~m_bInterrupted[h]

(* When shutdown() returns the server is down and the port is free.        *)
ShutdownStops ==
  \A c \in Callers : cpc[c] = "x_done" =>
    /\ lpc = "none"
    /\ \A s \in DOMAIN sockets : sockets[s] # "listening"

(* start() returns or throws. *)
StartReturns ==
  \A c \in Callers : cpc[c] = "s_connect" ~> cpc[c] = "idle" \/ threw # "none"

(* shutdown() returns if no client keeps a handler in recv() for ever.     *)
ShutdownReturns ==
  (\A h \in Handlers : []<>(hpc[h] # "receive")) =>
    \A c \in Callers : cpc[c] = "x_keep" ~> cpc[c] = "idle" \/ threw # "none"

=============================================================================

------------------------ MODULE SocketListener_proofs ------------------------
(***************************************************************************)
(* Proofs about SocketListener, for every set of callers and every number  *)
(* of handlers and of sockets.  Its types need nothing of the program that *)
(* uses the server; the rest is for a program that starts the server when  *)
(* it is down and shuts it down when it is up (neither EarlyShutdown nor    *)
(* SecondStart): for the other programs the runs have counterexamples.      *)
(***************************************************************************)
EXTENDS SocketListener, SequenceFacts, TLAPS

(***************************************************************************)
(* What holds whatever the callers do.                                     *)
(***************************************************************************)

(* The caller that is about to connect has found room for its socket, and   *)
(* no other will take it.                                                   *)
ConnectingPCs == {"s_connect", "r_connect"}
RoomInv ==
  \A c \in Callers : cpc[c] \in ConnectingPCs =>
    Len(sockets) < MaxSockets /\ \A d \in Callers : cpc[d] \in ConnectingPCs => d = c

(* A handler runs from start() until its accept() has returned. *)
BusyInv == \A h \in Handlers : h \in running <=> hpc[h] # "idle"

TypeInv == TypeOK /\ RoomInv /\ BusyInv /\ (lpc = "queue" => m_acceptHandlers # 0)

(***************************************************************************)
(* What holds when the server is started and shut down in turn.            *)
(***************************************************************************)
StoppingPCs == {"x_handlers", "x_shutdown", "x_close", "x_wait"}
ShutPCs == {"x_close", "x_wait", "x_done"}
SetupPCs == {"create", "queue", "listen"}
LoopPCs == {"loop", "start", "started"}
ListeningPCs == LoopPCs \cup {"join", "joined", "end"}

CallerIn(pcs) == \E c \in Callers : cpc[c] \in pcs

(* One call at a time, but for a run() that the server is in. *)
CallerInv ==
  \A c, d \in Callers : c # d =>
    /\ cpc[c] \in StartPCs \cup {"r_connect"} => cpc[d] = "idle"
    /\ cpc[c] \in ShutdownPCs \cup {"r_run"} => cpc[d] \in {"idle", "r_run"} \cup ShutdownPCs
    /\ cpc[c] \in ShutdownPCs => cpc[d] \notin ShutdownPCs
    /\ cpc[c] = "r_run" => cpc[d] # "r_run"

(* The flags tell where the listener's thread is ... *)
FlagInv ==
  /\ m_bIsRunning <=> lpc \notin {"none", "begin"}
  /\ m_bIsListening <=> lpc \in ListeningPCs
  /\ lpc \in SetupPCs => m_bKeepRunning
  /\ lpc \in {"join", "joined", "end", "ended"} => ~m_bKeepRunning

(* ... and so does the place of a caller: the listener is down before a      *)
(* start, it stays in its loop until shutdown() stops it, and it is down    *)
(* when shutdown() has awaited that.                                        *)
PhaseInv ==
  /\ CallerIn({"s_connect", "s_test", "r_connect"}) => lpc = "none"
  /\ CallerIn({"s_done", "x_keep"}) => lpc \in LoopPCs
  /\ CallerIn(ShutdownPCs) => lpc \notin {"begin", "keep"} \cup SetupPCs
  /\ CallerIn({"x_done"}) => lpc = "none"
  /\ CallerIn(StoppingPCs) => ~m_bKeepRunning
  /\ lpc \in LoopPCs \cup {"join", "joined", "end", "ended"} /\ ~m_bKeepRunning
     => CallerIn(StoppingPCs)

(* Handlers run between the creation of the last of them and join(); they   *)
(* have the listener's socket, and are interrupted by shutdown() only, one  *)
(* after the other.                                                         *)
HandlerInv ==
  /\ lpc \in {"listen"} \cup ListeningPCs \/ CallerIn(ShutdownPCs) => m_acceptHandlers = NumThreads
  /\ \A h \in Handlers : hpc[h] # "idle" => lpc \in LoopPCs \cup {"join"}
  /\ \A h \in Handlers :
       h <= m_acceptHandlers /\ lpc \in SetupPCs \cup ListeningPCs =>
         m_socketInfo[h] = SocketDescriptor
  /\ \A h \in Handlers :
       h <= m_acceptHandlers /\ lpc \in SetupPCs \cup ListeningPCs /\ ~CallerIn(StoppingPCs) =>
         ~m_bInterrupted[h]
  /\ \A c \in Callers, h \in Handlers :
       cpc[c] = "x_handlers" /\ earlier + h < at[c] => m_bInterrupted[h]
  /\ CallerIn({"x_shutdown", "x_close", "x_wait"}) => \A h \in Handlers : m_bInterrupted[h]

(* The listener's socket listens from connect() to ::shutdown(), and no     *)
(* other does then.                                                         *)
SocketInv ==
  /\ lpc # "none" \/ CallerIn({"s_test"} \cup ShutdownPCs) =>
       \A s \in DOMAIN sockets : sockets[s] = "listening" => s = SocketDescriptor
  /\ (lpc # "none" /\ ~CallerIn(ShutPCs)) \/ CallerIn({"s_test"}) =>
       SocketDescriptor \in DOMAIN sockets /\ sockets[SocketDescriptor] = "listening"
  /\ CallerIn(ShutPCs) => \A s \in DOMAIN sockets : sockets[s] # "listening"

IInv ==
  TypeInv /\ CallerInv /\ FlagInv /\ PhaseInv /\ HandlerInv /\ SocketInv /\ CleanShutdown

-----------------------------------------------------------------------------
(* What each thread leaves alone. *)

(* No step of a caller is one of the listener's objects or of a handler. *)
LEMMA CallerFrame ==
  ASSUME NEW c \in Callers, CallerCalls(c) \/ CallerNext(c)
  PROVE  UNCHANGED <<idle, running, call, m_acceptMutex, hpc, connected, earlier,
                     m_acceptHandlers, m_socketInfo, threw>>
BY DEF CallerCalls, CallerNext, CallRuntimeStart, CallRuntimeRun, CallShutdown, ConnectForStart,
       ConnectForRun, Connect, ConnectThrows, StartThread, StartThrows, WaitForStartup, StartReturn,
       RunReturn, StopKeepRunning, InterruptEarlier, InterruptHandler, InterruptedAll, ShutSocket,
       CloseSocket, AwaitStopped, ShutdownReturn, CallerMoves, workVars, poolVars, handlerVars,
       setupVars

(* The listener's thread touches neither the sockets nor the callers. *)
LEMMA ListenerFrame ==
  ASSUME ListenerNext
  PROVE  UNCHANGED <<SocketDescriptor, sockets, cpc, at, threw>>
BY DEF ListenerNext, SetRunning, SetKeepRunning, CreateHandler, QueueHandler, SetListening,
       LoopContinues, StartHandler, StartedHandler, LoopEnds, JoinHandlers, DeleteQueue,
       ResetListening, ResetRunning, outsideVars, socketVars, callerVars

(* A handler touches nothing of the listener but its queue. *)
LEMMA HandlerFrame ==
  ASSUME NEW h \in Handlers, HandlerNext(h) \/ HandlerMeetsClient(h)
  PROVE  UNCHANGED <<m_bIsRunning, m_bKeepRunning, m_bIsListening, earlier, m_acceptHandlers,
                     m_socketInfo, m_bInterrupted, SocketDescriptor, sockets, cpc, at, lpc>>
BY DEF HandlerNext, HandlerMeetsClient, LockAccept, InterruptedBefore, NotInterrupted,
       AcceptFails, InterruptedAfter, AcceptThrows, Serve, Flush, FinishHandler,
       AcceptConnection, AcceptErrs, RequestEnds, RequestThrows, HandlerMoves, serverVars,
       flagVars, setupVars, socketVars, callerVars

(* One thread takes a step, or none. *)
LEMMA StepCases ==
  ASSUME [Next]_vars
  PROVE  \/ \E c \in Callers : CallerCalls(c) \/ CallerNext(c)
         \/ ListenerNext
         \/ \E h \in Handlers : HandlerNext(h) \/ HandlerMeetsClient(h)
         \/ UNCHANGED vars
BY DEF Next

(* A caller's step moves that caller alone. *)
LEMMA CallerMove ==
  ASSUME TypeOK, NEW c \in Callers, CallerCalls(c) \/ CallerNext(c)
  PROVE  /\ cpc' = [cpc EXCEPT ![c] = cpc'[c]]
         /\ \A d \in Callers \ {c} : cpc'[d] = cpc[d]
         /\ cpc'[c] \in {"idle"} \cup StartPCs \cup RunPCs \cup ShutdownPCs
<1> USE DEF CallerMoves, CallerStep, TypeOK, StartPCs, RunPCs, ShutdownPCs
<1>1. CASE CallerCalls(c)
  BY <1>1 DEF CallerCalls, CallRuntimeStart, CallRuntimeRun, CallShutdown
<1>2. CASE ConnectForStart(c) \/ ConnectForRun(c) \/ ConnectThrows(c)
  BY <1>2 DEF ConnectForStart, ConnectForRun, Connect, ConnectThrows
<1>3. CASE StartThread(c) \/ StartThrows(c) \/ WaitForStartup(c) \/ StartReturn(c) \/ RunReturn(c)
  BY <1>3 DEF StartThread, StartThrows, WaitForStartup, StartReturn, RunReturn
<1>4. CASE StopKeepRunning(c) \/ InterruptEarlier(c) \/ InterruptHandler(c) \/ InterruptedAll(c)
  BY <1>4 DEF StopKeepRunning, InterruptEarlier, InterruptHandler, InterruptedAll
<1>5. CASE ShutSocket(c) \/ CloseSocket(c) \/ AwaitStopped(c) \/ ShutdownReturn(c)
  BY <1>5 DEF ShutSocket, CloseSocket, AwaitStopped, ShutdownReturn
<1>6. QED
  BY <1>1, <1>2, <1>3, <1>4, <1>5 DEF CallerNext

-----------------------------------------------------------------------------
(* What holds whatever the callers do is kept by every step. *)

(* A caller's step keeps the types. *)
LEMMA CallerTypeStep ==
  ASSUME TypeInv, NEW c \in Callers, CallerCalls(c) \/ CallerNext(c)
  PROVE  TypeOK'
<1> USE SocketListenerAssumption DEF ListenerPCs
<1>0. /\ TypeOK /\ RoomInv
      /\ cpc' \in [Callers -> {"idle"} \cup StartPCs \cup RunPCs \cup ShutdownPCs]
  BY CallerMove DEF TypeInv, TypeOK
<1>1. /\ idle' \in Seq(Handlers) /\ running' \in SUBSET Handlers
      /\ call' \in [{Listener} -> Pool!CallStates]
      /\ earlier' = earlier /\ m_acceptHandlers' = m_acceptHandlers
      /\ m_acceptMutex' \in Handlers \cup {Nobody}
      /\ hpc' \in [Handlers -> HandlerPCs] /\ connected' \in [Handlers -> BOOLEAN]
      /\ threw' \in {"none", "client", "shutdown"}
  BY <1>0, CallerFrame DEF TypeOK
<1>2. m_socketInfo' = m_socketInfo
  BY CallerFrame
<1>3. CASE \/ CallerCalls(c) \/ StartThrows(c) \/ WaitForStartup(c) \/ StartReturn(c)
           \/ RunReturn(c) \/ AwaitStopped(c) \/ ShutdownReturn(c)
  BY <1>0, <1>1, <1>2, <1>3 DEF CallerCalls, CallRuntimeStart, CallRuntimeRun, CallShutdown,
     StartThrows, WaitForStartup, StartReturn, RunReturn, AwaitStopped, ShutdownReturn,
     CallerMoves, flagVars, socketVars, TypeOK
<1>4. CASE ConnectForStart(c) \/ ConnectForRun(c) \/ ConnectThrows(c)
  <2>1. \E x \in {"listening", "unbound"} :
          sockets' = Append(sockets, x) /\ SocketDescriptor' = Len(sockets) + 1
    BY <1>4 DEF ConnectForStart, ConnectForRun, Connect, ConnectThrows
  <2>2. /\ sockets' \in Seq(SocketStates) /\ Len(sockets') = Len(sockets) + 1
        /\ Len(sockets) \in Nat
    BY <1>0, <2>1, AppendFacts DEF SocketStates, TypeOK
  <2>3. Len(sockets') <= MaxSockets
    BY <1>0, <1>4, <2>2 DEF ConnectForStart, ConnectForRun, Connect, ConnectThrows, CallerStep,
                            RoomInv, ConnectingPCs
  <2>4. SocketDescriptor' \in 0..Len(sockets') /\ m_socketInfo' \in [Handlers -> 0..Len(sockets')]
    BY <1>0, <1>2, <2>1, <2>2 DEF TypeOK
  <2>5. UNCHANGED <<flagVars, m_bInterrupted, at>> /\ lpc' \in ListenerPCs
    BY <1>0, <1>4 DEF ConnectForStart, ConnectForRun, Connect, ConnectThrows, TypeOK
  <2>6. QED
    BY <1>0, <1>1, <2>2, <2>3, <2>4, <2>5 DEF flagVars, TypeOK
<1>5. CASE \/ StartThread(c) \/ StopKeepRunning(c) \/ InterruptEarlier(c) \/ InterruptHandler(c)
           \/ InterruptedAll(c)
  <2>1. UNCHANGED <<sockets, SocketDescriptor, m_socketInfo>>
    BY <1>2, <1>5 DEF StartThread, StopKeepRunning, InterruptEarlier, InterruptHandler,
                      InterruptedAll, socketVars
  <2>2. /\ at' \in [Callers -> 1..earlier + m_acceptHandlers + 1]
        /\ m_bInterrupted' \in [Handlers -> BOOLEAN]
    <3>1. CASE StartThread(c) \/ StopKeepRunning(c) \/ InterruptedAll(c)
      <4>1. m_bInterrupted' = m_bInterrupted /\ (at' = at \/ at' = [at EXCEPT ![c] = 1])
        BY <3>1 DEF StartThread, StopKeepRunning, InterruptedAll
      <4>2. 1 \in 1..earlier + m_acceptHandlers + 1
        BY <1>0 DEF TypeOK
      <4>3. QED
        BY <1>0, <4>1, <4>2 DEF TypeOK
    <3>2. CASE InterruptEarlier(c) \/ InterruptHandler(c)
      <4>1. /\ earlier \in Nat /\ m_acceptHandlers \in Nat
            /\ at[c] <= earlier + m_acceptHandlers
            /\ at' = [at EXCEPT ![c] = @ + 1]
            /\ \/ m_bInterrupted' = m_bInterrupted
               \/ m_bInterrupted' = [m_bInterrupted EXCEPT ![at[c] - earlier] = TRUE]
        BY <1>0, <3>2 DEF InterruptEarlier, InterruptHandler, TypeOK
      <4>2. m_bInterrupted' \in [Handlers -> BOOLEAN]
        BY <1>0, <4>1 DEF TypeOK
      <4>3. at[c] + 1 \in 1..earlier + m_acceptHandlers + 1
        BY <1>0, <4>1 DEF TypeOK
      <4>4. QED
        BY <1>0, <4>1, <4>2, <4>3 DEF TypeOK
    <3>3. QED
      BY <1>5, <3>1, <3>2
  <2>3. lpc' \in ListenerPCs /\ m_bKeepRunning' \in BOOLEAN /\ m_bIsRunning' \in BOOLEAN
        /\ m_bIsListening' \in BOOLEAN
    BY <1>0, <1>5 DEF StartThread, StopKeepRunning, InterruptEarlier, InterruptHandler,
                      InterruptedAll, flagVars, TypeOK
  <2>4. QED
    BY <1>0, <1>1, <2>1, <2>2, <2>3 DEF TypeOK
<1>6. CASE ShutSocket(c) \/ CloseSocket(c)
  <2>1. /\ sockets' \in Seq(SocketStates) /\ Len(sockets') = Len(sockets)
    <3>1. DOMAIN sockets = 1..Len(sockets) /\ Len(sockets) \in Nat
      BY <1>0 DEF TypeOK
    <3>2. \A s \in DOMAIN sockets : sockets[s] \in SocketStates
      BY <1>0 DEF TypeOK
    <3>3. sockets' \in [1..Len(sockets) -> SocketStates]
      BY <1>6, <3>1, <3>2 DEF ShutSocket, CloseSocket, SocketStates
    <3>4. QED
      BY <3>1, <3>3, FunctionIsSeq
  <2>2. UNCHANGED <<flagVars, m_bInterrupted, at, lpc, SocketDescriptor>>
    BY <1>6 DEF ShutSocket, CloseSocket
  <2>3. QED
    BY <1>0, <1>1, <1>2, <2>1, <2>2 DEF flagVars, TypeOK
<1>7. QED
  BY <1>3, <1>4, <1>5, <1>6 DEF CallerNext

(* The listener's step keeps the types. *)
LEMMA ListenerTypeStep ==
  ASSUME TypeInv, ListenerNext
  PROVE  TypeOK'
<1> USE SocketListenerAssumption
    DEF ListenerStep, ListenerPCs, outsideVars, poolVars, handlerVars, setupVars, flagVars,
        socketVars, callerVars
<1>0. TypeOK /\ (lpc = "queue" => m_acceptHandlers # 0)
  BY DEF TypeInv
<1>1. CASE SetRunning \/ SetListening \/ ResetListening \/ ResetRunning
  BY <1>0, <1>1 DEF SetRunning, SetListening, ResetListening, ResetRunning, TypeOK
<1>2. CASE SetKeepRunning
  <2>1. /\ earlier' \in Nat /\ m_acceptHandlers' = 0 /\ at' = at
        /\ earlier' + m_acceptHandlers' = earlier + m_acceptHandlers
    BY <1>0, <1>2 DEF SetKeepRunning, TypeOK
  <2>2. at' \in [Callers -> 1..earlier' + m_acceptHandlers' + 1]
    BY <1>0, <2>1 DEF TypeOK
  <2>3. QED
    BY <1>0, <1>2, <2>1, <2>2 DEF SetKeepRunning, TypeOK
<1>3. CASE CreateHandler
  <2>1. /\ earlier' = earlier /\ earlier \in Nat /\ m_acceptHandlers \in Nat /\ at' = at
        /\ m_acceptHandlers' = m_acceptHandlers + 1 /\ m_acceptHandlers' \in 1..NumThreads
    BY <1>0, <1>3 DEF CreateHandler, TypeOK, Handlers
  <2>2. \A n \in 1..earlier + m_acceptHandlers + 1 : n \in 1..earlier' + m_acceptHandlers' + 1
    BY <2>1
  <2>3. at' \in [Callers -> 1..earlier' + m_acceptHandlers' + 1]
    BY <1>0, <2>1, <2>2 DEF TypeOK
  <2>4. QED
    BY <1>0, <1>3, <2>1, <2>3 DEF CreateHandler, TypeOK, Handlers
<1>4. CASE QueueHandler
  <2>1. m_acceptHandlers \in Handlers
    BY <1>0, <1>4 DEF QueueHandler, TypeOK, Handlers
  <2>2. idle' \in Seq(Handlers) /\ UNCHANGED <<running, call>>
    BY <1>0, <1>4, <2>1, AppendFacts DEF QueueHandler, Pool!Register, TypeOK
  <2>3. QED
    BY <1>0, <1>4, <2>2 DEF QueueHandler, TypeOK
<1>5. CASE LoopContinues \/ StartedHandler \/ LoopEnds \/ JoinHandlers \/ DeleteQueue
  <2>1. call' \in [{Listener} -> Pool!CallStates] /\ UNCHANGED <<idle, running>>
    BY <1>0, <1>5 DEF LoopContinues, StartedHandler, LoopEnds, JoinHandlers, DeleteQueue, TypeOK,
                      Pool!CallStart, Pool!CallJoin, Pool!Join, Pool!Return, Pool!CallStep,
                      Pool!CallStates
  <2>2. QED
    BY <1>0, <1>5, <2>1 DEF LoopContinues, StartedHandler, LoopEnds, JoinHandlers, DeleteQueue,
                            TypeOK
<1>6. CASE StartHandler
  <2>1. /\ Head(idle) \in Handlers /\ idle' \in Seq(Handlers)
        /\ running' = running \cup {Head(idle)}
        /\ call' \in [{Listener} -> Pool!CallStates]
    BY <1>0, <1>6, TailFacts DEF StartHandler, Pool!Dispatch, Pool!CallStep, Pool!CallStates,
                                 TypeOK
  <2>2. hpc' \in [Handlers -> HandlerPCs]
    BY <1>0, <1>6, <2>1 DEF StartHandler, TypeOK, HandlerPCs
  <2>3. QED
    BY <1>0, <1>6, <2>1, <2>2 DEF StartHandler, TypeOK
<1>7. QED
  BY <1>1, <1>2, <1>3, <1>4, <1>5, <1>6 DEF ListenerNext

(* A handler's step keeps the types. *)
LEMMA HandlerTypeStep ==
  ASSUME TypeInv, NEW h \in Handlers, HandlerNext(h) \/ HandlerMeetsClient(h)
  PROVE  TypeOK'
<1>0. TypeOK
  BY DEF TypeInv
<1>1. /\ hpc' \in [Handlers -> HandlerPCs] /\ connected' \in [Handlers -> BOOLEAN]
      /\ threw' \in {"none", "client", "shutdown"} /\ m_acceptMutex' \in Handlers \cup {Nobody}
  BY <1>0 DEF HandlerNext, HandlerMeetsClient, LockAccept, InterruptedBefore, NotInterrupted,
     AcceptFails, InterruptedAfter, AcceptThrows, Serve, Flush, FinishHandler, AcceptConnection,
     AcceptErrs, RequestEnds, RequestThrows, HandlerMoves, HandlerStep, HandlerPCs, lock, unlock,
     handlerVars, TypeOK
<1>2. idle' \in Seq(Handlers) /\ running' \in SUBSET Handlers
      /\ call' \in [{Listener} -> Pool!CallStates]
  <2>1. CASE FinishHandler(h)
    BY <1>0, <2>1, AppendFacts DEF FinishHandler, Pool!Finish, TypeOK
  <2>2. CASE ~FinishHandler(h)
    BY <1>0, <2>2 DEF HandlerNext, HandlerMeetsClient, LockAccept, InterruptedBefore,
       NotInterrupted, AcceptFails, InterruptedAfter, AcceptThrows, Serve, Flush,
       AcceptConnection, AcceptErrs, RequestEnds, RequestThrows, HandlerMoves, poolVars, TypeOK
  <2>3. QED
    BY <2>1, <2>2
<1>3. QED
  BY <1>0, <1>1, <1>2, HandlerFrame DEF TypeOK

(* The invariant of every use is kept by every step. *)
LEMMA TypeStep ==
  ASSUME TypeInv, [Next]_vars
  PROVE  TypeInv'
<1> USE SocketListenerAssumption
<1>0. TypeOK /\ RoomInv /\ BusyInv /\ (lpc = "queue" => m_acceptHandlers # 0)
  BY DEF TypeInv
<1>1. TypeOK'
  <2>1. CASE UNCHANGED vars
    BY <1>0, <2>1 DEF vars, poolVars, flagVars, handlerVars, setupVars, socketVars, callerVars,
                      TypeOK
  <2>2. QED
    BY <2>1, StepCases, CallerTypeStep, ListenerTypeStep, HandlerTypeStep
<1>2. RoomInv'
  <2>1. CASE UNCHANGED <<cpc, sockets>>
    BY <1>0, <2>1 DEF RoomInv
  <2>2. ASSUME NEW c \in Callers, CallerCalls(c) \/ CallerNext(c)
        PROVE  RoomInv'
    <3>1. cpc' = [cpc EXCEPT ![c] = cpc'[c]] /\ \A d \in Callers \ {c} : cpc'[d] = cpc[d]
      BY <1>0, <2>2, CallerMove
    <3>2. ASSUME cpc'[c] \notin ConnectingPCs, sockets' = sockets
          PROVE  RoomInv'
      BY <1>0, <3>1, <3>2 DEF RoomInv
    <3>3. CASE CallRuntimeStart(c) \/ CallRuntimeRun(c)
      <4>1. /\ Len(sockets) < MaxSockets /\ sockets' = sockets
            /\ \A d \in Callers \ {c} : cpc[d] \in {"idle", "r_run"}
        BY <1>0, <3>3 DEF CallRuntimeStart, CallRuntimeRun, MayStart, OthersIn, CallerMoves,
                          socketVars
      <4>2. QED
        BY <1>0, <3>1, <4>1 DEF RoomInv, ConnectingPCs, TypeOK
    <3>4. CASE ConnectForStart(c) \/ ConnectForRun(c) \/ ConnectThrows(c)
      <4>1. cpc[c] \in ConnectingPCs /\ cpc'[c] \notin ConnectingPCs
        BY <1>0, <3>4 DEF ConnectForStart, ConnectForRun, Connect, ConnectThrows, CallerStep,
                          ConnectingPCs, TypeOK
      <4>2. \A d \in Callers : cpc'[d] \notin ConnectingPCs
        BY <1>0, <3>1, <4>1 DEF RoomInv
      <4>3. QED
        BY <4>2 DEF RoomInv
    <3>5. CASE ShutSocket(c) \/ CloseSocket(c)
      <4>1. \A d \in Callers : cpc'[d] \in ConnectingPCs => cpc[d] \in ConnectingPCs
        BY <1>0, <3>1, <3>5 DEF ShutSocket, CloseSocket, CallerStep, ConnectingPCs, TypeOK
      <4>2. Len(sockets') = Len(sockets)
        <5>1. DOMAIN sockets' = DOMAIN sockets
          BY <3>5 DEF ShutSocket, CloseSocket
        <5>2. sockets \in Seq(SocketStates) /\ sockets' \in Seq(SocketStates)
          BY <1>0, <1>1 DEF TypeOK
        <5>3. QED
          BY <5>1, <5>2
      <4>3. QED
        BY <1>0, <4>1, <4>2 DEF RoomInv
    <3>6. CASE \/ CallShutdown(c) \/ StartThread(c) \/ StartThrows(c) \/ WaitForStartup(c)
               \/ StartReturn(c) \/ RunReturn(c) \/ StopKeepRunning(c) \/ InterruptEarlier(c)
               \/ InterruptHandler(c) \/ InterruptedAll(c) \/ AwaitStopped(c) \/ ShutdownReturn(c)
      BY <1>0, <3>2, <3>6 DEF CallShutdown, StartThread, StartThrows, WaitForStartup, StartReturn,
         RunReturn, StopKeepRunning, InterruptEarlier, InterruptHandler, InterruptedAll, AwaitStopped,
         ShutdownReturn, CallerMoves, CallerStep, ConnectingPCs, socketVars, TypeOK
    <3>7. QED
      BY <2>2, <3>3, <3>4, <3>5, <3>6 DEF CallerCalls, CallerNext
  <2>3. QED
    BY <2>1, <2>2, StepCases, ListenerFrame, HandlerFrame DEF vars, callerVars, socketVars
<1>3. BusyInv'
  <2>1. CASE UNCHANGED <<running, hpc>>
    BY <1>0, <2>1 DEF BusyInv
  <2>2. CASE StartHandler
    <3>1. /\ Head(idle) \in Handlers /\ running' = running \cup {Head(idle)}
          /\ hpc' = [hpc EXCEPT ![Head(idle)] = "lock"]
      BY <1>0, <2>2, TailFacts DEF StartHandler, Pool!Dispatch, TypeOK
    <3>2. QED
      BY <1>0, <3>1 DEF BusyInv, TypeOK
  <2>3. ASSUME NEW h \in Handlers, FinishHandler(h)
        PROVE  BusyInv'
    BY <1>0, <2>3 DEF FinishHandler, HandlerStep, Pool!Finish, BusyInv, TypeOK
  <2>4. ASSUME NEW h \in Handlers,
               \/ LockAccept(h) \/ InterruptedBefore(h) \/ NotInterrupted(h) \/ AcceptFails(h)
               \/ InterruptedAfter(h) \/ AcceptThrows(h) \/ Serve(h) \/ Flush(h)
               \/ HandlerMeetsClient(h)
        PROVE  BusyInv'
    BY <1>0, <2>4 DEF LockAccept, InterruptedBefore, NotInterrupted, AcceptFails,
       InterruptedAfter, AcceptThrows, Serve, Flush, HandlerMeetsClient, AcceptConnection,
       AcceptErrs, RequestEnds, RequestThrows, HandlerMoves, HandlerStep, poolVars, handlerVars,
       BusyInv, TypeOK
  <2>5. CASE ListenerNext
    BY <2>1, <2>2, <2>5 DEF ListenerNext, SetRunning, SetKeepRunning, CreateHandler, QueueHandler,
       SetListening, LoopContinues, StartedHandler, LoopEnds, JoinHandlers, DeleteQueue,
       ResetListening, ResetRunning, Pool!Register, Pool!CallStart, Pool!CallJoin, Pool!Join,
       Pool!Return, poolVars, handlerVars
  <2>6. QED
    BY <2>1, <2>3, <2>4, <2>5, StepCases, CallerFrame
       DEF HandlerNext, vars, poolVars, handlerVars
<1>4. (lpc = "queue" => m_acceptHandlers # 0)'
  <2>1. CASE UNCHANGED <<lpc, m_acceptHandlers>>
    BY <1>0, <2>1
  <2>2. CASE ListenerNext
    BY <1>0, <2>2 DEF ListenerNext, SetRunning, SetKeepRunning, CreateHandler, QueueHandler,
       SetListening, LoopContinues, StartHandler, StartedHandler, LoopEnds, JoinHandlers,
       DeleteQueue, ResetListening, ResetRunning, ListenerStep, Handlers, TypeOK
  <2>3. ASSUME NEW c \in Callers, CallerCalls(c) \/ CallerNext(c)
        PROVE  lpc' \in {lpc, "begin"}
    BY <2>3 DEF CallerCalls, CallerNext, CallRuntimeStart, CallRuntimeRun, CallShutdown,
       ConnectForStart, ConnectForRun, ConnectThrows, StartThread, StartThrows, WaitForStartup,
       StartReturn, RunReturn, StopKeepRunning, InterruptEarlier, InterruptHandler, InterruptedAll,
       ShutSocket, CloseSocket, AwaitStopped, ShutdownReturn, CallerMoves
  <2>4. QED
    BY <1>0, <2>1, <2>2, <2>3, StepCases, CallerFrame, HandlerFrame DEF vars, setupVars
<1>5. QED
  BY <1>1, <1>2, <1>3, <1>4 DEF TypeInv

-----------------------------------------------------------------------------
(* What holds when the server is started and shut down in turn is kept by    *)
(* every step of such a use.                                                *)

(* A call under way goes on as what it is, or returns. *)
LEMMA CallGoesOn ==
  ASSUME TypeOK, NEW c \in Callers, CallerNext(c)
  PROVE  \/ cpc[c] \in StartPCs /\ cpc'[c] \in StartPCs \cup {"idle"}
         \/ cpc[c] = "r_connect" /\ cpc'[c] \in {"r_run", "idle"}
         \/ cpc[c] = "r_run" /\ cpc'[c] = "idle"
         \/ cpc[c] \in ShutdownPCs /\ cpc'[c] \in ShutdownPCs \cup {"idle"}
<1> USE DEF CallerMoves, CallerStep, TypeOK, StartPCs, ShutdownPCs
<1>1. CASE ConnectForStart(c) \/ ConnectForRun(c) \/ ConnectThrows(c)
  BY <1>1 DEF ConnectForStart, ConnectForRun, Connect, ConnectThrows
<1>2. CASE StartThread(c) \/ StartThrows(c) \/ WaitForStartup(c) \/ StartReturn(c) \/ RunReturn(c)
  BY <1>2 DEF StartThread, StartThrows, WaitForStartup, StartReturn, RunReturn
<1>3. CASE StopKeepRunning(c) \/ InterruptEarlier(c) \/ InterruptHandler(c) \/ InterruptedAll(c)
  BY <1>3 DEF StopKeepRunning, InterruptEarlier, InterruptHandler, InterruptedAll
<1>4. CASE ShutSocket(c) \/ CloseSocket(c) \/ AwaitStopped(c) \/ ShutdownReturn(c)
  BY <1>4 DEF ShutSocket, CloseSocket, AwaitStopped, ShutdownReturn
<1>5. QED
  BY <1>1, <1>2, <1>3, <1>4 DEF CallerNext

(* Calls do not overlap. *)
LEMMA CallerStepKept ==
  ASSUME ~EarlyShutdown, ~SecondStart, IInv, [Next]_vars
  PROVE  CallerInv'
<1>0. TypeOK /\ CallerInv
  BY DEF IInv, TypeInv
<1>1. CASE cpc' = cpc
  BY <1>0, <1>1 DEF CallerInv
<1>2. ASSUME NEW c \in Callers, CallerCalls(c) \/ CallerNext(c)
      PROVE  CallerInv'
  <2>1. \A d \in Callers \ {c} : cpc'[d] = cpc[d]
    BY <1>0, <1>2, CallerMove
  <2>2. CASE CallerCalls(c)
    <3>1. CASE CallRuntimeStart(c) \/ CallRuntimeRun(c)
      <4>1. /\ \A d \in Callers \ {c} : cpc[d] = "idle"
            /\ cpc'[c] \in {"s_connect", "r_connect"}
        BY <1>0, <3>1 DEF CallRuntimeStart, CallRuntimeRun, MayStart, OthersIn, CallerMoves,
                          CallerStep, TypeOK
      <4>2. QED
        BY <2>1, <4>1 DEF CallerInv, StartPCs, ShutdownPCs
    <3>2. CASE CallShutdown(c)
      <4>1. (\A d \in Callers \ {c} : cpc[d] \in {"idle", "r_run"}) /\ cpc'[c] = "x_keep"
        BY <1>0, <3>2 DEF CallShutdown, MayShutdown, OthersIn, CallerMoves, CallerStep, TypeOK
      <4>2. QED
        BY <1>0, <2>1, <4>1 DEF CallerInv, StartPCs, ShutdownPCs
    <3>3. QED
      BY <2>2, <3>1, <3>2 DEF CallerCalls
  <2>3. CASE CallerNext(c)
    <3>1. CASE cpc[c] \in StartPCs /\ cpc'[c] \in StartPCs \cup {"idle"}
      BY <1>0, <2>1, <3>1 DEF CallerInv, StartPCs, ShutdownPCs
    <3>2. CASE cpc[c] = "r_connect" /\ cpc'[c] \in {"r_run", "idle"}
      BY <1>0, <2>1, <3>2 DEF CallerInv, StartPCs, ShutdownPCs
    <3>3. CASE cpc[c] = "r_run" /\ cpc'[c] = "idle"
      BY <1>0, <2>1, <3>3 DEF CallerInv, StartPCs, ShutdownPCs
    <3>4. CASE cpc[c] \in ShutdownPCs /\ cpc'[c] \in ShutdownPCs \cup {"idle"}
      BY <1>0, <2>1, <3>4 DEF CallerInv, StartPCs, ShutdownPCs
    <3>5. QED
      BY <1>0, <2>3, <3>1, <3>2, <3>3, <3>4, CallGoesOn
  <2>4. QED
    BY <1>2, <2>2, <2>3
<1>3. QED
  BY <1>1, <1>2, StepCases, ListenerFrame, HandlerFrame DEF vars, callerVars

(* While one caller starts the server no other is in a call, and while one  *)
(* shuts it down no other starts it or shuts it down.                       *)
LEMMA Alone ==
  ASSUME CallerInv, NEW c \in Callers
  PROVE  /\ cpc[c] \in StartPCs \cup {"r_connect"} => \A d \in Callers \ {c} : cpc[d] = "idle"
         /\ cpc[c] \in ShutdownPCs => \A d \in Callers \ {c} : cpc[d] \in {"idle", "r_run"}
BY DEF CallerInv, StartPCs, ShutdownPCs

(* A caller finds the listener in its loop when it listens and no other     *)
(* caller stops it.                                                         *)
LEMMA LoopsUnlessStopped ==
  ASSUME IInv, m_bIsListening, ~CallerIn(StoppingPCs)
  PROVE  lpc \in LoopPCs /\ m_bKeepRunning
BY DEF IInv, FlagInv, PhaseInv, ListeningPCs, LoopPCs

(* The flags tell where the listener's thread is. *)
LEMMA FlagStep ==
  ASSUME ~EarlyShutdown, ~SecondStart, IInv, [Next]_vars
  PROVE  FlagInv'
<1> USE DEF LoopPCs, SetupPCs, ListeningPCs
<1>0. TypeOK /\ FlagInv /\ PhaseInv
  BY DEF IInv, TypeInv
<1>1. ASSUME UNCHANGED <<m_bIsRunning, m_bKeepRunning, m_bIsListening, lpc>>
      PROVE  FlagInv'
  BY <1>0, <1>1 DEF FlagInv
<1>2. ASSUME NEW c \in Callers, CallerCalls(c) \/ CallerNext(c)
      PROVE  FlagInv'
  <2>1. CASE ConnectForRun(c) \/ StartThread(c)
    <3>1. lpc = "none" /\ lpc' = "begin" /\ UNCHANGED flagVars
      BY <1>0, <2>1 DEF ConnectForRun, Connect, StartThread, CallerStep, PhaseInv, CallerIn
    <3>2. QED
      BY <1>0, <3>1 DEF FlagInv, flagVars
  <2>2. CASE StopKeepRunning(c)
    <3>1. lpc \in LoopPCs
      BY <1>0, <2>2 DEF StopKeepRunning, CallerStep, PhaseInv, CallerIn
    <3>2. QED
      BY <1>0, <2>2, <3>1 DEF StopKeepRunning, FlagInv
  <2>3. CASE \/ CallerCalls(c) \/ ConnectForStart(c) \/ ConnectThrows(c) \/ StartThrows(c)
             \/ WaitForStartup(c) \/ StartReturn(c) \/ RunReturn(c) \/ InterruptEarlier(c)
             \/ InterruptHandler(c) \/ InterruptedAll(c) \/ ShutSocket(c) \/ CloseSocket(c)
             \/ AwaitStopped(c) \/ ShutdownReturn(c)
    BY <1>1, <2>3 DEF CallerCalls, CallRuntimeStart, CallRuntimeRun, CallShutdown, ConnectForStart,
       Connect, ConnectThrows, StartThrows, WaitForStartup, StartReturn, RunReturn,
       InterruptEarlier, InterruptHandler, InterruptedAll, ShutSocket, CloseSocket, AwaitStopped,
       ShutdownReturn, CallerMoves, flagVars
  <2>4. QED
    BY <1>2, <2>1, <2>2, <2>3 DEF CallerNext
<1>3. CASE ListenerNext
  BY <1>0, <1>3 DEF ListenerNext, SetRunning, SetKeepRunning, CreateHandler, QueueHandler,
     SetListening, LoopContinues, StartHandler, StartedHandler, LoopEnds, JoinHandlers,
     DeleteQueue, ResetListening, ResetRunning, ListenerStep, flagVars, FlagInv, TypeOK
<1>4. CASE UNCHANGED vars
  BY <1>1, <1>4 DEF vars, flagVars
<1>5. QED
  BY <1>1, <1>2, <1>3, <1>4, StepCases, HandlerFrame

(* The listener's thread and the calls go through their phases together. *)
LEMMA PhaseStep ==
  ASSUME ~EarlyShutdown, ~SecondStart, IInv, [Next]_vars
  PROVE  PhaseInv'
<1> USE DEF LoopPCs, SetupPCs, ListeningPCs, StoppingPCs, CallerIn
<1>0. TypeOK /\ CallerInv /\ FlagInv /\ PhaseInv
  BY DEF IInv, TypeInv
<1>1. ASSUME UNCHANGED <<m_bKeepRunning, cpc, lpc>>
      PROVE  PhaseInv'
  BY <1>0, <1>1 DEF PhaseInv
<1>2. ASSUME NEW c \in Callers, CallerCalls(c) \/ CallerNext(c)
      PROVE  PhaseInv'
  <2>0. \A d \in Callers \ {c} : cpc'[d] = cpc[d]
    BY <1>0, <1>2, CallerMove
  <2>1. CASE CallRuntimeStart(c) \/ CallRuntimeRun(c)
    <3>1. /\ lpc = "none" /\ UNCHANGED <<lpc, m_bKeepRunning>>
          /\ cpc[c] = "idle" /\ cpc'[c] \in {"s_connect", "r_connect"}
      BY <1>0, <2>1 DEF CallRuntimeStart, CallRuntimeRun, MayStart, CallerMoves, CallerStep,
                        flagVars, TypeOK
    <3>2. QED
      BY <1>0, <2>0, <3>1 DEF PhaseInv, ShutdownPCs
  <2>2. CASE CallShutdown(c)
    <3>1. /\ m_bIsListening /\ \A d \in Callers \ {c} : cpc[d] \in {"idle", "r_run"}
          /\ cpc[c] = "idle" /\ cpc'[c] = "x_keep" /\ UNCHANGED <<lpc, m_bKeepRunning>>
      BY <1>0, <2>2 DEF CallShutdown, MayShutdown, OthersIn, CallerMoves, CallerStep, flagVars,
                        TypeOK
    <3>2. lpc \in LoopPCs /\ m_bKeepRunning
      BY <3>1, LoopsUnlessStopped
    <3>3. QED
      BY <2>0, <3>1, <3>2 DEF PhaseInv, ShutdownPCs
  <2>3. CASE ConnectForStart(c) \/ ConnectThrows(c) \/ StartThrows(c) \/ StartReturn(c)
             \/ RunReturn(c)
    <3>1. /\ UNCHANGED <<lpc, m_bKeepRunning>> /\ cpc[c] \notin ShutdownPCs
          /\ cpc'[c] = "idle" \/ (cpc[c] = "s_connect" /\ cpc'[c] = "s_test")
      <4>1. CASE ConnectForStart(c) \/ ConnectThrows(c)
        BY <1>0, <4>1 DEF ConnectForStart, Connect, ConnectThrows, CallerStep, flagVars,
                          ShutdownPCs, TypeOK
      <4>2. CASE StartThrows(c) \/ StartReturn(c) \/ RunReturn(c)
        BY <1>0, <4>2 DEF StartThrows, StartReturn, RunReturn, CallerMoves, CallerStep, flagVars,
                          ShutdownPCs, TypeOK
      <4>3. QED
        BY <2>3, <4>1, <4>2
    <3>2. QED
      BY <1>0, <2>0, <3>1 DEF PhaseInv, ShutdownPCs
  <2>4. CASE ConnectForRun(c) \/ StartThread(c)
    <3>1. /\ lpc' = "begin" /\ UNCHANGED m_bKeepRunning
          /\ cpc[c] \in {"r_connect", "s_test"} /\ cpc'[c] \in {"r_run", "s_wait"}
      BY <1>0, <2>4 DEF ConnectForRun, Connect, StartThread, CallerStep, flagVars, TypeOK
    <3>2. \A d \in Callers \ {c} : cpc[d] = "idle"
      BY <1>0, <3>1, Alone DEF StartPCs
    <3>3. QED
      BY <2>0, <3>1, <3>2 DEF PhaseInv, ShutdownPCs
  <2>5. CASE WaitForStartup(c)
    <3>1. /\ UNCHANGED <<lpc, m_bKeepRunning>> /\ m_bIsListening
          /\ cpc[c] = "s_wait" /\ cpc'[c] = "s_done"
      BY <1>0, <2>5 DEF WaitForStartup, CallerMoves, CallerStep, flagVars, TypeOK
    <3>2. \A d \in Callers \ {c} : cpc[d] = "idle"
      BY <1>0, <3>1, Alone DEF StartPCs
    <3>3. lpc \in LoopPCs /\ m_bKeepRunning
      BY <3>1, <3>2, LoopsUnlessStopped
    <3>4. QED
      BY <2>0, <3>1, <3>2, <3>3 DEF PhaseInv, ShutdownPCs
  <2>6. CASE StopKeepRunning(c)
    <3>1. /\ UNCHANGED lpc /\ ~m_bKeepRunning'
          /\ cpc[c] = "x_keep" /\ cpc'[c] = "x_handlers"
      BY <1>0, <2>6 DEF StopKeepRunning, CallerStep, TypeOK
    <3>2. \A d \in Callers \ {c} : cpc[d] \in {"idle", "r_run"}
      BY <1>0, <3>1, Alone DEF ShutdownPCs
    <3>3. QED
      BY <1>0, <2>0, <3>1, <3>2 DEF PhaseInv, ShutdownPCs
  <2>7. CASE InterruptEarlier(c) \/ InterruptHandler(c) \/ InterruptedAll(c) \/ ShutSocket(c)
             \/ CloseSocket(c)
    <3>1. /\ UNCHANGED <<lpc, m_bKeepRunning>>
          /\ cpc[c] \in StoppingPCs /\ cpc'[c] \in StoppingPCs
      BY <1>0, <2>7 DEF InterruptEarlier, InterruptHandler, InterruptedAll, ShutSocket, CloseSocket,
                        CallerStep, flagVars, TypeOK
    <3>2. QED
      BY <1>0, <2>0, <3>1 DEF PhaseInv, ShutdownPCs
  <2>8. CASE AwaitStopped(c)
    <3>1. /\ UNCHANGED <<lpc, m_bKeepRunning>> /\ ~m_bIsRunning
          /\ cpc[c] = "x_wait" /\ cpc'[c] = "x_done"
      BY <1>0, <2>8 DEF AwaitStopped, CallerMoves, CallerStep, flagVars, TypeOK
    <3>2. lpc = "none"
      BY <1>0, <3>1 DEF FlagInv, PhaseInv, ShutdownPCs
    <3>3. QED
      BY <1>0, <2>0, <3>1, <3>2 DEF PhaseInv, ShutdownPCs
  <2>9. CASE ShutdownReturn(c)
    <3>1. /\ UNCHANGED <<lpc, m_bKeepRunning>> /\ cpc[c] = "x_done" /\ cpc'[c] = "idle"
      BY <1>0, <2>9 DEF ShutdownReturn, CallerMoves, CallerStep, flagVars, TypeOK
    <3>2. QED
      BY <1>0, <2>0, <3>1 DEF PhaseInv, ShutdownPCs
  <2>10. QED
    BY <1>2, <2>1, <2>2, <2>3, <2>4, <2>5, <2>6, <2>7, <2>8, <2>9 DEF CallerCalls, CallerNext
<1>3. CASE ListenerNext
  <2>0. cpc' = cpc
    BY <1>3, ListenerFrame
  <2>1. CASE SetRunning \/ CreateHandler \/ QueueHandler \/ SetListening
    BY <1>0, <2>0, <2>1 DEF SetRunning, CreateHandler, QueueHandler, SetListening, ListenerStep,
       flagVars, PhaseInv, FlagInv, ShutdownPCs
  <2>2. CASE SetKeepRunning
    BY <1>0, <2>0, <2>2 DEF SetKeepRunning, ListenerStep, PhaseInv, ShutdownPCs
  <2>3. CASE LoopContinues \/ StartHandler \/ StartedHandler
    BY <1>0, <2>0, <2>3 DEF LoopContinues, StartHandler, StartedHandler, ListenerStep, flagVars,
       PhaseInv, ShutdownPCs
  <2>4. CASE LoopEnds
    <3>1. lpc = "loop" /\ lpc' = "join" /\ ~m_bKeepRunning /\ UNCHANGED m_bKeepRunning
      BY <2>4 DEF LoopEnds, ListenerStep, flagVars
    <3>2. PICK d \in Callers : cpc[d] \in StoppingPCs
      BY <1>0, <3>1 DEF PhaseInv
    <3>3. \A c \in Callers : cpc[c] \notin {"s_done", "x_keep", "x_done"}
      BY <1>0, <3>1, <3>2, Alone DEF ShutdownPCs, PhaseInv
    <3>4. QED
      BY <1>0, <2>0, <3>1, <3>3 DEF PhaseInv, ShutdownPCs
  <2>5. CASE JoinHandlers \/ DeleteQueue \/ ResetListening \/ ResetRunning
    BY <1>0, <2>0, <2>5 DEF JoinHandlers, DeleteQueue, ResetListening, ResetRunning, ListenerStep,
       flagVars, PhaseInv, ShutdownPCs
  <2>6. QED
    BY <1>3, <2>1, <2>2, <2>3, <2>4, <2>5 DEF ListenerNext
<1>4. CASE UNCHANGED vars
  BY <1>1, <1>4 DEF vars, flagVars, callerVars
<1>5. QED
  BY <1>1, <1>2, <1>3, <1>4, StepCases, HandlerFrame

(* Handlers are created before they run, and interrupted by shutdown() only. *)
LEMMA HandlersStep ==
  ASSUME ~EarlyShutdown, ~SecondStart, IInv, [Next]_vars
  PROVE  HandlerInv'
<1> USE SocketListenerAssumption
    DEF LoopPCs, SetupPCs, ListeningPCs, StoppingPCs, ShutdownPCs, CallerIn, Handlers
<1>0. TypeOK /\ BusyInv /\ CallerInv /\ FlagInv /\ PhaseInv /\ HandlerInv
  BY DEF IInv, TypeInv
<1>1. ASSUME UNCHANGED <<m_bInterrupted, earlier, m_acceptHandlers, m_socketInfo, SocketDescriptor,
                         cpc, at, hpc, lpc>>
      PROVE  HandlerInv'
  BY <1>0, <1>1 DEF HandlerInv
<1>2. ASSUME NEW c \in Callers, CallerCalls(c) \/ CallerNext(c)
      PROVE  HandlerInv'
  <2>0. /\ \A d \in Callers \ {c} : cpc'[d] = cpc[d]
        /\ UNCHANGED <<hpc, earlier, m_acceptHandlers, m_socketInfo>>
    BY <1>0, <1>2, CallerMove, CallerFrame
  <2>1. CASE CallRuntimeStart(c) \/ CallRuntimeRun(c) \/ StartThrows(c) \/ StartReturn(c)
             \/ RunReturn(c) \/ WaitForStartup(c)
    <3>1. /\ UNCHANGED <<lpc, at, m_bInterrupted, SocketDescriptor>>
          /\ cpc[c] \notin ShutdownPCs /\ cpc'[c] \notin ShutdownPCs
      BY <1>0, <2>1 DEF CallRuntimeStart, CallRuntimeRun, StartThrows, StartReturn, RunReturn,
                        WaitForStartup, CallerMoves, CallerStep, socketVars, TypeOK
    <3>2. QED
      BY <1>0, <2>0, <3>1 DEF HandlerInv
  <2>2. CASE ConnectForStart(c) \/ ConnectThrows(c) \/ ConnectForRun(c) \/ StartThread(c)
    <3>1. /\ UNCHANGED <<at, m_bInterrupted>> /\ lpc = "none" /\ lpc' \in {"none", "begin"}
          /\ cpc[c] \notin ShutdownPCs /\ cpc'[c] \notin ShutdownPCs
      BY <1>0, <2>2 DEF ConnectForStart, Connect, ConnectThrows, ConnectForRun, StartThread,
                        CallerStep, PhaseInv, TypeOK
    <3>2. QED
      BY <1>0, <2>0, <3>1 DEF HandlerInv
  <2>3. CASE CallShutdown(c)
    <3>1. /\ UNCHANGED <<lpc, at, m_bInterrupted, SocketDescriptor>> /\ m_bIsListening
          /\ cpc[c] = "idle" /\ cpc'[c] = "x_keep"
      BY <1>0, <2>3 DEF CallShutdown, MayShutdown, CallerMoves, CallerStep, socketVars, TypeOK
    <3>2. m_acceptHandlers = NumThreads
      BY <1>0, <3>1 DEF FlagInv, HandlerInv
    <3>3. QED
      BY <1>0, <2>0, <3>1, <3>2 DEF HandlerInv
  <2>4. CASE StopKeepRunning(c)
    <3>1. /\ UNCHANGED <<lpc, m_bInterrupted, SocketDescriptor>> /\ at' = [at EXCEPT ![c] = 1]
          /\ cpc[c] = "x_keep" /\ cpc'[c] = "x_handlers"
      BY <1>0, <2>4 DEF StopKeepRunning, CallerStep, socketVars, TypeOK
    <3>2. at'[c] = 1 /\ \A d \in Callers \ {c} : at'[d] = at[d]
      BY <1>0, <3>1 DEF TypeOK
    <3>3. \A d \in Callers, h \in Handlers :
            cpc'[d] = "x_handlers" /\ earlier' + h < at'[d] => m_bInterrupted'[h]
      BY <1>0, <2>0, <3>1, <3>2 DEF HandlerInv, TypeOK
    <3>4. QED
      BY <1>0, <2>0, <3>1, <3>3 DEF HandlerInv
  <2>5. CASE InterruptEarlier(c)
    <3>1. /\ UNCHANGED <<lpc, cpc, SocketDescriptor, m_bInterrupted>> /\ at[c] <= earlier
          /\ at' = [at EXCEPT ![c] = @ + 1]
      BY <2>5 DEF InterruptEarlier, socketVars
    <3>2. \A d \in Callers, h \in Handlers : earlier + h < at'[d] => earlier + h < at[d]
      BY <1>0, <3>1 DEF TypeOK
    <3>3. QED
      BY <1>0, <2>0, <3>1, <3>2 DEF HandlerInv
  <2>6. CASE InterruptHandler(c)
    <3>1. PICK k : k = at[c] - earlier
      OBVIOUS
    <3>2. /\ UNCHANGED <<lpc, cpc, SocketDescriptor>> /\ cpc[c] = "x_handlers"
          /\ 0 < k /\ k <= m_acceptHandlers
          /\ at' = [at EXCEPT ![c] = @ + 1]
          /\ m_bInterrupted' = [m_bInterrupted EXCEPT ![k] = TRUE]
      BY <2>6, <3>1 DEF InterruptHandler, socketVars
    <3>3. /\ k \in Handlers /\ at[c] = earlier + k /\ at'[c] = at[c] + 1
          /\ \A d \in Callers \ {c} : at'[d] = at[d]
      BY <1>0, <3>1, <3>2 DEF TypeOK
    <3>4. /\ m_bInterrupted'[k]
          /\ \A h \in Handlers : m_bInterrupted[h] => m_bInterrupted'[h]
      BY <1>0, <3>2, <3>3 DEF TypeOK
    <3>5. \A d \in Callers, h \in Handlers :
            cpc'[d] = "x_handlers" /\ earlier + h < at'[d] => m_bInterrupted'[h]
      <4>1. \A h \in Handlers : earlier + h < at'[c] => earlier + h < at[c] \/ h = k
        BY <1>0, <3>3 DEF TypeOK
      <4>2. QED
        BY <1>0, <3>2, <3>3, <3>4, <4>1 DEF HandlerInv
    <3>6. QED
      BY <1>0, <2>0, <3>2, <3>4, <3>5 DEF HandlerInv
  <2>7. CASE InterruptedAll(c)
    <3>1. /\ UNCHANGED <<lpc, m_bInterrupted, SocketDescriptor>> /\ at' = [at EXCEPT ![c] = 1]
          /\ cpc[c] = "x_handlers" /\ cpc'[c] = "x_shutdown" /\ at[c] > earlier + m_acceptHandlers
      BY <1>0, <2>7 DEF InterruptedAll, CallerStep, socketVars, TypeOK
    <3>2. at'[c] = 1 /\ \A d \in Callers \ {c} : at'[d] = at[d]
      BY <1>0, <3>1 DEF TypeOK
    <3>3. m_acceptHandlers = NumThreads /\ at[c] \in Nat /\ earlier \in Nat
      BY <1>0, <3>1 DEF HandlerInv, TypeOK
    <3>4. \A h \in Handlers : earlier + h < at[c]
      BY <3>1, <3>3
    <3>5. \A h \in Handlers : m_bInterrupted[h]
      BY <1>0, <3>1, <3>4 DEF HandlerInv
    <3>6. QED
      BY <1>0, <2>0, <3>1, <3>2, <3>5 DEF HandlerInv
  <2>8. CASE ShutSocket(c) \/ CloseSocket(c)
    <3>1. /\ UNCHANGED <<lpc, at, m_bInterrupted, SocketDescriptor>>
          /\ cpc[c] \in {"x_shutdown", "x_close"} /\ cpc'[c] \in {"x_close", "x_wait"}
      BY <1>0, <2>8 DEF ShutSocket, CloseSocket, CallerStep, TypeOK
    <3>2. QED
      BY <1>0, <2>0, <3>1 DEF HandlerInv
  <2>9. CASE AwaitStopped(c) \/ ShutdownReturn(c)
    <3>1. /\ UNCHANGED <<lpc, at, m_bInterrupted, SocketDescriptor>>
          /\ \/ cpc[c] = "x_wait" /\ ~m_bIsRunning
             \/ cpc[c] = "x_done"
          /\ cpc'[c] \in {"x_done", "idle"}
      BY <1>0, <2>9 DEF AwaitStopped, ShutdownReturn, CallerMoves, CallerStep, socketVars, TypeOK
    <3>2. lpc = "none"
      BY <1>0, <3>1 DEF FlagInv, PhaseInv
    <3>3. QED
      BY <1>0, <2>0, <3>1, <3>2 DEF HandlerInv
  <2>10. QED
    BY <1>2, <2>1, <2>2, <2>3, <2>4, <2>5, <2>6, <2>7, <2>8, <2>9 DEF CallerCalls, CallerNext
<1>3. CASE ListenerNext
  <2>0. UNCHANGED <<cpc, at, SocketDescriptor>>
    BY <1>3, ListenerFrame
  <2>1. CASE SetRunning \/ SetListening \/ LoopContinues \/ StartedHandler \/ LoopEnds
             \/ DeleteQueue \/ ResetListening \/ ResetRunning
    <3>1. UNCHANGED <<hpc, earlier, m_acceptHandlers, m_socketInfo, m_bInterrupted>>
      BY <2>1 DEF SetRunning, SetListening, LoopContinues, StartedHandler, LoopEnds, DeleteQueue,
                  ResetListening, ResetRunning, outsideVars, handlerVars, setupVars
    <3>2. \/ lpc = "begin" /\ lpc' = "keep"
          \/ lpc = "listen" /\ lpc' = "loop"
          \/ lpc = "loop" /\ lpc' = "start"
          \/ lpc = "started" /\ lpc' = "loop"
          \/ lpc = "loop" /\ lpc' = "join"
          \/ lpc = "joined" /\ lpc' = "end"
          \/ lpc = "end" /\ lpc' = "ended"
          \/ lpc = "ended" /\ lpc' = "none"
      BY <2>1 DEF SetRunning, SetListening, LoopContinues, StartedHandler, LoopEnds, DeleteQueue,
                  ResetListening, ResetRunning, ListenerStep
    <3>3. QED
      BY <1>0, <2>0, <3>1, <3>2 DEF HandlerInv
  <2>2. CASE SetKeepRunning
    <3>1. /\ lpc = "keep" /\ lpc' = "create" /\ m_acceptHandlers' = 0
          /\ UNCHANGED <<hpc, m_socketInfo, m_bInterrupted>>
      BY <2>2 DEF SetKeepRunning, ListenerStep, outsideVars
    <3>2. ~CallerIn(ShutdownPCs)
      BY <1>0, <3>1 DEF PhaseInv
    <3>3. QED
      BY <1>0, <2>0, <3>1, <3>2 DEF HandlerInv
  <2>3. CASE CreateHandler
    <3>1. /\ lpc = "create" /\ lpc' = "queue" /\ m_acceptHandlers' = m_acceptHandlers + 1
          /\ m_acceptHandlers + 1 \in Handlers
          /\ m_socketInfo' = [m_socketInfo EXCEPT ![m_acceptHandlers + 1] = SocketDescriptor]
          /\ m_bInterrupted' = [m_bInterrupted EXCEPT ![m_acceptHandlers + 1] = FALSE]
          /\ UNCHANGED <<hpc, earlier>>
      BY <2>3 DEF CreateHandler, ListenerStep, handlerVars
    <3>2. ~CallerIn(ShutdownPCs)
      BY <1>0, <3>1 DEF PhaseInv
    <3>3. \A h \in Handlers : h <= m_acceptHandlers' =>
            m_socketInfo'[h] = SocketDescriptor /\ ~m_bInterrupted'[h]
      BY <1>0, <3>1, <3>2 DEF HandlerInv, TypeOK
    <3>4. QED
      BY <1>0, <2>0, <3>1, <3>2, <3>3 DEF HandlerInv
  <2>4. CASE QueueHandler
    <3>1. /\ lpc = "queue"
          /\ \/ lpc' = "listen" /\ m_acceptHandlers = NumThreads
             \/ lpc' = "create"
          /\ UNCHANGED <<hpc, earlier, m_acceptHandlers, m_socketInfo, m_bInterrupted>>
      BY <2>4 DEF QueueHandler, ListenerStep, outsideVars, handlerVars, setupVars
    <3>2. QED
      BY <1>0, <2>0, <3>1 DEF HandlerInv
  <2>5. CASE StartHandler
    <3>1. /\ lpc = "start" /\ lpc' = "started"
          /\ UNCHANGED <<earlier, m_acceptHandlers, m_socketInfo, m_bInterrupted>>
      BY <2>5 DEF StartHandler, ListenerStep, outsideVars, setupVars
    <3>2. QED
      BY <1>0, <2>0, <3>1 DEF HandlerInv
  <2>6. CASE JoinHandlers
    <3>1. /\ lpc = "join" /\ lpc' = "joined" /\ running = {}
          /\ UNCHANGED <<hpc, earlier, m_acceptHandlers, m_socketInfo, m_bInterrupted>>
      BY <2>6 DEF JoinHandlers, ListenerStep, Pool!Join, outsideVars, handlerVars, setupVars
    <3>2. \A h \in Handlers : hpc[h] = "idle"
      BY <1>0, <3>1 DEF BusyInv
    <3>3. QED
      BY <1>0, <2>0, <3>1, <3>2 DEF HandlerInv
  <2>7. QED
    BY <1>3, <2>1, <2>2, <2>3, <2>4, <2>5, <2>6 DEF ListenerNext
<1>4. ASSUME NEW h \in Handlers, HandlerNext(h) \/ HandlerMeetsClient(h)
      PROVE  HandlerInv'
  <2>1. UNCHANGED <<m_bInterrupted, earlier, m_acceptHandlers, m_socketInfo, SocketDescriptor, cpc, at,
                    lpc>>
    BY <1>4, HandlerFrame
  <2>2. \A k \in Handlers : hpc'[k] # "idle" => hpc[k] # "idle"
    BY <1>0, <1>4 DEF HandlerNext, HandlerMeetsClient, LockAccept, InterruptedBefore,
       NotInterrupted, AcceptFails, InterruptedAfter, AcceptThrows, Serve, Flush, FinishHandler,
       AcceptConnection, AcceptErrs, RequestEnds, RequestThrows, HandlerMoves, HandlerStep,
       handlerVars, TypeOK
  <2>3. QED
    BY <1>0, <2>1, <2>2 DEF HandlerInv
<1>5. CASE UNCHANGED vars
  BY <1>1, <1>5 DEF vars, setupVars, socketVars, callerVars, handlerVars
<1>6. QED
  BY <1>1, <1>2, <1>3, <1>4, <1>5, StepCases

(* A socket listens from connect() to ::shutdown(), and is the listener's. *)
LEMMA SocketStep ==
  ASSUME ~EarlyShutdown, ~SecondStart, IInv, [Next]_vars
  PROVE  SocketInv'
<1> USE DEF ShutdownPCs, StartPCs, ShutPCs, CallerIn
<1>0. /\ TypeOK /\ CallerInv /\ FlagInv /\ PhaseInv /\ SocketInv
      /\ DOMAIN sockets = 1..Len(sockets) /\ Len(sockets) \in Nat
  BY DEF IInv, TypeInv, TypeOK
<1>1. ASSUME UNCHANGED <<SocketDescriptor, sockets, cpc, lpc>>
      PROVE  SocketInv'
  BY <1>0, <1>1 DEF SocketInv
<1>2. ASSUME NEW c \in Callers, CallerCalls(c) \/ CallerNext(c)
      PROVE  SocketInv'
  <2>0. \A d \in Callers \ {c} : cpc'[d] = cpc[d]
    BY <1>0, <1>2, CallerMove
  <2>1. CASE CallRuntimeStart(c) \/ CallRuntimeRun(c) \/ StartThrows(c) \/ StartReturn(c)
             \/ RunReturn(c) \/ WaitForStartup(c)
    <3>1. /\ UNCHANGED <<lpc, SocketDescriptor, sockets>>
          /\ cpc[c] \notin ShutdownPCs /\ cpc'[c] \notin {"s_test"} \cup ShutdownPCs
      BY <1>0, <2>1 DEF CallRuntimeStart, CallRuntimeRun, StartThrows, StartReturn, RunReturn,
                        WaitForStartup, CallerMoves, CallerStep, socketVars, TypeOK
    <3>2. QED
      BY <1>0, <2>0, <3>1 DEF SocketInv
  <2>2. CASE ConnectForStart(c) \/ ConnectForRun(c)
    <3>1. /\ \A s \in DOMAIN sockets : sockets[s] # "listening"
          /\ SocketDescriptor' = Len(sockets) + 1 /\ sockets' = Append(sockets, "listening")
          /\ cpc[c] \in {"s_connect", "r_connect"} /\ cpc'[c] \in {"s_test", "r_run"}
      BY <1>0, <2>2 DEF ConnectForStart, ConnectForRun, Connect, CallerStep, TypeOK
    <3>2. \A d \in Callers \ {c} : cpc[d] = "idle"
      BY <1>0, <3>1, Alone
    <3>3. /\ DOMAIN sockets' = 1..Len(sockets) + 1
          /\ sockets'[Len(sockets) + 1] = "listening"
          /\ \A s \in 1..Len(sockets) : sockets'[s] = sockets[s]
      BY <1>0, <3>1 DEF TypeOK
    <3>4. \A s \in DOMAIN sockets' : sockets'[s] = "listening" => s = SocketDescriptor'
      BY <1>0, <3>1, <3>3
    <3>5. SocketDescriptor' \in DOMAIN sockets' /\ sockets'[SocketDescriptor'] = "listening"
      BY <1>0, <3>1, <3>3
    <3>6. QED
      BY <2>0, <3>1, <3>2, <3>4, <3>5 DEF SocketInv
  <2>3. CASE ConnectThrows(c)
    <3>1. cpc[c] \in {"s_connect", "r_connect"} /\ cpc'[c] = "idle" /\ UNCHANGED lpc
      BY <1>0, <2>3 DEF ConnectThrows, CallerStep, TypeOK
    <3>2. lpc = "none" /\ \A d \in Callers \ {c} : cpc[d] = "idle"
      BY <1>0, <3>1, Alone DEF PhaseInv
    <3>3. QED
      BY <2>0, <3>1, <3>2 DEF SocketInv
  <2>4. CASE StartThread(c)
    <3>1. /\ UNCHANGED <<SocketDescriptor, sockets>>
          /\ cpc[c] = "s_test" /\ cpc'[c] = "s_wait"
      BY <1>0, <2>4 DEF StartThread, CallerStep, socketVars, TypeOK
    <3>2. \A d \in Callers \ {c} : cpc[d] = "idle"
      BY <1>0, <3>1, Alone
    <3>3. QED
      BY <1>0, <2>0, <3>1, <3>2 DEF SocketInv
  <2>5. CASE CallShutdown(c)
    <3>1. /\ UNCHANGED <<lpc, SocketDescriptor, sockets>> /\ m_bIsListening
          /\ cpc[c] = "idle" /\ cpc'[c] = "x_keep"
      BY <1>0, <2>5 DEF CallShutdown, MayShutdown, CallerMoves, CallerStep, socketVars, TypeOK
    <3>2. lpc # "none"
      BY <1>0, <3>1 DEF FlagInv, ListeningPCs, LoopPCs
    <3>3. QED
      BY <1>0, <2>0, <3>1, <3>2 DEF SocketInv
  <2>6. CASE StopKeepRunning(c) \/ InterruptEarlier(c) \/ InterruptHandler(c) \/ InterruptedAll(c)
    <3>1. /\ UNCHANGED <<lpc, SocketDescriptor, sockets>>
          /\ cpc[c] \in ShutdownPCs \ ShutPCs /\ cpc'[c] \in ShutdownPCs \ ShutPCs
      BY <1>0, <2>6 DEF StopKeepRunning, InterruptEarlier, InterruptHandler, InterruptedAll,
                        CallerStep, socketVars, TypeOK
    <3>2. QED
      BY <1>0, <2>0, <3>1 DEF SocketInv
  <2>7. CASE ShutSocket(c) \/ CloseSocket(c)
    <3>1. /\ UNCHANGED <<lpc, SocketDescriptor>>
          /\ cpc[c] \in {"x_shutdown", "x_close"} /\ cpc'[c] \in {"x_close", "x_wait"}
          /\ DOMAIN sockets' = DOMAIN sockets
          /\ \A s \in DOMAIN sockets : /\ sockets'[s] = "listening" => sockets[s] = "listening"
                                       /\ s = SocketDescriptor => sockets'[s] # "listening"
      BY <1>0, <2>7 DEF ShutSocket, CloseSocket, CallerStep, TypeOK
    <3>2. \A d \in Callers \ {c} : cpc[d] \in {"idle", "r_run"}
      BY <1>0, <3>1, Alone
    <3>3. \A s \in DOMAIN sockets' : sockets'[s] # "listening"
      BY <1>0, <3>1 DEF SocketInv
    <3>4. QED
      BY <2>0, <3>1, <3>2, <3>3 DEF SocketInv
  <2>8. CASE AwaitStopped(c)
    <3>1. /\ UNCHANGED <<lpc, SocketDescriptor, sockets>>
          /\ cpc[c] = "x_wait" /\ cpc'[c] = "x_done"
      BY <1>0, <2>8 DEF AwaitStopped, CallerMoves, CallerStep, socketVars, TypeOK
    <3>2. QED
      BY <1>0, <2>0, <3>1 DEF SocketInv
  <2>9. CASE ShutdownReturn(c)
    <3>1. /\ UNCHANGED <<lpc, SocketDescriptor, sockets>>
          /\ cpc[c] = "x_done" /\ cpc'[c] = "idle"
      BY <1>0, <2>9 DEF ShutdownReturn, CallerMoves, CallerStep, socketVars, TypeOK
    <3>2. lpc = "none" /\ \A d \in Callers \ {c} : cpc[d] \in {"idle", "r_run"}
      BY <1>0, <3>1, Alone DEF PhaseInv
    <3>3. QED
      BY <2>0, <3>1, <3>2 DEF SocketInv
  <2>10. QED
    BY <1>2, <2>1, <2>2, <2>3, <2>4, <2>5, <2>6, <2>7, <2>8, <2>9 DEF CallerCalls, CallerNext
<1>3. CASE ListenerNext
  <2>1. lpc # "none" /\ UNCHANGED <<SocketDescriptor, sockets, cpc>>
    BY <1>3, ListenerFrame DEF ListenerNext, SetRunning, SetKeepRunning, CreateHandler,
       QueueHandler, SetListening, LoopContinues, StartHandler, StartedHandler, LoopEnds,
       JoinHandlers, DeleteQueue, ResetListening, ResetRunning, ListenerStep
  <2>2. QED
    BY <1>0, <2>1 DEF SocketInv
<1>4. CASE UNCHANGED vars
  BY <1>1, <1>4 DEF vars, socketVars, callerVars
<1>5. QED
  BY <1>1, <1>2, <1>3, <1>4, StepCases, HandlerFrame

(* A handler that finds its socket shut has been interrupted before. *)
LEMMA CleanStep ==
  ASSUME IInv, [Next]_vars
  PROVE  CleanShutdown'
<1>0. TypeOK /\ CallerInv /\ PhaseInv /\ HandlerInv /\ SocketInv /\ CleanShutdown
  BY DEF IInv, TypeInv
<1>1. ASSUME NEW h \in Handlers, AcceptThrows(h)
      PROVE  CleanShutdown'
  <2>1. hpc[h] # "idle" /\ ~m_bInterrupted[h]
    BY <1>1 DEF AcceptThrows
  <2>2. lpc \in LoopPCs \cup {"join"} /\ m_socketInfo[h] = SocketDescriptor
    BY <1>0, <2>1, SocketListenerAssumption DEF HandlerInv, ListeningPCs, LoopPCs, Handlers
  <2>3. ~CallerIn(ShutPCs)
    BY <1>0, <2>1, <2>2 DEF HandlerInv, PhaseInv, CallerIn, ShutPCs, LoopPCs
  <2>4. ListensOn(h)
    BY <1>0, <2>2, <2>3 DEF SocketInv, ListensOn, LoopPCs
  <2>5. QED
    BY <1>1, <2>4 DEF AcceptThrows, CleanShutdown
<1>2. ASSUME NEW h \in Handlers, HandlerNext(h) \/ HandlerMeetsClient(h), ~AcceptThrows(h)
      PROVE  CleanShutdown'
  BY <1>0, <1>2 DEF HandlerNext, HandlerMeetsClient, LockAccept, InterruptedBefore,
     NotInterrupted, AcceptFails, InterruptedAfter, Serve, Flush, FinishHandler,
     AcceptConnection, AcceptErrs, RequestEnds, RequestThrows, HandlerMoves, CleanShutdown
<1>3. QED
  BY <1>0, <1>1, <1>2, StepCases, CallerFrame, ListenerFrame DEF vars, CleanShutdown

-----------------------------------------------------------------------------
(* The initial states satisfy both. *)
LEMMA InitEstablishes ==
  ASSUME Init
  PROVE  IInv
<1> USE SocketListenerAssumption DEF Init, Pool!Init
<1>1. TypeOK
  <2>1. sockets \in Seq(SocketStates) /\ Len(sockets) = 0
    OBVIOUS
  <2>2. at \in [Callers -> 1..earlier + m_acceptHandlers + 1]
    <3>1. 1 \in 1..earlier + m_acceptHandlers + 1
      OBVIOUS
    <3>2. QED
      BY <3>1
  <2>3. call \in [{Listener} -> Pool!CallStates]
    BY DEF Pool!CallStates
  <2>4. /\ SocketDescriptor \in 0..Len(sockets) /\ Len(sockets) <= MaxSockets
        /\ m_socketInfo \in [Handlers -> 0..Len(sockets)]
    BY <2>1
  <2>5. idle \in Seq(Handlers) /\ running \in SUBSET Handlers
    OBVIOUS
  <2>6. /\ m_bInterrupted \in [Handlers -> BOOLEAN] /\ connected \in [Handlers -> BOOLEAN]
        /\ earlier \in Nat /\ m_acceptHandlers \in 0..NumThreads
    OBVIOUS
  <2>7. hpc \in [Handlers -> HandlerPCs] /\ lpc \in ListenerPCs
    BY DEF HandlerPCs, ListenerPCs
  <2>8. QED
    BY <2>1, <2>2, <2>3, <2>4, <2>5, <2>6, <2>7 DEF TypeOK
<1>2. TypeInv
  BY <1>1 DEF TypeInv, RoomInv, ConnectingPCs, BusyInv
<1>3. CallerInv
  BY DEF CallerInv, StartPCs, ShutdownPCs
<1>4. FlagInv /\ PhaseInv
  BY DEF FlagInv, PhaseInv, ListeningPCs, LoopPCs, SetupPCs, StoppingPCs, ShutdownPCs, CallerIn
<1>5. HandlerInv /\ SocketInv /\ CleanShutdown
  BY DEF HandlerInv, SocketInv, CleanShutdown, ListeningPCs, LoopPCs, SetupPCs, StoppingPCs,
         ShutPCs, ShutdownPCs, CallerIn
<1>6. QED
  BY <1>2, <1>3, <1>4, <1>5 DEF IInv

(* The types hold however the server is used, with shutdown() called while   *)
(* it comes up and start() called while it is up. *)
THEOREM TypeCorrect == Spec => []TypeOK
<1>1. Init => TypeInv
  BY InitEstablishes DEF IInv
<1>2. TypeInv /\ [Next]_vars => TypeInv'
  BY TypeStep
<1>3. TypeInv => TypeOK
  BY DEF TypeInv
<1>4. QED
  BY <1>1, <1>2, <1>3, PTL DEF Spec

(* The inductive invariant of a server that is started and shut down in turn. *)
THEOREM Invariance ==
  ASSUME ~EarlyShutdown, ~SecondStart
  PROVE  Spec => []IInv
<1>1. Init => IInv
  BY InitEstablishes
<1>2. IInv /\ [Next]_vars => IInv'
  <2>1. SUFFICES ASSUME IInv, [Next]_vars
                 PROVE  IInv'
    OBVIOUS
  <2>2. TypeInv'
    BY <2>1, TypeStep DEF IInv
  <2>3. CallerInv' /\ FlagInv' /\ PhaseInv' /\ HandlerInv' /\ SocketInv' /\ CleanShutdown'
    BY <2>1, CallerStepKept, FlagStep, PhaseStep, HandlersStep, SocketStep, CleanStep
  <2>4. QED
    BY <2>2, <2>3 DEF IInv
<1>3. QED
  BY <1>1, <1>2, PTL DEF Spec

(* shutdown() of a server ends no process: the handlers that its ::shutdown() *)
(* wakes have been interrupted before.                                        *)
THEOREM ShutdownIsClean ==
  ASSUME ~EarlyShutdown, ~SecondStart
  PROVE  Spec => []CleanShutdown
<1>1. IInv => CleanShutdown
  BY DEF IInv
<1>2. QED
  BY <1>1, Invariance, PTL

(* When start() returns every handler is there and the socket listens. *)
THEOREM StartIsComplete ==
  ASSUME ~EarlyShutdown, ~SecondStart
  PROVE  Spec => []StartMeansListening
<1>1. IInv => StartMeansListening
  <2>1. SUFFICES ASSUME IInv, NEW c \in Callers, cpc[c] = "s_done"
                 PROVE  /\ m_bIsListening /\ m_bKeepRunning
                        /\ m_acceptHandlers = NumThreads
                        /\ \A h \in Handlers : ListensOn(h) /\ ~m_bInterrupted[h]
    BY DEF StartMeansListening
  <2>2. CallerInv /\ FlagInv /\ PhaseInv /\ HandlerInv /\ SocketInv
    BY <2>1 DEF IInv
  <2>3. lpc \in LoopPCs
    BY <2>1, <2>2 DEF PhaseInv, CallerIn
  <2>4. ~CallerIn(ShutdownPCs)
    BY <2>1, <2>2, Alone DEF CallerIn, StartPCs, ShutdownPCs
  <2>5. ~CallerIn(StoppingPCs) /\ ~CallerIn(ShutPCs)
    BY <2>4 DEF CallerIn, StoppingPCs, ShutPCs, ShutdownPCs
  <2>6. m_bIsListening /\ m_bKeepRunning /\ m_acceptHandlers = NumThreads
    BY <2>2, <2>3, <2>5 DEF FlagInv, PhaseInv, HandlerInv, ListeningPCs
  <2>7. \A h \in Handlers : m_socketInfo[h] = SocketDescriptor /\ ~m_bInterrupted[h]
    BY <2>2, <2>3, <2>5, <2>6 DEF HandlerInv, ListeningPCs, Handlers
  <2>8. SocketDescriptor \in DOMAIN sockets /\ sockets[SocketDescriptor] = "listening"
    BY <2>2, <2>3, <2>5 DEF SocketInv, LoopPCs
  <2>9. QED
    BY <2>6, <2>7, <2>8 DEF ListensOn
<1>2. QED
  BY <1>1, Invariance, PTL

(* When shutdown() returns the listener's thread is gone and the port free. *)
THEOREM ShutdownIsComplete ==
  ASSUME ~EarlyShutdown, ~SecondStart
  PROVE  Spec => []ShutdownStops
<1>1. IInv => ShutdownStops
  BY DEF IInv, PhaseInv, SocketInv, ShutdownStops, CallerIn, ShutPCs
<1>2. QED
  BY <1>1, Invariance, PTL

=============================================================================

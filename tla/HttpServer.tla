------------------------------ MODULE HttpServer ------------------------------
(***************************************************************************)
(* A program that owns a C2SHttpServer: it creates the server, hands over  *)
(* the resource prototypes, starts and shuts down the server as in         *)
(* SocketListener, and deletes it.  Every step of SocketListener is taken  *)
(* together with what it does to the objects of HttpObjects: a handler     *)
(* that is created gets its data pull with clones of the resources, a      *)
(* connection a request, the end of a run() deletes what the handlers of   *)
(* the run() shared, and the destructors delete the rest one by one.       *)
(*                                                                         *)
(* The program of the REST tests is the model: its fixture owns the server *)
(* and a mutex that a method of its resource locks.  A test that calls     *)
(* run() does so on a C2STestServerThread.                                 *)
(***************************************************************************)
EXTENDS SocketListener, HttpObjects

CONSTANTS ServerThreads,  \* the callers that call run(); the others call start() and shutdown()
          HasBody         \* whether a request may have a body: a subset of BOOLEAN

ASSUME HttpServerAssumption ==
  ServerThreads \subseteq Callers /\ HasBody \subseteq BOOLEAN /\ HasBody # {}

VARIABLES
  heap,                        \* the objects that live
  ppc,                         \* what the program does with the server
  handed,                      \* how many of Resources it has handed over
  m_listOfResourcePrototypes,  \* those that the server's list holds
  isDown,                      \* FALSE from start() or run() until shutdown() has returned
  runs,                        \* how often C2SSocketListener::run() has been entered
  m_pthread,                   \* of the listener's thread: its last handle, 0 before; or NoThread
  todo                         \* what the destructors under way have still to do

lifeVars == <<heap, ppc, handed, m_listOfResourcePrototypes, isDown, runs, m_pthread, todo>>
programVars == <<ppc, handed, m_listOfResourcePrototypes, todo>>
allVars == <<vars, lifeVars>>

ProgramPCs == {"create", "register", "use", "delete", "gone"}

pGlobalMutex == C2STestRestFixture.pGlobalMutex

(* The program's resources are its own until the server has accepted them. *)
createResources ==
  {The("C2STestRestFixture"), pGlobalMutex} \cup
  UNION {NewResource(Shared, x) : x \in Range(Resources)}

Statics == {C2SLogBase.m_logPublication}

ServerInit ==
  /\ Init
  /\ heap = createResources \cup Statics
  /\ ppc = "create"
  /\ handed = 0
  /\ m_listOfResourcePrototypes = {}
  /\ isDown = TRUE
  /\ runs = 0
  /\ m_pthread = 0
  /\ todo = <<>>

(* The i-th handler of this run(). *)
Current(h) == <<runs, h>>

(* C2SSocketListener::m_acceptHandlers holds the handlers of every run(). *)
AcceptHandlers ==
  {Of("C2SSocketAcceptHandler", <<r, h>>) : r \in 1..runs, h \in Handlers} \cap heap

-----------------------------------------------------------------------------
(* The program before it uses the server. *)
createServerRuntime == {C2STestRestFixture.m_sr} \cup NewServer

CreateServer ==
  /\ ppc = "create"
  /\ ppc' = "register"
  /\ heap' = heap \cup createServerRuntime
  /\ UNCHANGED <<vars, handed, m_listOfResourcePrototypes, isDown, runs, m_pthread, todo>>

existsResourcePrototypeForContextRoot(root) ==
  \E x \in m_listOfResourcePrototypes : ContextRoot[x] = root

(* A resource whose context root is taken is refused with an exception and  *)
(* stays the program's.                                                     *)
addResourcePrototype(x) ==
  m_listOfResourcePrototypes' =
    IF existsResourcePrototypeForContextRoot(ContextRoot[x]) THEN m_listOfResourcePrototypes
    ELSE m_listOfResourcePrototypes \cup {x}

RegisterResource ==
  /\ ppc = "register"
  /\ handed < Len(Resources)
  /\ handed' = handed + 1
  /\ addResourcePrototype(Resources[handed + 1])
  /\ UNCHANGED <<vars, heap, ppc, isDown, runs, m_pthread, todo>>

UseServer ==
  /\ ppc = "register"
  /\ handed = Len(Resources)
  /\ ppc' = "use"
  /\ UNCHANGED <<vars, heap, handed, m_listOfResourcePrototypes, isDown, runs, m_pthread, todo>>

(* The fixture deletes the server when it is down, maybe before a thread    *)
(* that called run() has returned, and then the mutex.                      *)
DeleteServer ==
  /\ ppc = "use" /\ isDown /\ threw = "none"
  /\ \A c \in Callers : cpc[c] \in {"idle", "r_run"}
  /\ ppc' = "delete"
  /\ todo' = <<Delete(The("C2STestRestFixture"))>>
  /\ UNCHANGED <<vars, heap, handed, m_listOfResourcePrototypes, isDown, runs, m_pthread>>

-----------------------------------------------------------------------------
(* The destructors, one object at a time. *)
(* What a failed pthread_create() leaves in m_pthread: indeterminate, and    *)
(* the handle of no thread.                                                 *)
NoThread == MaxSockets + 1

Thread == IF m_pthread = 0 THEN {} ELSE {pthread(m_pthread)}

DestructorOf(o) == Destructor(o, heap, AcceptHandlers, Thread)

Does(op) == ppc = "delete" /\ todo # <<>> /\ Head(todo)[1] = op

(* `delete' runs the destructor, and then frees the memory. *)
DeleteObject ==
  /\ Does("delete") /\ DestructorOf(Head(todo)[2]) # <<>>
  /\ LET o == Head(todo)[2] IN todo' = DestructorOf(o) \o <<Free(o)>> \o Tail(todo)
  /\ UNCHANGED <<vars, heap, ppc, handed, m_listOfResourcePrototypes, isDown, runs, m_pthread>>

FreeObject ==
  /\ \/ Does("free") \/ Does("detach")
     \/ Does("delete") /\ DestructorOf(Head(todo)[2]) = <<>>
  /\ heap' = heap \ {Head(todo)[2]}
  /\ todo' = Tail(todo)
  /\ UNCHANGED <<vars, ppc, handed, m_listOfResourcePrototypes, isDown, runs, m_pthread>>

(* deleteResourcePrototypesAndClearList(), of the server's list or of the   *)
(* clones of a handler.                                                     *)
PrototypesIn(list) ==
  C2SHttpResourcePrototypeList(list, m_listOfResourcePrototypes).m_listOfResourcePrototypes

ClearList ==
  /\ Does("clear")
  /\ todo' = DeleteAll(PrototypesIn(Head(todo)[2])) \o Tail(todo)
  /\ UNCHANGED <<vars, heap, ppc, handed, m_listOfResourcePrototypes, isDown, runs, m_pthread>>

ServerIsGone ==
  /\ ppc = "delete" /\ todo = <<>>
  /\ ppc' = "gone"
  /\ UNCHANGED <<vars, heap, handed, m_listOfResourcePrototypes, isDown, runs, m_pthread, todo>>

-----------------------------------------------------------------------------
(* C2SThreadPosix::start(): the handle of the last thread is detached.      *)
StartThreadObject(c) ==
  /\ StartThread(c)
  /\ heap' = (heap \ Thread) \cup {pthread(Len(sockets))}
  /\ m_pthread' = Len(sockets)
  /\ isDown' = FALSE
  /\ UNCHANGED <<programVars, runs>>

(* pthread_create() fails, or pthread_detach() does for what an earlier     *)
(* failure has left in m_pthread.                                           *)
StartThrowsWithThread(c) ==
  /\ StartThrows(c)
  /\ heap' = heap \ Thread
  /\ m_pthread' = NoThread
  /\ UNCHANGED <<programVars, isDown, runs>>

ServerIsUp(c) == ConnectForRun(c) /\ isDown' = FALSE /\ UNCHANGED <<programVars, heap, runs, m_pthread>>

ServerIsDown(c) == ShutdownReturn(c) /\ isDown' = TRUE /\ UNCHANGED <<programVars, heap, runs, m_pthread>>

(* C2SSocketListener::run(). *)
NewQueue ==
  /\ SetKeepRunning
  /\ runs' = runs + 1
  /\ heap' = heap \cup {AcceptMutex(runs + 1), AcceptThreadQueue(runs + 1)}
  /\ UNCHANGED <<programVars, isDown, m_pthread>>

NewAcceptHandler ==
  /\ CreateHandler
  /\ heap' = heap \cup NewHandler(Current(m_acceptHandlers + 1), m_listOfResourcePrototypes)
  /\ UNCHANGED <<programVars, isDown, runs, m_pthread>>

QueueNewHandler ==
  /\ QueueHandler
  /\ heap' = heap \cup C2SThreadQueue(runs, {m_acceptHandlers}).m_threads
  /\ UNCHANGED <<programVars, isDown, runs, m_pthread>>

(* ~C2SThreadQueue() deletes the runners, which are all in m_threads.       *)
DeleteQueueObjects ==
  /\ DeleteQueue
  /\ heap' = heap \ ({AcceptThreadQueue(runs), AcceptMutex(runs)}
                     \cup C2SThreadQueue(runs, Handlers).m_threads)
  /\ UNCHANGED <<programVars, isDown, runs, m_pthread>>

-----------------------------------------------------------------------------
(* C2SHttpDataPull::reset(): a new request, with a parser of its own.       *)
reset(h) ==
  LET a == Current(h)
      m_pRequest == C2SHttpDataPull(a).m_pRequest
  IN  /\ Serve(h)
      /\ heap' = (heap \ {C2SHttpRequest(a).m_pEntity, C2SHttpParser(a).m_body}) \cup {m_pRequest}
      /\ UNCHANGED <<programVars, isDown, runs, m_pthread>>

(* The parser allocates the body when the header is complete. *)
ReceiveRequest(h) ==
  /\ RequestEnds(h)
  /\ \E body \in HasBody :
       heap' = heap \cup (IF body THEN {C2SHttpParser(Current(h)).m_body} ELSE {})
  /\ UNCHANGED <<programVars, isDown, runs, m_pthread>>

(* flush(): finished() creates the entity of a request with a body; the     *)
(* response lives as long as the step.                                      *)
FlushRequest(h) ==
  LET a == Current(h)
      entity == IF C2SHttpParser(a).m_body \in heap THEN {C2SHttpRequest(a).m_pEntity} ELSE {}
  IN  /\ Flush(h)
      /\ heap' = heap \cup entity
      /\ UNCHANGED <<programVars, isDown, runs, m_pthread>>

-----------------------------------------------------------------------------
(* C2STestServerThread::run(). *)
RunOnServerThread(c) == c \in ServerThreads /\ CallRuntimeRun(c)

ServerCallerCalls(c) ==
  /\ ppc = "use"
  /\ \/ RunOnServerThread(c)
     \/ c \notin ServerThreads /\ (CallRuntimeStart(c) \/ CallShutdown(c))
  /\ UNCHANGED lifeVars

ServerCallerNext(c) ==
  \/ StartThreadObject(c) \/ StartThrowsWithThread(c) \/ ServerIsUp(c) \/ ServerIsDown(c)
  \/ /\ \/ ConnectForStart(c) \/ ConnectThrows(c) \/ WaitForStartup(c) \/ StartReturn(c)
        \/ RunReturn(c) \/ StopKeepRunning(c) \/ InterruptEarlier(c) \/ InterruptHandler(c)
        \/ InterruptedAll(c) \/ ShutSocket(c) \/ CloseSocket(c) \/ AwaitStopped(c)
     /\ UNCHANGED lifeVars

ServerListenerNext ==
  \/ NewQueue \/ NewAcceptHandler \/ QueueNewHandler \/ DeleteQueueObjects
  \/ /\ \/ SetRunning \/ SetListening \/ LoopContinues \/ StartHandler
        \/ StartedHandler \/ LoopEnds \/ JoinHandlers \/ ResetListening \/ ResetRunning
     /\ UNCHANGED lifeVars

ServerHandlerNext(h) ==
  \/ reset(h) \/ FlushRequest(h)
  \/ /\ \/ LockAccept(h) \/ InterruptedBefore(h) \/ NotInterrupted(h) \/ AcceptFails(h)
        \/ InterruptedAfter(h) \/ AcceptThrows(h) \/ FinishHandler(h)
     /\ UNCHANGED lifeVars

ServerHandlerMeetsClient(h) ==
  \/ ReceiveRequest(h)
  \/ (AcceptConnection(h) \/ AcceptErrs(h) \/ RequestThrows(h)) /\ UNCHANGED lifeVars

ProgramNext ==
  \/ CreateServer \/ RegisterResource \/ UseServer \/ DeleteServer
  \/ DeleteObject \/ FreeObject \/ ClearList \/ ServerIsGone

ServerNext ==
  \/ ProgramNext
  \/ \E c \in Callers : ServerCallerCalls(c) \/ ServerCallerNext(c)
  \/ ServerListenerNext
  \/ \E h \in Handlers : ServerHandlerNext(h) \/ ServerHandlerMeetsClient(h)

ServerSpec == ServerInit /\ [][ServerNext]_allVars

(* As in SocketListener: each step of a thread is one of its threads there.  *)
(* Nothing is assumed of the program.                                       *)
FairServerSpec == ServerSpec /\ Fairness

-----------------------------------------------------------------------------
(* Type invariant. *)
RunNames == {<<r, h>> : r \in 1..MaxSockets, h \in Handlers}

HandlerObjects == UNION {NewHandler(a, Range(Resources)) : a \in RunNames}

RequestObjects ==
  {C2SHttpDataPull(a).m_pRequest : a \in RunNames}
  \cup {C2SHttpRequest(a).m_pEntity : a \in RunNames}
  \cup {C2SHttpParser(a).m_body : a \in RunNames}

QueueObjects ==
  {AcceptMutex(r) : r \in 1..MaxSockets} \cup {AcceptThreadQueue(r) : r \in 1..MaxSockets}
  \cup UNION {C2SThreadQueue(r, Handlers).m_threads : r \in 1..MaxSockets}

Objects ==
  createResources \cup Statics \cup createServerRuntime \cup HandlerObjects \cup RequestObjects
  \cup QueueObjects \cup {pthread(n) : n \in 1..NoThread}

ServerTypeOK ==
  /\ TypeOK
  /\ heap \subseteq Objects
  /\ ppc \in ProgramPCs
  /\ handed \in 0..Len(Resources)
  /\ m_listOfResourcePrototypes \subseteq Range(Resources)
  /\ isDown \in BOOLEAN
  /\ runs \in 0..MaxSockets
  /\ m_pthread \in 0..NoThread
  /\ \A i \in DOMAIN todo : todo[i][1] \in {"delete", "clear", "free", "detach"} /\ todo[i][2] \in Objects

(* What each thread uses where it is: a caller of the server, its runtime,  *)
(* the listener, and what that writes to.                                   *)
note == publishMessageSynchronized("Note")

(* The handler that interrupt() is at, or any of the earlier ones. *)
InterruptedNow(c) ==
  IF at[c] <= earlier THEN (1..runs - 1) \X Handlers
  ELSE {Current(h) : h \in {at[c] - earlier} \cap 1..m_acceptHandlers}

CallerUses(c) ==
  CASE cpc[c] \in {"s_connect", "r_connect"} ->
         {C2STestServerThread.m_pServiceRuntime, The("C2SRuntime"), The("C2SSocketListener"),
          The("C2SSocketInfo")} \cup note
    [] cpc[c] = "s_test" ->
         {The("C2SRuntime"), The("C2SSocketListenerThread")} \cup (Thread \ {pthread(NoThread)})
    [] cpc[c] = "s_wait" -> {The("C2SSocketListenerThread"), The("C2SSocketListener")}
    [] cpc[c] = "x_keep" ->
         {The("C2SHttpServer"), The("C2SRuntime"), The("C2SSocketListenerThread"),
          The("C2SSocketListener")} \cup note
    [] cpc[c] = "x_handlers" ->
         {The("C2SSocketListener")}
         \cup {Of("C2SSocketAcceptHandler", a) : a \in InterruptedNow(c)}
    [] cpc[c] \in {"x_shutdown", "x_close"} -> {The("C2SSocketListener"), The("C2SSocketInfo")}
    [] cpc[c] = "x_wait" -> {The("C2SSocketListenerThread")}
    [] OTHER -> {}

ListenerUses ==
  IF lpc = "none" THEN {}
  ELSE {The("C2SSocketListenerThread"), C2SSocketListenerThread.m_pSocketListener}
       \cup (IF lpc \in {"begin", "keep", "end", "ended"} THEN {}
             ELSE {AcceptMutex(runs), AcceptThreadQueue(runs)})
       \cup (IF lpc = "create"
             THEN {The("C2SSocketInfo"), C2SSocketListener.m_dataHandling,
                   C2SHttpDataHandlingImpl.m_listOfResourcePrototypes}
                  \cup UNION {NewResource(Shared, x) : x \in m_listOfResourcePrototypes}
             ELSE {})

HandlerUses(h) ==
  LET a == Current(h)
  IN  (IF hpc[h] = "idle" THEN {}
       ELSE {Of("C2SThreadQueueRunner", a), C2SThreadQueueRunner(a).m_runnable,
             C2SThreadQueueRunner(a).m_pQueue})
      \cup (IF hpc[h] \in {"lock", "check", "accept"} THEN {C2SSocketAcceptHandler(a).m_acceptMutex} ELSE {})
      \cup (IF hpc[h] \in {"receive", "flush"}
            THEN {Of("C2SHttpDataPull", a), C2SHttpDataPull(a).m_pRequest} ELSE {})
      \cup (IF hpc[h] = "flush"
            THEN NewDataPull(a, m_listOfResourcePrototypes)
                 \cup {C2SHttpResourceManagerResponseHandler(a).m_pDataPush, pGlobalMutex}
                 \cup UNION {C2SHttpResourcePrototype(a, x).m_pResponseHandler :
                               x \in m_listOfResourcePrototypes}
            ELSE {})
      \cup (IF C2SHttpRequest(a).m_pEntity \in heap THEN {C2SHttpEntity(a).data} ELSE {})

(* What the destructors under way use: of a list, every element; and what   *)
(* they detach is a thread, unless pthread_create() has failed.             *)
DestructorUses ==
  ({todo[i][2] : i \in DOMAIN todo} \ {pthread(NoThread)})
  \cup (IF todo # <<>> /\ Head(todo)[1] = "clear" THEN PrototypesIn(Head(todo)[2]) ELSE {})

(* No thread uses an object that is deleted: neither the handlers, when the *)
(* listener deletes their mutex and their queue, nor any thread, when the   *)
(* program deletes the server after shutdown(); and no destructor deletes   *)
(* what another has deleted.                                                *)
NoUseAfterDelete ==
  /\ \A c \in Callers : CallerUses(c) \subseteq heap
  /\ ListenerUses \subseteq heap
  /\ \A h \in Handlers : HandlerUses(h) \subseteq heap
  /\ DestructorUses \subseteq heap

(* When the destructors are done, what is left is the resources that the    *)
(* server has refused because an earlier one had their context root: these  *)
(* are still the program's.                                                 *)
Refused ==
  {Resources[i] : i \in {j \in DOMAIN Resources :
                           \E k \in 1..j - 1 : ContextRoot[Resources[k]] = ContextRoot[Resources[j]]}}

NothingLeaks ==
  ppc = "gone" => heap = Statics \cup UNION {NewResource(Shared, x) : x \in Refused}

=============================================================================

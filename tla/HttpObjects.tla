---------------------------- MODULE HttpObjects -----------------------------
(***************************************************************************)
(* The objects a C2SHttpServer is made of: for each class the pointers and *)
(* references its members hold, what its constructor creates with `new'    *)
(* and what its destructor deletes, in which order.  Members that are      *)
(* objects themselves live and die with the object they are part of.       *)
(*                                                                         *)
(* An object is named by its class, by the accept handler it belongs to    *)
(* (the i-th of the r-th run() is <<r, i>>; what belongs to none is        *)
(* Shared), by the resource and the method it belongs to, and by a number  *)
(* where a method has several of a kind.                                   *)
(*                                                                         *)
(* A destructor is the sequence of what it has to do: "delete" an object,  *)
(* "clear" a list of resource prototypes, "free" the memory of an object   *)
(* whose destructor has run, "detach" a thread.                            *)
(***************************************************************************)
EXTENDS Naturals, Sequences, SequencesExt

CONSTANTS Resources,     \* the resource prototypes the program creates, in their order
          ContextRoot,   \* of each resource prototype
          MethodsOf,     \* of each resource prototype: the names of its method prototypes
          PartsOf,       \* of each method prototype: how many parts it has of each kind
          LogLevel       \* C2SLogBase::LogLevel

PartKinds == {"segments", "parameters", "queryParameters", "streamers", "unstreamers"}

ELogLevel == <<"Error", "Warning", "Note", "Info", "Debug", "Verbose">>

(* Every resource prototype is an object of its own. *)
ASSUME HttpObjectsAssumption ==
  /\ Resources \in Seq(Range(Resources)) /\ IsInjective(Resources)
  /\ IsFiniteSet(DOMAIN PartsOf)
  /\ ContextRoot \in [Range(Resources) -> STRING]
  /\ \A x \in Range(Resources) : MethodsOf[x] \subseteq DOMAIN PartsOf
  /\ \A m \in DOMAIN PartsOf : PartsOf[m] \in [PartKinds -> Nat]
  /\ LogLevel \in Range(ELogLevel)

Shared == <<0, 0>>
Object(class, a, x, i) == <<class, a, x, i>>
The(class) == Object(class, Shared, <<>>, 0)
Of(class, a) == Object(class, a, <<>>, 0)
ClassOf(o) == o[1]
HandlerOf(o) == o[2]
NameOf(o) == o[3]

Delete(o) == <<"delete", o>>
Clear(o) == <<"clear", o>>
Free(o) == <<"free", o>>
Detach(t) == <<"detach", t>>
DeleteAll(set) == LET seq == SetToSeq(set) IN [n \in DOMAIN seq |-> Delete(seq[n])]

-----------------------------------------------------------------------------
(* C2SHttpServer, C2SRuntime, and the socket listener with its thread.     *)
C2SHttpServer ==
  [m_pHttpResourcePrototypes |-> The("C2SHttpResourcePrototypeList"),
   m_pHttpDataHandling |-> The("C2SHttpDataHandlingImpl"),
   m_pServiceRuntime |-> The("C2SRuntime")]

(* A list points to its resources; S are those that are registered.        *)
RestResource(a, x) == Object("C2SRestResourcePrototype", a, <<x>>, 0)

C2SHttpResourcePrototypeList(list, S) ==
  [m_listOfResourcePrototypes |-> {RestResource(HandlerOf(list), x) : x \in S}]

C2SHttpDataHandlingImpl ==
  [m_listOfResourcePrototypes |-> C2SHttpServer.m_pHttpResourcePrototypes]

C2SRuntime ==
  [m_pDataHandling |-> C2SHttpServer.m_pHttpDataHandling,
   m_pSocketListener |-> The("C2SSocketListener"),
   m_pSocketListenerThread |-> The("C2SSocketListenerThread"),
   m_pLogFactory |-> The("C2SLogSimpleMessageFactory"),
   m_pLogInstance |-> The("C2SLogImplSimpleMessage")]

C2SSocketListener ==
  [m_dataHandling |-> C2SRuntime.m_pDataHandling,
   m_pSocketInfo |-> The("C2SSocketInfo"),
   m_logInstance |-> C2SRuntime.m_pLogInstance]

C2SSocketListenerThread == [m_pSocketListener |-> C2SRuntime.m_pSocketListener]

(* A thread that was created and is not detached: its handle and its stack. *)
pthread(n) == Object("pthread_t", Shared, <<>>, n)

(* The log instance that the listener writes its notes to; the publication  *)
(* is a static object.                                                      *)
C2SLogSimpleMessageFactory ==
  [m_logPublication |-> The("C2SLogPublicationImplStandardOutput")]

C2SLogBase ==
  [m_logPublication |-> C2SLogSimpleMessageFactory.m_logPublication,
   m_pLogMutex |-> The("C2SLogMutex")]

createLogInstance == {The("C2SLogImplSimpleMessage"), C2SLogBase.m_pLogMutex}

createSocketListener ==
  {C2SRuntime.m_pSocketListener, C2SSocketListener.m_pSocketInfo,
   C2SRuntime.m_pSocketListenerThread}

NewRuntime ==
  {The("C2SRuntime"), C2SRuntime.m_pLogFactory} \cup createLogInstance \cup createSocketListener

NewServer ==
  {The("C2SHttpServer"), C2SHttpServer.m_pHttpResourcePrototypes,
   C2SHttpServer.m_pHttpDataHandling} \cup NewRuntime

ServerDestructor ==
  <<Delete(C2SHttpServer.m_pServiceRuntime), Delete(C2SHttpServer.m_pHttpDataHandling),
    Clear(C2SHttpServer.m_pHttpResourcePrototypes),
    Delete(C2SHttpServer.m_pHttpResourcePrototypes)>>

RuntimeDestructor ==
  <<Delete(C2SRuntime.m_pSocketListener), Delete(C2SRuntime.m_pLogFactory),
    Delete(C2SRuntime.m_pLogInstance), Delete(C2SRuntime.m_pSocketListenerThread)>>

(* m_acceptHandlers holds the handlers of every run(). *)
ListenerDestructor(m_acceptHandlers) ==
  DeleteAll(m_acceptHandlers) \o <<Delete(C2SSocketListener.m_pSocketInfo)>>

LogDestructor == <<Delete(C2SLogBase.m_pLogMutex)>>

(* ~C2SThreadPosix(), of the listener's thread.                             *)
ThreadDestructor(threads) == LET seq == SetToSeq(threads) IN [n \in DOMAIN seq |-> Detach(seq[n])]

(* Whether a message of a level is published, under the log mutex. *)
Publishes(level) ==
  \E i, n \in DOMAIN ELogLevel :
    ELogLevel[i] = level /\ ELogLevel[n] = LogLevel /\ (level = "Error" \/ n >= i)

(* What note() touches. *)
publishMessageSynchronized(level) ==
  {C2SSocketListener.m_logInstance} \cup
  (IF Publishes(level) THEN {C2SLogBase.m_pLogMutex, C2SLogBase.m_logPublication} ELSE {})

-----------------------------------------------------------------------------
(* Who owns a server: the fixture of the REST tests with its server runner  *)
(* and the mutex that one method locks; and the thread that calls run().    *)
C2STestRestFixture == [m_sr |-> The("C2STestServerRunner"), pGlobalMutex |-> The("C2SMutex")]
C2STestServerRunner == [m_pHttpServerRuntime |-> The("C2SHttpServer")]
C2STestServerThread == [m_pServiceRuntime |-> The("C2SHttpServer")]

FixtureDestructor == <<Delete(C2STestRestFixture.m_sr), Delete(C2STestRestFixture.pGlobalMutex)>>

(* When shutdown() has returned. *)
RunnerDestructor == <<Delete(C2STestServerRunner.m_pHttpServerRuntime)>>

-----------------------------------------------------------------------------
(* An accept handler and what it owns.  The handlers of a run() share an    *)
(* accept mutex and a thread queue.                                         *)
AcceptMutex(r) == Of("C2SMutex", <<r, 0>>)
AcceptThreadQueue(r) == Of("C2SThreadQueue", <<r, 0>>)

C2SThreadQueue(r, handlers) ==
  [m_threads |-> {Of("C2SThreadQueueRunner", <<r, h>>) : h \in handlers}]

C2SThreadQueueRunner(a) ==
  [m_runnable |-> Of("C2SSocketAcceptHandler", a), m_pQueue |-> AcceptThreadQueue(a[1])]

C2SSocketAcceptHandler(a) ==
  [m_pDataPull |-> Of("C2SHttpDataPull", a),
   m_acceptMutex |-> AcceptMutex(a[1])]

(* The data push is part of the handler. *)
C2SDataPullInterface(a) == [m_dataPush |-> Of("C2SSocketAcceptHandler", a)]

C2SHttpDataPull(a) ==
  [m_pRequest |-> Of("C2SHttpRequest", a),
   m_pResourceManager |-> Of("C2SHttpResourceManager", a)]

C2SHttpResourceManager(a) ==
  [m_pClonesOfResourcePrototypesList |-> Of("C2SHttpResourcePrototypeList", a),
   m_pResponseHandler |-> Of("C2SHttpResourceManagerResponseHandler", a)]

C2SHttpResourceManagerResponseHandler(a) == [m_pDataPush |-> C2SDataPullInterface(a).m_dataPush]

(* A request: the entity that finished() creates points into the body that *)
(* the parser has received.                                                *)
C2SHttpParser(a) == [m_body |-> Of("char[]", a)]
C2SHttpRequest(a) == [m_pEntity |-> Of("C2SHttpEntity", a)]

C2SHttpEntity(a) == [data |-> C2SHttpParser(a).m_body, m_bCleanUp |-> FALSE]

HandlerDestructor(a) == <<Delete(C2SSocketAcceptHandler(a).m_pDataPull)>>

(* Seeded fault: the last request is not deleted. *)
DataPullDestructor_KeepsRequest(a, heap) ==
  <<Delete(C2SHttpDataPull(a).m_pResourceManager)>>

DataPullDestructor(a, heap) ==
  DeleteAll({C2SHttpDataPull(a).m_pRequest} \cap heap) \o
  <<Delete(C2SHttpDataPull(a).m_pResourceManager)>>

ManagerDestructor(a) ==
  <<Delete(C2SHttpResourceManager(a).m_pResponseHandler),
    Clear(C2SHttpResourceManager(a).m_pClonesOfResourcePrototypesList),
    Delete(C2SHttpResourceManager(a).m_pClonesOfResourcePrototypesList)>>

EntityDestructor(a) == IF C2SHttpEntity(a).m_bCleanUp THEN <<Delete(C2SHttpEntity(a).data)>> ELSE <<>>

(* ~C2SHttpRequest() and, after it, the destructor of its parser. *)
ParserDestructor(a, heap) == DeleteAll({C2SHttpParser(a).m_body} \cap heap)
RequestDestructor(a, heap) ==
  DeleteAll({C2SHttpRequest(a).m_pEntity} \cap heap) \o ParserDestructor(a, heap)

-----------------------------------------------------------------------------
(* Resource prototypes, their method prototypes and the parts of these.  A *)
(* resource answers through the response handler of its accept handler; a   *)
(* registered one has none.                                                 *)
C2SHttpResourcePrototype(a, x) ==
  [m_sContextRoot |-> ContextRoot[x],
   m_pResponseHandler |-> IF a = Shared THEN {} ELSE {C2SHttpResourceManager(a).m_pResponseHandler}]

C2SRestResourcePrototype(a, x) ==
  [m_registeredMethodPrototypes |->
     {Object("C2SRestMethodPrototype", a, <<x, m>>, 0) : m \in MethodsOf[x]}]

Parts(class, a, x, m, kind) == {Object(class, a, <<x, m>>, n) : n \in 1..PartsOf[m][kind]}

C2SRestPathSegmentList(a, x, m) ==
  [m_pathSegments |->
     Parts("C2SRestPathSegment", a, x, m, "segments") \cup
     Parts("C2SRestPathParameter", a, x, m, "parameters")]

C2SRestPathParameter(o) == [m_pParameter |-> Object("C2SRestParameter", HandlerOf(o), NameOf(o), o[4])]

C2SRestMethodPrototype(a, x, m) ==
  [m_pathSegments |-> C2SRestPathSegmentList(a, x, m).m_pathSegments,
   m_queryParameters |-> Parts("C2SRestQueryParameter", a, x, m, "queryParameters")]

C2SRestMethodPrototypeResponseEntity(a, x, m) ==
  [m_entityStreamersByTimeOfRegistration |-> Parts("C2SHttpEntityStreamer", a, x, m, "streamers")]

C2SRestMethodPrototypeRequestEntity(a, x, m) ==
  [m_requestEntityStreamersByMediaType |-> Parts("C2SHttpEntityUnstreamer", a, x, m, "unstreamers")]

(* What the constructors of a method and of a resource create. *)
NewMethod(a, x, m) ==
  {Object("C2SRestMethodPrototype", a, <<x, m>>, 0)}
  \cup C2SRestPathSegmentList(a, x, m).m_pathSegments
  \cup {C2SRestPathParameter(o).m_pParameter : o \in Parts("C2SRestPathParameter", a, x, m, "parameters")}
  \cup C2SRestMethodPrototype(a, x, m).m_queryParameters
  \cup C2SRestMethodPrototypeResponseEntity(a, x, m).m_entityStreamersByTimeOfRegistration
  \cup C2SRestMethodPrototypeRequestEntity(a, x, m).m_requestEntityStreamersByMediaType

NewResource(a, x) == {RestResource(a, x)} \cup UNION {NewMethod(a, x, m) : m \in MethodsOf[x]}

(* The classes of the library delete a method's streamers, its query       *)
(* parameters and its path segments.  They do not delete its unstreamers:  *)
(* the class of the application does, here that of the fixture's converter.*)
UnstreamersDeleted(a, x, m) ==
  DeleteAll(C2SRestMethodPrototypeRequestEntity(a, x, m).m_requestEntityStreamersByMediaType)
StreamersDeleted(a, x, m) ==
  DeleteAll(C2SRestMethodPrototypeResponseEntity(a, x, m).m_entityStreamersByTimeOfRegistration)
QueryParametersDeleted(a, x, m) == DeleteAll(C2SRestMethodPrototype(a, x, m).m_queryParameters)
PathSegmentsDeleted(a, x, m) == DeleteAll(C2SRestPathSegmentList(a, x, m).m_pathSegments)

MethodDestructor(a, x, m) ==
  UnstreamersDeleted(a, x, m) \o StreamersDeleted(a, x, m) \o
  QueryParametersDeleted(a, x, m) \o PathSegmentsDeleted(a, x, m)

PathParameterDestructor(o) == <<Delete(C2SRestPathParameter(o).m_pParameter)>>

RestResourceDestructor(a, x) == DeleteAll(C2SRestResourcePrototype(a, x).m_registeredMethodPrototypes)

-----------------------------------------------------------------------------
(* What the constructor of a handler creates: S are the resource prototypes *)
(* that are registered, of which each handler gets a clone.                 *)
CloneList(a, S) ==
  {Of("C2SHttpResourcePrototypeList", a)} \cup UNION {NewResource(a, x) : x \in S}

NewResourceManager(a, S) ==
  {Of("C2SHttpResourceManager", a), C2SHttpResourceManager(a).m_pResponseHandler} \cup CloneList(a, S)

NewDataPull(a, S) == {Of("C2SHttpDataPull", a)} \cup NewResourceManager(a, S)

createDataPullForDataPush(a, S) == NewDataPull(a, S)

NewHandler(a, S) == {Of("C2SSocketAcceptHandler", a)} \cup createDataPullForDataPush(a, S)

(* What the destructor of an object has to do. *)
Destructor(o, heap, m_acceptHandlers, threads) ==
  LET a == HandlerOf(o)
  IN  CASE ClassOf(o) = "C2STestRestFixture" -> FixtureDestructor
        [] ClassOf(o) = "C2STestServerRunner" -> RunnerDestructor
        [] ClassOf(o) = "C2SHttpServer" -> ServerDestructor
        [] ClassOf(o) = "C2SRuntime" -> RuntimeDestructor
        [] ClassOf(o) = "C2SSocketListener" -> ListenerDestructor(m_acceptHandlers)
        [] ClassOf(o) = "C2SSocketListenerThread" -> ThreadDestructor(threads)
        [] ClassOf(o) = "C2SLogImplSimpleMessage" -> LogDestructor
        [] ClassOf(o) = "C2SSocketAcceptHandler" -> HandlerDestructor(a)
        [] ClassOf(o) = "C2SHttpDataPull" -> DataPullDestructor(a, heap)
        [] ClassOf(o) = "C2SHttpResourceManager" -> ManagerDestructor(a)
        [] ClassOf(o) = "C2SHttpRequest" -> RequestDestructor(a, heap)
        [] ClassOf(o) = "C2SHttpEntity" -> EntityDestructor(a)
        [] ClassOf(o) = "C2SRestResourcePrototype" -> RestResourceDestructor(a, NameOf(o)[1])
        [] ClassOf(o) = "C2SRestMethodPrototype" -> MethodDestructor(a, NameOf(o)[1], NameOf(o)[2])
        [] ClassOf(o) = "C2SRestPathParameter" -> PathParameterDestructor(o)
        [] OTHER -> <<>>

=============================================================================

-------------------------- MODULE HttpServer_proofs --------------------------
(***************************************************************************)
(* Proofs about HttpServer, for every set of callers, every number of      *)
(* handlers, every set of resources and every log level.  They begin with  *)
(* facts about HttpObjects, the objects of a server and their destructors: *)
(* an object is deleted by one owner, once, and what a constructor creates *)
(* has its owners in it.                                                   *)
(***************************************************************************)
EXTENDS HttpServer, SocketListener_proofs, FiniteSetTheorems

-----------------------------------------------------------------------------
(* What a destructor does, as a set. *)

(* What an operation deletes or frees, S being the registered resources. *)
Targets(op, S) ==
  IF op[1] = "clear" THEN C2SHttpResourcePrototypeList(op[2], S).m_listOfResourcePrototypes
  ELSE {op[2]}

AllTargets(ops, S) == UNION {Targets(ops[i], S) : i \in DOMAIN ops}

(* No two operations have a target in common. *)
TargetsOnce(ops, S) ==
  \A i, j \in DOMAIN ops : i # j => Targets(ops[i], S) \cap Targets(ops[j], S) = {}

(* A finite set is listed without duplicates. *)
LEMMA SetToSeqFacts ==
  ASSUME NEW S, IsFiniteSet(S)
  PROVE  /\ SetToSeq(S) \in Seq(S)
         /\ Range(SetToSeq(S)) = S
         /\ IsInjective(SetToSeq(S))
<1> DEFINE n == Cardinality(S)
<1>1. n \in Nat /\ ExistsBijection(1..n, S)
  BY FS_CardinalityType
<1>2. \E f \in [1..n -> S] : IsInjective(f)
  BY <1>1 DEF ExistsBijection, Bijection, Injection
<1>3. SetToSeq(S) \in [1..n -> S] /\ IsInjective(SetToSeq(S))
  BY <1>2 DEF SetToSeq
<1>4. SetToSeq(S) \in Injection(1..n, S)
  BY <1>3 DEF Injection
<1>5. IsFiniteSet(1..n) /\ Cardinality(1..n) = n
  BY <1>1, FS_Interval
<1>6. SetToSeq(S) \in Surjection(1..n, S)
  BY <1>4, <1>5, FS_Injection
<1>7. Range(SetToSeq(S)) = S
  BY <1>3, <1>6 DEF Surjection, Range
<1>8. QED
  BY <1>1, <1>3, <1>7, FunctionIsSeq

(* The elements of a set are deleted one by one. *)
LEMMA DeleteAllFacts ==
  ASSUME NEW S, IsFiniteSet(S), NEW L
  PROVE  /\ DeleteAll(S) \in Seq({Delete(o) : o \in S})
         /\ Range(DeleteAll(S)) = {Delete(o) : o \in S}
         /\ AllTargets(DeleteAll(S), L) = S
         /\ TargetsOnce(DeleteAll(S), L)
<1> DEFINE s == SetToSeq(S)
           d == DeleteAll(S)
<1>1. s \in Seq(S) /\ Range(s) = S /\ IsInjective(s)
  BY SetToSeqFacts
<1>2. d = [i \in DOMAIN s |-> Delete(s[i])] /\ DOMAIN s = 1..Len(s) /\ Len(s) \in Nat
  BY <1>1 DEF DeleteAll
<1> HIDE DEF s, d
<1>3. DOMAIN d = DOMAIN s /\ \A i \in DOMAIN s : s[i] \in S /\ d[i] = Delete(s[i])
  BY <1>1, <1>2
<1>4. Range(d) = {Delete(o) : o \in S}
  BY <1>1, <1>3 DEF Range
<1>5. d \in Seq({Delete(o) : o \in S})
  <2>1. d \in [1..Len(s) -> {Delete(o) : o \in S}]
    BY <1>2, <1>3
  <2>2. QED
    BY <1>2, <2>1, FunctionIsSeq
<1>6. \A i \in DOMAIN s : Targets(d[i], L) = {s[i]}
  BY <1>3 DEF Targets, Delete
<1>7. AllTargets(d, L) = S
  BY <1>1, <1>3, <1>6 DEF AllTargets, Range
<1>8. TargetsOnce(d, L)
  BY <1>1, <1>3, <1>6 DEF TargetsOnce, IsInjective
<1>9. QED
  BY <1>4, <1>5, <1>7, <1>8 DEF d

(* One destructor's work before that of others. *)
LEMMA ConcatFacts ==
  ASSUME NEW T, NEW s \in Seq(T), NEW t \in Seq(T), NEW L
  PROVE  /\ s \o t \in Seq(T)
         /\ Range(s \o t) = Range(s) \cup Range(t)
         /\ AllTargets(s \o t, L) = AllTargets(s, L) \cup AllTargets(t, L)
         /\ TargetsOnce(s \o t, L) <=>
              /\ TargetsOnce(s, L) /\ TargetsOnce(t, L)
              /\ AllTargets(s, L) \cap AllTargets(t, L) = {}
<1> DEFINE u == s \o t
<1>1. /\ u \in Seq(T) /\ Len(u) = Len(s) + Len(t)
      /\ Len(s) \in Nat /\ Len(t) \in Nat /\ DOMAIN s = 1..Len(s) /\ DOMAIN t = 1..Len(t)
      /\ DOMAIN u = 1..Len(u)
      /\ \A i \in 1..Len(s) : u[i] = s[i]
      /\ \A i \in 1..Len(t) : u[Len(s) + i] = t[i]
  OBVIOUS
<1> HIDE DEF u
<1>2. \A i \in DOMAIN s : i \in DOMAIN u
  BY <1>1
<1>3. \A i \in DOMAIN t : Len(s) + i \in DOMAIN u /\ Len(s) + i \notin DOMAIN s
  BY <1>1
<1>4. \A i \in DOMAIN u : i \notin DOMAIN s => i - Len(s) \in DOMAIN t /\ u[i] = t[i - Len(s)]
  <2>1. SUFFICES ASSUME NEW i \in 1..Len(u), i \notin 1..Len(s)
                 PROVE  i - Len(s) \in 1..Len(t) /\ u[i] = t[i - Len(s)]
    BY <1>1
  <2>2. i - Len(s) \in 1..Len(t) /\ Len(s) + (i - Len(s)) = i
    BY <1>1, <2>1
  <2>3. QED
    BY <1>1, <2>2
<1>5. Range(u) = Range(s) \cup Range(t)
  BY <1>1, <1>2, <1>3, <1>4 DEF Range
<1>6. AllTargets(u, L) = AllTargets(s, L) \cup AllTargets(t, L)
  BY <1>1, <1>2, <1>3, <1>4 DEF AllTargets
<1>7. ASSUME TargetsOnce(s, L), TargetsOnce(t, L), AllTargets(s, L) \cap AllTargets(t, L) = {}
      PROVE  TargetsOnce(u, L)
  <2>1. SUFFICES ASSUME NEW i \in DOMAIN u, NEW j \in DOMAIN u, i # j
                 PROVE  Targets(u[i], L) \cap Targets(u[j], L) = {}
    BY DEF TargetsOnce
  <2>2. CASE i \in DOMAIN s /\ j \in DOMAIN s
    BY <1>1, <1>7, <2>1, <2>2 DEF TargetsOnce
  <2>3. CASE i \notin DOMAIN s /\ j \notin DOMAIN s
    <3>1. i - Len(s) # j - Len(s)
      BY <1>1, <2>1
    <3>2. QED
      BY <1>4, <1>7, <2>1, <2>3, <3>1 DEF TargetsOnce
  <2>4. CASE i \in DOMAIN s /\ j \notin DOMAIN s
    BY <1>1, <1>4, <1>7, <2>1, <2>4 DEF AllTargets
  <2>5. CASE i \notin DOMAIN s /\ j \in DOMAIN s
    BY <1>1, <1>4, <1>7, <2>1, <2>5 DEF AllTargets
  <2>6. QED
    BY <2>2, <2>3, <2>4, <2>5
<1>8. ASSUME TargetsOnce(u, L)
      PROVE  /\ TargetsOnce(s, L) /\ TargetsOnce(t, L)
             /\ AllTargets(s, L) \cap AllTargets(t, L) = {}
  <2>1. TargetsOnce(s, L)
    BY <1>1, <1>2, <1>8 DEF TargetsOnce
  <2>2. TargetsOnce(t, L)
    <3>1. SUFFICES ASSUME NEW i \in DOMAIN t, NEW j \in DOMAIN t, i # j
                   PROVE  Targets(t[i], L) \cap Targets(t[j], L) = {}
      BY DEF TargetsOnce
    <3>2. /\ Len(s) + i \in DOMAIN u /\ Len(s) + j \in DOMAIN u /\ Len(s) + i # Len(s) + j
          /\ u[Len(s) + i] = t[i] /\ u[Len(s) + j] = t[j]
      BY <1>1, <1>3, <3>1
    <3>3. QED
      BY <1>8, <3>2 DEF TargetsOnce
  <2>3. ASSUME NEW i \in DOMAIN s, NEW j \in DOMAIN t
        PROVE  Targets(s[i], L) \cap Targets(t[j], L) = {}
    <3>1. /\ i \in DOMAIN u /\ Len(s) + j \in DOMAIN u /\ i # Len(s) + j
          /\ u[i] = s[i] /\ u[Len(s) + j] = t[j]
      BY <1>1, <1>2, <1>3
    <3>2. QED
      BY <1>8, <3>1 DEF TargetsOnce
  <2>4. QED
    BY <2>1, <2>2, <2>3 DEF AllTargets
<1>9. QED
  BY <1>1, <1>5, <1>6, <1>7, <1>8 DEF u

(* A sequence is its head before its tail. *)
LEMMA HeadThenTail ==
  ASSUME NEW T, NEW s \in Seq(T), s # <<>>, NEW f \in Seq(T), Len(f) = 1, f[1] = Head(s)
  PROVE  s = f \o Tail(s)
<1>1. Len(s) \in Nat \ {0} /\ Head(s) = s[1]
  BY EmptySeq
<1>2. /\ Tail(s) \in Seq(T) /\ Len(Tail(s)) = Len(s) - 1
      /\ \A i \in 1..Len(Tail(s)) : Tail(s)[i] = s[i + 1]
  BY HeadTailProperties
<1>3. /\ f \o Tail(s) \in Seq(T) /\ Len(f \o Tail(s)) = Len(f) + Len(Tail(s))
      /\ \A i \in 1..Len(f) + Len(Tail(s)) :
           (f \o Tail(s))[i] = IF i <= Len(f) THEN f[i] ELSE Tail(s)[i - Len(f)]
  BY <1>2, ConcatProperties
<1>4. \A i \in 1..Len(s) : s[i] = (f \o Tail(s))[i]
  <2>1. \A i \in 1..Len(s) : i = 1 \/ (i - 1 \in 1..Len(Tail(s)) /\ ~(i <= 1))
    BY <1>1, <1>2
  <2>2. QED
    BY <1>1, <1>2, <1>3, <2>1
<1>5. QED
  BY <1>1, <1>2, <1>3, <1>4, SeqEqual

(* The work that is left is that of the head and that of the tail. *)
LEMMA FirstFacts ==
  ASSUME NEW T, NEW f \in Seq(T), NEW t \in Seq(T), Len(f) = 1, NEW L
  PROVE  /\ Range(f \o t) = {f[1]} \cup Range(t)
         /\ AllTargets(f \o t, L) = Targets(f[1], L) \cup AllTargets(t, L)
         /\ TargetsOnce(f \o t, L) <=>
              TargetsOnce(t, L) /\ Targets(f[1], L) \cap AllTargets(t, L) = {}
<1>1. DOMAIN f = {1}
  OBVIOUS
<1>2. Range(f) = {f[1]} /\ AllTargets(f, L) = Targets(f[1], L) /\ TargetsOnce(f, L)
  BY <1>1 DEF Range, AllTargets, TargetsOnce
<1>3. QED
  BY <1>2, ConcatFacts

(* A sequence has its first operation, and those of its tail. *)
LEMMA HeadFacts ==
  ASSUME NEW T, NEW s \in Seq(T), s # <<>>, NEW L
  PROVE  /\ Head(s) \in T /\ Tail(s) \in Seq(T)
         /\ Range(s) = {Head(s)} \cup Range(Tail(s))
         /\ AllTargets(s, L) = Targets(Head(s), L) \cup AllTargets(Tail(s), L)
         /\ TargetsOnce(s, L) <=>
              TargetsOnce(Tail(s), L) /\ Targets(Head(s), L) \cap AllTargets(Tail(s), L) = {}
<1>1. Head(s) \in T /\ Tail(s) \in Seq(T)
  BY HeadTailProperties
<1>2. PICK f \in Seq(T) : Len(f) = 1 /\ f[1] = Head(s)
  <2>1. /\ <<Head(s)>> \in Seq(T) /\ Len(<<Head(s)>>) = 1 /\ <<Head(s)>>[1] = Head(s)
    BY <1>1
  <2>2. QED
    BY <2>1
<1>3. PICK t \in Seq(T) : t = Tail(s)
  BY <1>1
<1>4. s = f \o t
  BY <1>2, <1>3, HeadThenTail
<1>5. QED
  <2>1. Range(s) = {f[1]} \cup Range(t)
    <3>1. \A M : Range(f \o t) = {f[1]} \cup Range(t)
      BY <1>2, FirstFacts
    <3>2. QED
      BY <1>4, <3>1
  <2>2. AllTargets(s, L) = Targets(f[1], L) \cup AllTargets(t, L)
    BY <1>2, <1>4, FirstFacts
  <2>3. TargetsOnce(s, L) <=>
          TargetsOnce(t, L) /\ Targets(f[1], L) \cap AllTargets(t, L) = {}
    BY <1>2, <1>4, FirstFacts
  <2>4. QED
    BY <1>1, <1>2, <1>3, <2>1, <2>2, <2>3

-----------------------------------------------------------------------------
(* Who owns what. *)

(* The objects that there is one of, and those that each handler has one of. *)
Singles ==
  {"C2STestRestFixture", "C2STestServerRunner", "C2SHttpServer", "C2SRuntime", "C2SSocketListener",
   "C2SSocketListenerThread", "C2SLogImplSimpleMessage"}

PerHandler ==
  {"C2SSocketAcceptHandler", "C2SHttpDataPull", "C2SHttpResourceManager", "C2SHttpRequest",
   "C2SHttpEntity"}

(* Names as the constructors give them, to objects that own others. *)
Named(o) ==
  /\ o = Object(ClassOf(o), HandlerOf(o), NameOf(o), o[4])
  /\ ClassOf(o) \in Singles => o = The(ClassOf(o))
  /\ ClassOf(o) \in PerHandler => o = Of(ClassOf(o), HandlerOf(o)) /\ HandlerOf(o) # Shared
  /\ ClassOf(o) = "C2SRestResourcePrototype" =>
       \E x \in Range(Resources) : o = RestResource(HandlerOf(o), x)
  /\ ClassOf(o) = "C2SRestMethodPrototype" =>
       \E x \in Range(Resources) : \E m \in MethodsOf[x] :
         o = Object("C2SRestMethodPrototype", HandlerOf(o), <<x, m>>, 0)

(* What the destructor of an object deletes, S being the registered         *)
(* resources.                                                               *)
Owns(o, live, acceptHandlers, threads, S) ==
  LET a == HandlerOf(o)
      x == NameOf(o)[1]
      m == NameOf(o)[2]
      Clones(list) == C2SHttpResourcePrototypeList(list, S).m_listOfResourcePrototypes
  IN  CASE ClassOf(o) = "C2STestRestFixture" ->
             {C2STestRestFixture.m_sr, C2STestRestFixture.pGlobalMutex}
        [] ClassOf(o) = "C2STestServerRunner" -> {C2STestServerRunner.m_pHttpServerRuntime}
        [] ClassOf(o) = "C2SHttpServer" ->
             {C2SHttpServer.m_pServiceRuntime, C2SHttpServer.m_pHttpDataHandling,
              C2SHttpServer.m_pHttpResourcePrototypes}
             \cup Clones(C2SHttpServer.m_pHttpResourcePrototypes)
        [] ClassOf(o) = "C2SRuntime" ->
             {C2SRuntime.m_pSocketListener, C2SRuntime.m_pLogFactory, C2SRuntime.m_pLogInstance,
              C2SRuntime.m_pSocketListenerThread}
        [] ClassOf(o) = "C2SSocketListener" -> acceptHandlers \cup {C2SSocketListener.m_pSocketInfo}
        [] ClassOf(o) = "C2SSocketListenerThread" -> threads
        [] ClassOf(o) = "C2SLogImplSimpleMessage" -> {C2SLogBase.m_pLogMutex}
        [] ClassOf(o) = "C2SSocketAcceptHandler" -> {C2SSocketAcceptHandler(a).m_pDataPull}
        [] ClassOf(o) = "C2SHttpDataPull" ->
             ({C2SHttpDataPull(a).m_pRequest} \cap live) \cup {C2SHttpDataPull(a).m_pResourceManager}
        [] ClassOf(o) = "C2SHttpResourceManager" ->
             {C2SHttpResourceManager(a).m_pResponseHandler,
              C2SHttpResourceManager(a).m_pClonesOfResourcePrototypesList}
             \cup Clones(C2SHttpResourceManager(a).m_pClonesOfResourcePrototypesList)
        [] ClassOf(o) = "C2SHttpRequest" ->
             {C2SHttpRequest(a).m_pEntity, C2SHttpParser(a).m_body} \cap live
        [] ClassOf(o) = "C2SRestResourcePrototype" ->
             C2SRestResourcePrototype(a, x).m_registeredMethodPrototypes
        [] ClassOf(o) = "C2SRestMethodPrototype" ->
             C2SRestMethodPrototypeRequestEntity(a, x, m).m_requestEntityStreamersByMediaType
             \cup C2SRestMethodPrototypeResponseEntity(a, x, m).m_entityStreamersByTimeOfRegistration
             \cup C2SRestMethodPrototype(a, x, m).m_queryParameters
             \cup C2SRestPathSegmentList(a, x, m).m_pathSegments
        [] ClassOf(o) = "C2SRestPathParameter" -> {C2SRestPathParameter(o).m_pParameter}
        [] OTHER -> {}

(* The owner of an object, by its name. *)
OwnerOf(o) ==
  LET a == HandlerOf(o)
  IN  CASE ClassOf(o) \in {"C2STestServerRunner", "C2SMutex"} -> The("C2STestRestFixture")
        [] ClassOf(o) = "C2SHttpServer" -> The("C2STestServerRunner")
        [] ClassOf(o) \in {"C2SRuntime", "C2SHttpDataHandlingImpl"} -> The("C2SHttpServer")
        [] ClassOf(o) \in {"C2SHttpResourcePrototypeList", "C2SRestResourcePrototype"} ->
             IF a = Shared THEN The("C2SHttpServer") ELSE Of("C2SHttpResourceManager", a)
        [] ClassOf(o) \in {"C2SSocketListener", "C2SLogSimpleMessageFactory",
                           "C2SLogImplSimpleMessage", "C2SSocketListenerThread"} -> The("C2SRuntime")
        [] ClassOf(o) = "C2SLogMutex" -> The("C2SLogImplSimpleMessage")
        [] ClassOf(o) \in {"C2SSocketAcceptHandler", "C2SSocketInfo"} -> The("C2SSocketListener")
        [] ClassOf(o) = "pthread_t" -> The("C2SSocketListenerThread")
        [] ClassOf(o) = "C2SHttpDataPull" -> Of("C2SSocketAcceptHandler", a)
        [] ClassOf(o) \in {"C2SHttpRequest", "C2SHttpResourceManager"} -> Of("C2SHttpDataPull", a)
        [] ClassOf(o) = "C2SHttpResourceManagerResponseHandler" -> Of("C2SHttpResourceManager", a)
        [] ClassOf(o) \in {"C2SHttpEntity", "char[]"} -> Of("C2SHttpRequest", a)
        [] ClassOf(o) = "C2SRestMethodPrototype" -> RestResource(a, NameOf(o)[1])
        [] ClassOf(o) \in {"C2SRestPathSegment", "C2SRestPathParameter", "C2SRestQueryParameter",
                           "C2SHttpEntityStreamer", "C2SHttpEntityUnstreamer"} ->
             Object("C2SRestMethodPrototype", a, NameOf(o), 0)
        [] ClassOf(o) = "C2SRestParameter" -> Object("C2SRestPathParameter", a, NameOf(o), o[4])
        [] OTHER -> <<>>

(* What an object deletes is its own. *)
LEMMA OwnsItsOwn ==
  ASSUME NEW o, Named(o), NEW live, NEW acceptHandlers, NEW threads, NEW S,
         \A h \in acceptHandlers : ClassOf(h) = "C2SSocketAcceptHandler",
         \A t \in threads : ClassOf(t) = "pthread_t",
         NEW p \in Owns(o, live, acceptHandlers, threads, S)
  PROVE  OwnerOf(p) = o
<1> USE DEF Named, Owns, OwnerOf, Object, The, Of, ClassOf, HandlerOf, NameOf, Singles, PerHandler,
            Shared
<1>1. CASE ClassOf(o) \in {"C2STestRestFixture", "C2STestServerRunner"}
  BY <1>1 DEF C2STestRestFixture, C2STestServerRunner
<1>2. CASE ClassOf(o) = "C2SHttpServer"
  BY <1>2 DEF C2SHttpServer, C2SHttpResourcePrototypeList, RestResource
<1>3. CASE ClassOf(o) \in {"C2SRuntime", "C2SSocketListener", "C2SSocketListenerThread",
                           "C2SLogImplSimpleMessage"}
  BY <1>3 DEF C2SRuntime, C2SSocketListener, C2SLogBase
<1>4. CASE ClassOf(o) = "C2SSocketAcceptHandler"
  BY <1>4 DEF C2SSocketAcceptHandler
<1>5. CASE ClassOf(o) = "C2SHttpDataPull"
  BY <1>5 DEF C2SHttpDataPull
<1>6. CASE ClassOf(o) = "C2SHttpResourceManager"
  BY <1>6 DEF C2SHttpResourceManager, C2SHttpResourcePrototypeList, RestResource
<1>7. CASE ClassOf(o) = "C2SHttpRequest"
  BY <1>7 DEF C2SHttpRequest, C2SHttpParser
<1>8. CASE ClassOf(o) = "C2SRestResourcePrototype"
  BY <1>8 DEF C2SRestResourcePrototype, RestResource
<1>9. CASE ClassOf(o) = "C2SRestMethodPrototype"
  BY <1>9 DEF C2SRestMethodPrototypeRequestEntity, C2SRestMethodPrototypeResponseEntity,
              C2SRestMethodPrototype, C2SRestPathSegmentList, Parts
<1>10. CASE ClassOf(o) = "C2SRestPathParameter"
  BY <1>10 DEF C2SRestPathParameter
<1>11. QED
  BY <1>1, <1>2, <1>3, <1>4, <1>5, <1>6, <1>7, <1>8, <1>9, <1>10

-----------------------------------------------------------------------------
(* What the destructors do is in order. *)

OpKinds == {"delete", "clear", "free", "detach"}

(* A list is deleted after its elements, and the entity of a request before *)
(* the body that it points into.                                            *)
ClearsThenDeletes(ops) ==
  \A i \in DOMAIN ops : ops[i][1] = "clear" => \E j \in DOMAIN ops : i < j /\ ops[j] = Delete(ops[i][2])

EntityFirst(ops, live) ==
  \A i \in DOMAIN ops :
    LET a == HandlerOf(ops[i][2])
    IN  ops[i][2] = C2SHttpParser(a).m_body /\ C2SHttpRequest(a).m_pEntity \in live =>
          \E j \in DOMAIN ops : j < i /\ ops[j] = Delete(C2SHttpRequest(a).m_pEntity)

(* The operations of one destructor: on objects of U, deleting what is owned. *)
Orderly(ops, U, owned, threads, live, S) ==
  /\ ops \in Seq(OpKinds \X U)
  /\ AllTargets(ops, S) = owned
  /\ TargetsOnce(ops, S)
  /\ \A i \in DOMAIN ops : /\ ops[i][1] # "free"
                           /\ ops[i][1] = "detach" => ops[i][2] \in threads
  /\ ClearsThenDeletes(ops)
  /\ EntityFirst(ops, live)

(* The order is kept when more work follows, ... *)
LEMMA ConcatOrder ==
  ASSUME NEW T, NEW s \in Seq(T), NEW t \in Seq(T), NEW live
  PROVE  /\ ClearsThenDeletes(s) /\ ClearsThenDeletes(t) => ClearsThenDeletes(s \o t)
         /\ EntityFirst(s, live) /\ EntityFirst(t, live) => EntityFirst(s \o t, live)
<1> DEFINE u == s \o t
<1>1. /\ Len(u) = Len(s) + Len(t)
      /\ Len(s) \in Nat /\ Len(t) \in Nat /\ DOMAIN s = 1..Len(s) /\ DOMAIN t = 1..Len(t)
      /\ DOMAIN u = 1..Len(u)
      /\ \A i \in 1..Len(s) : u[i] = s[i]
      /\ \A i \in 1..Len(t) : u[Len(s) + i] = t[i]
  OBVIOUS
<1> HIDE DEF u
<1>2. \A i \in DOMAIN u : \/ i \in DOMAIN s /\ u[i] = s[i]
                          \/ i - Len(s) \in DOMAIN t /\ u[i] = t[i - Len(s)]
  <2>1. SUFFICES ASSUME NEW i \in 1..Len(u), i \notin 1..Len(s)
                 PROVE  i - Len(s) \in 1..Len(t) /\ u[i] = t[i - Len(s)]
    BY <1>1
  <2>2. i - Len(s) \in 1..Len(t) /\ Len(s) + (i - Len(s)) = i
    BY <1>1, <2>1
  <2>3. QED
    BY <1>1, <2>2
<1>3. /\ \A i \in DOMAIN s : i \in DOMAIN u /\ u[i] = s[i]
      /\ \A i \in DOMAIN t : Len(s) + i \in DOMAIN u /\ u[Len(s) + i] = t[i]
  BY <1>1
<1>4. ASSUME ClearsThenDeletes(s), ClearsThenDeletes(t) PROVE ClearsThenDeletes(u)
  <2>1. SUFFICES ASSUME NEW i \in DOMAIN u, u[i][1] = "clear"
                 PROVE  \E j \in DOMAIN u : i < j /\ u[j] = Delete(u[i][2])
    BY DEF ClearsThenDeletes
  <2>2. CASE i \in DOMAIN s /\ u[i] = s[i]
    <3>1. PICK j \in DOMAIN s : i < j /\ s[j] = Delete(s[i][2])
      BY <1>4, <2>1, <2>2 DEF ClearsThenDeletes
    <3>2. QED
      BY <1>3, <2>2, <3>1
  <2>3. CASE i - Len(s) \in DOMAIN t /\ u[i] = t[i - Len(s)]
    <3>1. PICK j \in DOMAIN t : i - Len(s) < j /\ t[j] = Delete(t[i - Len(s)][2])
      BY <1>4, <2>1, <2>3 DEF ClearsThenDeletes
    <3>2. Len(s) + j \in DOMAIN u /\ u[Len(s) + j] = t[j] /\ i < Len(s) + j
      BY <1>1, <1>3, <3>1
    <3>3. QED
      BY <2>3, <3>1, <3>2
  <2>4. QED
    BY <1>2, <2>2, <2>3
<1>5. ASSUME EntityFirst(s, live), EntityFirst(t, live) PROVE EntityFirst(u, live)
  <2>1. SUFFICES ASSUME NEW i \in DOMAIN u, NEW a, a = HandlerOf(u[i][2]),
                        u[i][2] = C2SHttpParser(a).m_body, C2SHttpRequest(a).m_pEntity \in live
                 PROVE  \E j \in DOMAIN u : j < i /\ u[j] = Delete(C2SHttpRequest(a).m_pEntity)
    BY DEF EntityFirst
  <2>2. CASE i \in DOMAIN s /\ u[i] = s[i]
    <3>1. PICK j \in DOMAIN s : j < i /\ s[j] = Delete(C2SHttpRequest(a).m_pEntity)
      BY <1>5, <2>1, <2>2 DEF EntityFirst
    <3>2. QED
      BY <1>3, <3>1
  <2>3. CASE i - Len(s) \in DOMAIN t /\ u[i] = t[i - Len(s)]
    <3>1. PICK j \in DOMAIN t :
            j < i - Len(s) /\ t[j] = Delete(C2SHttpRequest(a).m_pEntity)
      BY <1>5, <2>1, <2>3 DEF EntityFirst
    <3>2. Len(s) + j \in DOMAIN u /\ u[Len(s) + j] = t[j] /\ Len(s) + j < i
      BY <1>1, <1>3, <3>1
    <3>3. QED
      BY <3>1, <3>2
  <2>4. QED
    BY <1>2, <2>2, <2>3
<1>6. QED
  BY <1>4, <1>5 DEF u

(* ... and when the first of it is done: a body that is left has lost its    *)
(* entity, if that was deleted.                                             *)
LEMMA TailOrder ==
  ASSUME NEW T, NEW s \in Seq(T), s # <<>>, NEW live, NEW heap2 \in SUBSET live,
         \A a : Head(s) = Delete(C2SHttpRequest(a).m_pEntity) =>
                  C2SHttpRequest(a).m_pEntity \notin heap2
  PROVE  /\ ClearsThenDeletes(s) => ClearsThenDeletes(Tail(s))
         /\ EntityFirst(s, live) => EntityFirst(Tail(s), heap2)
<1> DEFINE u == Tail(s)
<1>1. /\ Len(s) \in Nat \ {0} /\ Head(s) = s[1] /\ DOMAIN s = 1..Len(s)
      /\ Len(u) = Len(s) - 1 /\ DOMAIN u = 1..Len(u)
      /\ \A i \in 1..Len(u) : u[i] = s[i + 1]
  BY HeadTailProperties
<1> HIDE DEF u
<1>2. /\ \A i \in DOMAIN u : i \in Nat /\ i + 1 \in DOMAIN s /\ u[i] = s[i + 1]
      /\ \A i \in DOMAIN s : i \in Nat /\ (i # 1 => i - 1 \in DOMAIN u /\ u[i - 1] = s[i] /\ i > 1)
  BY <1>1
<1>3. ASSUME ClearsThenDeletes(s) PROVE ClearsThenDeletes(u)
  <2>1. SUFFICES ASSUME NEW i \in DOMAIN u, u[i][1] = "clear"
                 PROVE  \E j \in DOMAIN u : i < j /\ u[j] = Delete(u[i][2])
    BY DEF ClearsThenDeletes
  <2>2. PICK j \in DOMAIN s : i + 1 < j /\ s[j] = Delete(s[i + 1][2])
    BY <1>2, <1>3, <2>1 DEF ClearsThenDeletes
  <2>3. j # 1 /\ i < j - 1
    BY <1>2, <2>1, <2>2
  <2>4. QED
    BY <1>2, <2>1, <2>2, <2>3
<1>4. ASSUME EntityFirst(s, live) PROVE EntityFirst(u, heap2)
  <2>1. SUFFICES ASSUME NEW i \in DOMAIN u, NEW a, a = HandlerOf(u[i][2]),
                        u[i][2] = C2SHttpParser(a).m_body, C2SHttpRequest(a).m_pEntity \in heap2
                 PROVE  \E j \in DOMAIN u : j < i /\ u[j] = Delete(C2SHttpRequest(a).m_pEntity)
    BY DEF EntityFirst
  <2>2. i + 1 \in DOMAIN s /\ u[i] = s[i + 1] /\ i \in Nat
    BY <1>2
  <2>3. PICK j \in DOMAIN s : j < i + 1 /\ s[j] = Delete(C2SHttpRequest(a).m_pEntity)
    BY <1>4, <2>1, <2>2 DEF EntityFirst
  <2>4. j # 1
    BY <1>1, <2>1, <2>3
  <2>5. j - 1 \in DOMAIN u /\ u[j - 1] = s[j] /\ j - 1 < i
    BY <1>2, <2>2, <2>3, <2>4
  <2>6. QED
    BY <2>3, <2>5
<1>5. QED
  BY <1>3, <1>4 DEF u

(* Orderly work after orderly work. *)
LEMMA OrderlyConcat ==
  ASSUME NEW U, NEW p, NEW q, NEW threads, NEW live, NEW S, NEW s, NEW t,
         Orderly(s, U, p, threads, live, S), Orderly(t, U, q, threads, live, S), p \cap q = {}
  PROVE  Orderly(s \o t, U, p \cup q, threads, live, S)
<1> DEFINE T == OpKinds \X U
           u == s \o t
<1>1. s \in Seq(T) /\ t \in Seq(T)
  BY DEF Orderly
<1>2. /\ u \in Seq(T) /\ AllTargets(u, S) = p \cup q /\ TargetsOnce(u, S)
      /\ Range(u) = Range(s) \cup Range(t)
  BY <1>1, ConcatFacts DEF Orderly
<1>3. ClearsThenDeletes(u) /\ EntityFirst(u, live)
  BY <1>1, ConcatOrder DEF Orderly
<1> HIDE DEF u
<1>4. \A i \in DOMAIN u : u[i] \in Range(s) \/ u[i] \in Range(t)
  BY <1>2 DEF Range
<1>5. \A i \in DOMAIN u : u[i][1] # "free" /\ (u[i][1] = "detach" => u[i][2] \in threads)
  BY <1>4 DEF Range, Orderly
<1>6. QED
  BY <1>2, <1>3, <1>5 DEF Orderly, u

(* Deletes of different objects are orderly. *)
LEMMA OrderlyDeletes ==
  ASSUME NEW U, NEW ops \in Seq(OpKinds \X U), NEW p, NEW threads, NEW live, NEW S,
         \A i \in DOMAIN ops : ops[i][1] = "delete" /\ ops[i][2] \in p,
         \A o \in p : \E i \in DOMAIN ops : ops[i][2] = o,
         \A i, j \in DOMAIN ops : i # j => ops[i][2] # ops[j][2],
         EntityFirst(ops, live)
  PROVE  Orderly(ops, U, p, threads, live, S)
<1>1. \A i \in DOMAIN ops : Targets(ops[i], S) = {ops[i][2]}
  BY DEF Targets
<1>2. AllTargets(ops, S) = p /\ TargetsOnce(ops, S)
  BY <1>1 DEF AllTargets, TargetsOnce
<1>3. ClearsThenDeletes(ops)
  BY DEF ClearsThenDeletes
<1>4. QED
  BY <1>2, <1>3 DEF Orderly

(* Only the body of a request has to wait for another object. *)
LEMMA EntityFirstOfOthers ==
  ASSUME NEW ops, NEW live, \A i \in DOMAIN ops : ClassOf(ops[i][2]) # "char[]"
  PROVE  EntityFirst(ops, live)
BY DEF EntityFirst, C2SHttpParser, Of, Object, ClassOf

(* Deleting a set is orderly ... *)
LEMMA OrderlyDeleteAll ==
  ASSUME NEW U, NEW p \in SUBSET U, IsFiniteSet(p), NEW threads, NEW live, NEW S,
         \A o \in p : ClassOf(o) # "char[]"
  PROVE  Orderly(DeleteAll(p), U, p, threads, live, S)
<1> DEFINE d == DeleteAll(p)
<1>1. /\ d \in Seq({Delete(o) : o \in p}) /\ AllTargets(d, S) = p /\ TargetsOnce(d, S)
  BY DeleteAllFacts
<1> HIDE DEF d
<1>2. {Delete(o) : o \in p} \subseteq OpKinds \X U
  BY DEF Delete, OpKinds
<1>3. d \in Seq(OpKinds \X U)
  BY <1>1, <1>2, SeqMonotonic
<1>4. \A i \in DOMAIN d : \E o \in p : d[i] = Delete(o)
  BY <1>1
<1>5. \A i \in DOMAIN d : d[i][1] = "delete" /\ d[i][2] \in p
  BY <1>4 DEF Delete
<1>6. ClearsThenDeletes(d)
  BY <1>5 DEF ClearsThenDeletes
<1>7. EntityFirst(d, live)
  BY <1>5, EntityFirstOfOthers
<1>8. QED
  BY <1>1, <1>3, <1>5, <1>6, <1>7 DEF Orderly, d

(* ... and so is deleting one object, ... *)
LEMMA OrderlyDelete ==
  ASSUME NEW U, NEW o \in U, NEW threads, NEW live, NEW S, ClassOf(o) # "char[]"
  PROVE  Orderly(<<Delete(o)>>, U, {o}, threads, live, S)
<1> DEFINE d == <<Delete(o)>>
<1>1. Delete(o) \in OpKinds \X U /\ Delete(o)[1] = "delete" /\ Delete(o)[2] = o
  BY DEF Delete, OpKinds
<1>2. d \in Seq(OpKinds \X U) /\ DOMAIN d = {1} /\ d[1] = Delete(o)
  BY <1>1
<1> HIDE DEF d
<1>3. EntityFirst(d, live)
  BY <1>1, <1>2, EntityFirstOfOthers
<1>4. QED
  BY <1>1, <1>2, <1>3, OrderlyDeletes DEF d

(* ... two objects ... *)
LEMMA OrderlyDelete2 ==
  ASSUME NEW U, NEW o \in U, NEW q \in U, NEW threads, NEW live, NEW S,
         ClassOf(o) # "char[]", ClassOf(q) # "char[]", o # q
  PROVE  Orderly(<<Delete(o), Delete(q)>>, U, {o, q}, threads, live, S)
<1> DEFINE d == <<Delete(o), Delete(q)>>
<1>1. /\ Delete(o) \in OpKinds \X U /\ Delete(o)[1] = "delete" /\ Delete(o)[2] = o
      /\ Delete(q) \in OpKinds \X U /\ Delete(q)[1] = "delete" /\ Delete(q)[2] = q
  BY DEF Delete, OpKinds
<1>2. d \in Seq(OpKinds \X U) /\ DOMAIN d = {1, 2} /\ d[1] = Delete(o) /\ d[2] = Delete(q)
  BY <1>1
<1> HIDE DEF d
<1>3. EntityFirst(d, live)
  BY <1>1, <1>2, EntityFirstOfOthers
<1>4. \A x \in {o, q} : \E i \in DOMAIN d : d[i][2] = x
  BY <1>1, <1>2
<1>5. QED
  BY <1>1, <1>2, <1>3, <1>4, OrderlyDeletes DEF d

(* ... or four of them, ... *)
LEMMA OrderlyDelete4 ==
  ASSUME NEW U, NEW o \in U, NEW q \in U, NEW r \in U, NEW t \in U,
         NEW threads, NEW live, NEW S, o # q, o # r, o # t, q # r, q # t, r # t,
         ClassOf(o) # "char[]", ClassOf(q) # "char[]", ClassOf(r) # "char[]", ClassOf(t) # "char[]"
  PROVE  Orderly(<<Delete(o), Delete(q), Delete(r), Delete(t)>>, U, {o, q, r, t}, threads, live, S)
<1> DEFINE d == <<Delete(o), Delete(q), Delete(r), Delete(t)>>
<1>1. \A x \in U : Delete(x) \in OpKinds \X U /\ Delete(x)[1] = "delete" /\ Delete(x)[2] = x
  BY DEF Delete, OpKinds
<1>2. /\ d \in Seq(OpKinds \X U) /\ DOMAIN d = {1, 2, 3, 4}
      /\ d[1] = Delete(o) /\ d[2] = Delete(q) /\ d[3] = Delete(r) /\ d[4] = Delete(t)
  BY <1>1
<1> HIDE DEF d
<1>3. EntityFirst(d, live)
  BY <1>1, <1>2, EntityFirstOfOthers
<1>4. \A x \in {o, q, r, t} : \E i \in DOMAIN d : d[i][2] = x
  BY <1>1, <1>2
<1>5. \A i \in DOMAIN d : d[i][1] = "delete" /\ d[i][2] \in {o, q, r, t}
  BY <1>1, <1>2
<1>6. \A i, j \in DOMAIN d : i # j => d[i][2] # d[j][2]
  BY <1>1, <1>2
<1>7. QED
  BY <1>2, <1>3, <1>4, <1>5, <1>6, OrderlyDeletes DEF d

(* ... and clearing a list before it is deleted. *)
LEMMA OrderlyClear ==
  ASSUME NEW U, NEW list \in U, NEW threads, NEW live, NEW S, NEW clones,
         clones = C2SHttpResourcePrototypeList(list, S).m_listOfResourcePrototypes,
         list \notin clones, ClassOf(list) # "char[]"
  PROVE  Orderly(<<Clear(list), Delete(list)>>, U, {list} \cup clones, threads, live, S)
<1> DEFINE d == <<Clear(list), Delete(list)>>
<1>1. /\ Delete(list) \in OpKinds \X U /\ Delete(list)[1] = "delete" /\ Delete(list)[2] = list
      /\ Clear(list) \in OpKinds \X U /\ Clear(list)[1] = "clear" /\ Clear(list)[2] = list
  BY DEF Delete, Clear, OpKinds
<1>2. /\ d \in Seq(OpKinds \X U) /\ DOMAIN d = {1, 2}
      /\ d[1] = Clear(list) /\ d[2] = Delete(list)
  BY <1>1
<1> HIDE DEF d
<1>3. Targets(d[1], S) = clones /\ Targets(d[2], S) = {list}
  BY <1>1, <1>2 DEF Targets
<1>4. AllTargets(d, S) = {list} \cup clones /\ TargetsOnce(d, S)
  BY <1>2, <1>3 DEF AllTargets, TargetsOnce
<1>5. ClearsThenDeletes(d)
  <2>1. 1 < 2 /\ d[2] = Delete(d[1][2]) /\ d[2][1] # "clear"
    BY <1>1, <1>2
  <2>2. QED
    BY <1>2, <2>1 DEF ClearsThenDeletes
<1>6. EntityFirst(d, live)
  BY <1>1, <1>2, EntityFirstOfOthers
<1>7. QED
  BY <1>1, <1>2, <1>4, <1>5, <1>6 DEF Orderly, d

(* Nothing to do is orderly. *)
LEMMA OrderlyNothing ==
  ASSUME NEW U, NEW threads, NEW live, NEW S
  PROVE  Orderly(<<>>, U, {}, threads, live, S)
<1> DEFINE d == <<>>
<1>1. d \in Seq(OpKinds \X U) /\ DOMAIN d = {}
  OBVIOUS
<1> HIDE DEF d
<1>2. EntityFirst(d, live)
  BY <1>1, EntityFirstOfOthers
<1>3. QED
  BY <1>1, <1>2, OrderlyDeletes DEF d

-----------------------------------------------------------------------------
(* Short sequences, element by element. *)
LEMMA ConcatIs ==
  ASSUME NEW T, NEW f \in Seq(T), NEW g \in Seq(T), NEW e \in Seq(T), Len(e) = Len(f) + Len(g),
         \A i \in 1..Len(e) : e[i] = IF i <= Len(f) THEN f[i] ELSE g[i - Len(f)]
  PROVE  f \o g = e
<1>1. PICK u \in Seq(T) : u = f \o g
  BY ConcatProperties
<1>2. Len(u) = Len(e) /\ \A i \in 1..Len(e) : u[i] = e[i]
  BY <1>1, ConcatProperties
<1>3. QED
  BY <1>1, <1>2, SeqEqual

(* One after one ... *)
LEMMA Concat11 ==
  ASSUME NEW T, NEW a \in T, NEW b \in T
  PROVE  <<a>> \o <<b>> = <<a, b>>
<1>1. SUFFICES ASSUME NEW f, f = <<a>>, NEW g, g = <<b>>, NEW e, e = <<a, b>>
               PROVE  f \o g = e
  BY Zenon
<1>2. /\ f \in Seq(T) /\ Len(f) = 1
      /\ f[1] = a
  BY <1>1
<1>3. /\ g \in Seq(T) /\ Len(g) = 1
      /\ g[1] = b
  BY <1>1
<1>4. /\ e \in Seq(T) /\ Len(e) = 2
      /\ e[1] = a /\ e[2] = b
  BY <1>1
<1>5. /\ Len(e) = Len(f) + Len(g)
      /\ \A i \in 1..Len(e) : e[i] = IF i <= Len(f) THEN f[i] ELSE g[i - Len(f)]
  BY <1>2, <1>3, <1>4
<1>6. f \in Seq(T) /\ g \in Seq(T) /\ e \in Seq(T)
  BY <1>2, <1>3, <1>4
<1>7. QED
  BY <1>5, <1>6, ConcatIs

(* ... two after one ... *)
LEMMA Concat12 ==
  ASSUME NEW T, NEW a \in T, NEW b \in T, NEW c \in T
  PROVE  <<a>> \o <<b, c>> = <<a, b, c>>
<1>1. SUFFICES ASSUME NEW f, f = <<a>>, NEW g, g = <<b, c>>, NEW e, e = <<a, b, c>>
               PROVE  f \o g = e
  BY Zenon
<1>2. /\ f \in Seq(T) /\ Len(f) = 1
      /\ f[1] = a
  BY <1>1
<1>3. /\ g \in Seq(T) /\ Len(g) = 2
      /\ g[1] = b /\ g[2] = c
  BY <1>1
<1>4. /\ e \in Seq(T) /\ Len(e) = 3
      /\ e[1] = a /\ e[2] = b /\ e[3] = c
  BY <1>1
<1>5. /\ Len(e) = Len(f) + Len(g)
      /\ \A i \in 1..Len(e) : e[i] = IF i <= Len(f) THEN f[i] ELSE g[i - Len(f)]
  BY <1>2, <1>3, <1>4
<1>6. f \in Seq(T) /\ g \in Seq(T) /\ e \in Seq(T)
  BY <1>2, <1>3, <1>4
<1>7. QED
  BY <1>5, <1>6, ConcatIs

(* ... and two after two. *)
LEMMA Concat22 ==
  ASSUME NEW T, NEW a \in T, NEW b \in T, NEW c \in T, NEW d \in T
  PROVE  <<a, b>> \o <<c, d>> = <<a, b, c, d>>
<1>1. SUFFICES ASSUME NEW f, f = <<a, b>>, NEW g, g = <<c, d>>, NEW e, e = <<a, b, c, d>>
               PROVE  f \o g = e
  BY Zenon
<1>2. /\ f \in Seq(T) /\ Len(f) = 2
      /\ f[1] = a /\ f[2] = b
  BY <1>1
<1>3. /\ g \in Seq(T) /\ Len(g) = 2
      /\ g[1] = c /\ g[2] = d
  BY <1>1
<1>4. /\ e \in Seq(T) /\ Len(e) = 4
      /\ e[1] = a /\ e[2] = b /\ e[3] = c /\ e[4] = d
  BY <1>1
<1>5. /\ Len(e) = Len(f) + Len(g)
      /\ \A i \in 1..Len(e) : e[i] = IF i <= Len(f) THEN f[i] ELSE g[i - Len(f)]
  BY <1>2, <1>3, <1>4
<1>6. f \in Seq(T) /\ g \in Seq(T) /\ e \in Seq(T)
  BY <1>2, <1>3, <1>4
<1>7. QED
  BY <1>5, <1>6, ConcatIs

-----------------------------------------------------------------------------
(* Every destructor is orderly. *)

(* What a destructor deletes in a loop is finite. *)

(* So is what there is one of for each element of a finite set, ... *)
LEMMA ImageIsFinite ==
  ASSUME NEW I, IsFiniteSet(I), NEW f, DOMAIN f = I, f = [i \in I |-> f[i]]
  PROVE  IsFiniteSet({f[i] : i \in I})
<1>1. f \in Surjection(I, {f[i] : i \in I})
  BY DEF Surjection
<1>2. QED
  BY <1>1, FS_Surjection

(* ... the parts of a method, ... *)
LEMMA PartsAreFinite ==
  ASSUME NEW class, NEW a, NEW x, NEW m \in DOMAIN PartsOf, NEW kind \in PartKinds
  PROVE  IsFiniteSet(Parts(class, a, x, m, kind))
<1> DEFINE n == PartsOf[m][kind]
           f == [i \in 1..n |-> Object(class, a, <<x, m>>, i)]
<1>1. n \in Nat
  BY HttpObjectsAssumption
<1>2. IsFiniteSet(1..n)
  <2>1. \A k \in Nat : IsFiniteSet(1..k)
    BY FS_Interval
  <2>2. QED
    BY <1>1, <2>1
<1>3. IsFiniteSet({f[i] : i \in 1..n})
  BY <1>2, ImageIsFinite
<1>4. {f[i] : i \in 1..n} = Parts(class, a, x, m, kind)
  BY DEF Parts
<1>5. QED
  BY <1>3, <1>4

(* ... and the methods of a resource. *)
LEMMA MethodsAreFinite ==
  ASSUME NEW a, NEW x \in Range(Resources)
  PROVE  IsFiniteSet(C2SRestResourcePrototype(a, x).m_registeredMethodPrototypes)
<1> DEFINE f == [m \in MethodsOf[x] |-> Object("C2SRestMethodPrototype", a, <<x, m>>, 0)]
<1>1. IsFiniteSet(MethodsOf[x])
  BY HttpObjectsAssumption, FS_Subset
<1>2. IsFiniteSet({f[m] : m \in MethodsOf[x]})
  BY <1>1, ImageIsFinite
<1>3. {f[m] : m \in MethodsOf[x]} = C2SRestResourcePrototype(a, x).m_registeredMethodPrototypes
  BY DEF C2SRestResourcePrototype
<1>4. QED
  BY <1>2, <1>3

(* The destructor of a method deletes the parts of each kind in turn. *)
LEMMA MethodDestructorIsOrderly ==
  ASSUME NEW a, NEW x, NEW m \in DOMAIN PartsOf, NEW threads, NEW live, NEW S, NEW U, NEW owned,
         owned =
           C2SRestMethodPrototypeRequestEntity(a, x, m).m_requestEntityStreamersByMediaType
           \cup C2SRestMethodPrototypeResponseEntity(a, x, m).m_entityStreamersByTimeOfRegistration
           \cup C2SRestMethodPrototype(a, x, m).m_queryParameters
           \cup C2SRestPathSegmentList(a, x, m).m_pathSegments,
         owned \subseteq U
  PROVE  Orderly(MethodDestructor(a, x, m), U, owned, threads, live, S)
<1>1. PICK u, s, q, g, p :
         /\ u = Parts("C2SHttpEntityUnstreamer", a, x, m, "unstreamers")
         /\ s = Parts("C2SHttpEntityStreamer", a, x, m, "streamers")
         /\ q = Parts("C2SRestQueryParameter", a, x, m, "queryParameters")
         /\ g = Parts("C2SRestPathSegment", a, x, m, "segments")
         /\ p = Parts("C2SRestPathParameter", a, x, m, "parameters")
  OBVIOUS
<1>2. /\ IsFiniteSet(u) /\ IsFiniteSet(s) /\ IsFiniteSet(q) /\ IsFiniteSet(g) /\ IsFiniteSet(p)
  BY <1>1, PartsAreFinite DEF PartKinds
<1>3. IsFiniteSet(g \cup p)
  BY <1>2, FS_Union
<1>4. /\ \A o \in u : ClassOf(o) = "C2SHttpEntityUnstreamer"
      /\ \A o \in s : ClassOf(o) = "C2SHttpEntityStreamer"
      /\ \A o \in q : ClassOf(o) = "C2SRestQueryParameter"
      /\ \A o \in g \cup p : ClassOf(o) \in {"C2SRestPathSegment", "C2SRestPathParameter"}
  BY <1>1 DEF Parts, Object, ClassOf
<1>5. /\ UnstreamersDeleted(a, x, m) = DeleteAll(u) /\ StreamersDeleted(a, x, m) = DeleteAll(s)
      /\ QueryParametersDeleted(a, x, m) = DeleteAll(q)
      /\ PathSegmentsDeleted(a, x, m) = DeleteAll(g \cup p)
      /\ owned = u \cup s \cup q \cup (g \cup p)
  BY <1>1 DEF UnstreamersDeleted, StreamersDeleted, QueryParametersDeleted, PathSegmentsDeleted,
     C2SRestMethodPrototypeRequestEntity, C2SRestMethodPrototypeResponseEntity,
     C2SRestMethodPrototype, C2SRestPathSegmentList
<1>6. u \in SUBSET U /\ s \in SUBSET U /\ q \in SUBSET U /\ g \cup p \in SUBSET U
  BY <1>5
<1>7. Orderly(DeleteAll(u), U, u, threads, live, S)
  BY <1>2, <1>4, <1>6, OrderlyDeleteAll
<1>8. Orderly(DeleteAll(s), U, s, threads, live, S)
  BY <1>2, <1>4, <1>6, OrderlyDeleteAll
<1>9. Orderly(DeleteAll(q), U, q, threads, live, S)
  BY <1>2, <1>4, <1>6, OrderlyDeleteAll
<1>10. PICK gp : gp = g \cup p
  OBVIOUS
<1>11. Orderly(DeleteAll(gp), U, gp, threads, live, S)
  BY <1>3, <1>4, <1>6, <1>10, OrderlyDeleteAll
<1>12. u \cap s = {} /\ (u \cup s) \cap q = {} /\ (u \cup s \cup q) \cap gp = {}
  BY <1>4, <1>10
<1>13. Orderly(DeleteAll(u) \o DeleteAll(s), U, u \cup s, threads, live, S)
  BY <1>7, <1>8, <1>12, OrderlyConcat
<1>14. Orderly(DeleteAll(u) \o DeleteAll(s) \o DeleteAll(q), U, u \cup s \cup q, threads, live, S)
  BY <1>9, <1>12, <1>13, OrderlyConcat
<1>15. Orderly(DeleteAll(u) \o DeleteAll(s) \o DeleteAll(q) \o DeleteAll(gp), U,
               u \cup s \cup q \cup gp, threads, live, S)
  BY <1>11, <1>12, <1>14, OrderlyConcat
<1>16. QED
  BY <1>5, <1>10, <1>15 DEF MethodDestructor

(* The destructor of a request deletes the entity before the body. *)
LEMMA RequestDestructorIsOrderly ==
  ASSUME NEW a, NEW threads, NEW live, NEW S, NEW U, NEW owned,
         owned = {C2SHttpRequest(a).m_pEntity, C2SHttpParser(a).m_body} \cap live,
         owned \subseteq U
  PROVE  Orderly(RequestDestructor(a, live), U, owned, threads, live, S)
<1>1. PICK e, b : e = C2SHttpRequest(a).m_pEntity /\ b = C2SHttpParser(a).m_body
  OBVIOUS
<1>2. /\ ClassOf(e) = "C2SHttpEntity" /\ HandlerOf(b) = a
      /\ \A c : b = C2SHttpParser(c).m_body => c = a
      /\ e # b
  BY <1>1 DEF C2SHttpRequest, C2SHttpParser, Of, Object, ClassOf, HandlerOf
<1>3. IsFiniteSet({e} \cap live) /\ IsFiniteSet({b} \cap live)
  <2>1. \A x : IsFiniteSet({x}) /\ {x} \cap live \in SUBSET {x}
    BY FS_Singleton
  <2>2. \A x : IsFiniteSet({x} \cap live)
    BY <2>1, FS_Subset
  <2>3. QED
    BY <2>2
<1>4. PICK s, t : s = DeleteAll({e} \cap live) /\ t = DeleteAll({b} \cap live)
  OBVIOUS
<1>5. /\ s \in Seq({Delete(o) : o \in {e} \cap live}) /\ AllTargets(s, S) = {e} \cap live
      /\ TargetsOnce(s, S) /\ Range(s) = {Delete(o) : o \in {e} \cap live}
  BY <1>3, <1>4, DeleteAllFacts
<1>6. /\ t \in Seq({Delete(o) : o \in {b} \cap live}) /\ AllTargets(t, S) = {b} \cap live
      /\ TargetsOnce(t, S)
  BY <1>3, <1>4, DeleteAllFacts
<1>7. PICK T : T = {Delete(o) : o \in owned}
  OBVIOUS
<1>8. s \in Seq(T) /\ t \in Seq(T)
  <2>1. {Delete(o) : o \in {e} \cap live} \subseteq T /\ {Delete(o) : o \in {b} \cap live} \subseteq T
    BY <1>1, <1>7
  <2>2. QED
    BY <1>5, <1>6, <2>1, SeqMonotonic
<1>9. PICK u : u = s \o t
  OBVIOUS
<1>10. u \in Seq(T) /\ AllTargets(u, S) = owned /\ TargetsOnce(u, S)
  <2>1. /\ AllTargets(s, S) \cap AllTargets(t, S) = {}
        /\ AllTargets(s, S) \cup AllTargets(t, S) = owned
    BY <1>1, <1>2, <1>5, <1>6
  <2>2. QED
    BY <1>5, <1>6, <1>8, <1>9, <2>1, ConcatFacts
<1>11. u \in Seq(OpKinds \X U)
  <2>1. T \subseteq OpKinds \X U
    BY <1>7 DEF Delete, OpKinds
  <2>2. QED
    BY <1>10, <2>1, SeqMonotonic
<1>12. \A i \in DOMAIN u : u[i][1] = "delete" /\ u[i][2] \in owned
  BY <1>7, <1>10 DEF Delete
<1>13. EntityFirst(u, live)
  <2>1. SUFFICES ASSUME NEW i \in DOMAIN u, NEW c, c = HandlerOf(u[i][2]),
                        u[i][2] = C2SHttpParser(c).m_body, C2SHttpRequest(c).m_pEntity \in live
                 PROVE  \E j \in DOMAIN u : j < i /\ u[j] = Delete(C2SHttpRequest(c).m_pEntity)
    BY DEF EntityFirst
  <2>2. u[i][2] = b /\ c = a
    <3>1. ClassOf(u[i][2]) = "char[]"
      BY <2>1 DEF C2SHttpParser, Of, Object, ClassOf
    <3>2. u[i][2] = b
      BY <1>1, <1>2, <1>12, <3>1
    <3>3. QED
      BY <1>2, <2>1, <3>2
  <2>3. /\ Len(s) \in Nat /\ DOMAIN s = 1..Len(s) /\ DOMAIN u = 1..Len(s) + Len(t) /\ Len(t) \in Nat
        /\ \A k \in DOMAIN s : u[k] = s[k]
    BY <1>8, <1>9, ConcatProperties
  <2>4. i \notin DOMAIN s
    <3>1. \A k \in DOMAIN s : s[k][2] = e
      BY <1>5 DEF Delete
    <3>2. QED
      BY <1>2, <2>2, <2>3, <3>1
  <2>5. PICK j \in DOMAIN s : s[j] = Delete(e)
    <3>1. Delete(e) \in Range(s)
      BY <1>1, <1>5, <2>1, <2>2
    <3>2. QED
      BY <3>1 DEF Range
  <2>6. j \in DOMAIN u /\ j < i
    BY <2>3, <2>4, <2>5
  <2>7. QED
    BY <1>1, <2>2, <2>3, <2>5, <2>6
<1>14. Orderly(u, U, owned, threads, live, S)
  BY <1>10, <1>11, <1>12, <1>13 DEF Orderly, ClearsThenDeletes
<1>15. QED
  BY <1>1, <1>4, <1>9, <1>14 DEF RequestDestructor, ParserDestructor

(* A destructor deletes what its object owns. *)
LEMMA DestructorIsOrderly ==
  ASSUME NEW o, Named(o), NEW live, NEW acceptHandlers, NEW threads, NEW S, NEW U, NEW owned,
         IsFiniteSet(acceptHandlers), IsFiniteSet(threads),
         \A h \in acceptHandlers : ClassOf(h) = "C2SSocketAcceptHandler",
         \A t \in threads : ClassOf(t) = "pthread_t",
         owned = Owns(o, live, acceptHandlers, threads, S), owned \subseteq U
  PROVE  Orderly(Destructor(o, live, acceptHandlers, threads), U, owned, threads, live, S)
<1> DEFINE a == HandlerOf(o)
           ops == Destructor(o, live, acceptHandlers, threads)
           Good(s) == Orderly(s, U, owned, threads, live, S)
<1>1. CASE ClassOf(o) = "C2STestRestFixture"
  <2>1. /\ ops = <<Delete(C2STestRestFixture.m_sr), Delete(C2STestRestFixture.pGlobalMutex)>>
        /\ owned = {C2STestRestFixture.m_sr, C2STestRestFixture.pGlobalMutex}
    BY <1>1 DEF Destructor, Owns, FixtureDestructor
  <2>2. /\ ClassOf(C2STestRestFixture.m_sr) = "C2STestServerRunner"
        /\ ClassOf(C2STestRestFixture.pGlobalMutex) = "C2SMutex"
    BY DEF C2STestRestFixture, The, Object, ClassOf
  <2>3. QED
    BY <2>1, <2>2, OrderlyDelete2
<1>2. CASE ClassOf(o) = "C2STestServerRunner"
  <2>1. /\ ops = <<Delete(C2STestServerRunner.m_pHttpServerRuntime)>>
        /\ owned = {C2STestServerRunner.m_pHttpServerRuntime}
    BY <1>2 DEF Destructor, Owns, RunnerDestructor
  <2>2. ClassOf(C2STestServerRunner.m_pHttpServerRuntime) = "C2SHttpServer"
    BY DEF C2STestServerRunner, The, Object, ClassOf
  <2>3. QED
    BY <2>1, <2>2, OrderlyDelete
<1>3. CASE ClassOf(o) = "C2SHttpServer"
  <2>1. PICK r, d, l, c : /\ r = C2SHttpServer.m_pServiceRuntime
                          /\ d = C2SHttpServer.m_pHttpDataHandling
                          /\ l = C2SHttpServer.m_pHttpResourcePrototypes
                          /\ c = C2SHttpResourcePrototypeList(l, S).m_listOfResourcePrototypes
    OBVIOUS
  <2>2. /\ ClassOf(r) = "C2SRuntime" /\ ClassOf(d) = "C2SHttpDataHandlingImpl"
        /\ ClassOf(l) = "C2SHttpResourcePrototypeList"
        /\ \A x \in c : ClassOf(x) = "C2SRestResourcePrototype"
    BY <2>1 DEF C2SHttpServer, C2SHttpResourcePrototypeList, RestResource, The, Object, ClassOf
  <2>3. /\ ops = <<Delete(r), Delete(d), Clear(l), Delete(l)>>
        /\ owned = {r, d} \cup ({l} \cup c)
    BY <1>3, <2>1 DEF Destructor, Owns, ServerDestructor
  <2>4. Orderly(<<Delete(r), Delete(d)>>, U, {r, d}, threads, live, S)
    BY <2>2, <2>3, OrderlyDelete2
  <2>5. Orderly(<<Clear(l), Delete(l)>>, U, {l} \cup c, threads, live, S)
    BY <2>1, <2>2, <2>3, OrderlyClear
  <2>6. {r, d} \cap ({l} \cup c) = {}
    BY <2>2
  <2>7. Good(<<Delete(r), Delete(d)>> \o <<Clear(l), Delete(l)>>)
    BY <2>3, <2>4, <2>5, <2>6, OrderlyConcat
  <2>8. <<Delete(r), Delete(d)>> \o <<Clear(l), Delete(l)>> = ops
    <3>1. PICK T : {Delete(r), Delete(d), Clear(l), Delete(l)} \subseteq T
      OBVIOUS
    <3>2. QED
      BY <2>3, <3>1, Concat22
  <2>9. QED
    BY <2>7, <2>8
<1>4. CASE ClassOf(o) = "C2SRuntime"
  <2>1. PICK l, f, i, t : /\ l = C2SRuntime.m_pSocketListener /\ f = C2SRuntime.m_pLogFactory
                          /\ i = C2SRuntime.m_pLogInstance
                          /\ t = C2SRuntime.m_pSocketListenerThread
    OBVIOUS
  <2>2. /\ ClassOf(l) = "C2SSocketListener" /\ ClassOf(f) = "C2SLogSimpleMessageFactory"
        /\ ClassOf(i) = "C2SLogImplSimpleMessage" /\ ClassOf(t) = "C2SSocketListenerThread"
    BY <2>1 DEF C2SRuntime, The, Object, ClassOf
  <2>3. ops = <<Delete(l), Delete(f), Delete(i), Delete(t)>> /\ owned = {l, f, i, t}
    BY <1>4, <2>1 DEF Destructor, Owns, RuntimeDestructor
  <2>4. QED
    BY <2>2, <2>3, OrderlyDelete4
<1>5. CASE ClassOf(o) = "C2SSocketListener"
  <2>1. PICK i : i = C2SSocketListener.m_pSocketInfo
    OBVIOUS
  <2>2. ClassOf(i) = "C2SSocketInfo"
    BY <2>1 DEF C2SSocketListener, The, Object, ClassOf
  <2>3. /\ ops = DeleteAll(acceptHandlers) \o <<Delete(i)>>
        /\ owned = acceptHandlers \cup {i}
    BY <1>5, <2>1 DEF Destructor, Owns, ListenerDestructor
  <2>4. Orderly(DeleteAll(acceptHandlers), U, acceptHandlers, threads, live, S)
    BY <2>3, OrderlyDeleteAll
  <2>5. Orderly(<<Delete(i)>>, U, {i}, threads, live, S)
    BY <2>2, <2>3, OrderlyDelete
  <2>6. QED
    BY <2>2, <2>3, <2>4, <2>5, OrderlyConcat
<1>6. CASE ClassOf(o) = "C2SSocketListenerThread"
  <2>1. ops = ThreadDestructor(threads) /\ owned = threads
    BY <1>6 DEF Destructor, Owns
  <2>2. PICK s : s = SetToSeq(threads)
    OBVIOUS
  <2>3. s \in Seq(threads) /\ Range(s) = threads /\ IsInjective(s)
    BY <2>2, SetToSeqFacts
  <2>4. DOMAIN s = 1..Len(s) /\ Len(s) \in Nat /\ \A i \in DOMAIN s : s[i] \in threads
    BY <2>3
  <2>5. ops = [i \in DOMAIN s |-> Detach(s[i])]
    BY <2>1, <2>2 DEF ThreadDestructor
  <2> HIDE DEF ops
  <2>6. DOMAIN ops = DOMAIN s /\ \A i \in DOMAIN s : ops[i][1] = "detach" /\ ops[i][2] = s[i]
    BY <2>5 DEF Detach
  <2>7. ops \in Seq(OpKinds \X U)
    <3>1. \A i \in DOMAIN s : Detach(s[i]) \in OpKinds \X U
      BY <2>1, <2>4 DEF Detach, OpKinds
    <3>2. ops \in [1..Len(s) -> OpKinds \X U]
      BY <2>4, <2>5, <3>1
    <3>3. QED
      BY <2>4, <3>2, FunctionIsSeq
  <2>8. \A i \in DOMAIN s : Targets(ops[i], S) = {s[i]}
    BY <2>6 DEF Targets
  <2>9. AllTargets(ops, S) = owned /\ TargetsOnce(ops, S)
    BY <2>1, <2>3, <2>6, <2>8 DEF AllTargets, TargetsOnce, Range, IsInjective
  <2>10. EntityFirst(ops, live)
    BY <2>4, <2>6, EntityFirstOfOthers
  <2>11. QED
    BY <2>4, <2>6, <2>7, <2>9, <2>10 DEF Orderly, ClearsThenDeletes, ops
<1>7. CASE ClassOf(o) = "C2SLogImplSimpleMessage"
  <2>1. ops = <<Delete(C2SLogBase.m_pLogMutex)>> /\ owned = {C2SLogBase.m_pLogMutex}
    BY <1>7 DEF Destructor, Owns, LogDestructor
  <2>2. ClassOf(C2SLogBase.m_pLogMutex) = "C2SLogMutex"
    BY DEF C2SLogBase, The, Object, ClassOf
  <2>3. QED
    BY <2>1, <2>2, OrderlyDelete
<1>8. CASE ClassOf(o) = "C2SSocketAcceptHandler"
  <2>1. /\ ops = <<Delete(C2SSocketAcceptHandler(a).m_pDataPull)>>
        /\ owned = {C2SSocketAcceptHandler(a).m_pDataPull}
    BY <1>8 DEF Destructor, Owns, HandlerDestructor
  <2>2. ClassOf(C2SSocketAcceptHandler(a).m_pDataPull) = "C2SHttpDataPull"
    BY DEF C2SSocketAcceptHandler, Of, Object, ClassOf
  <2>3. QED
    BY <2>1, <2>2, OrderlyDelete
<1>9. CASE ClassOf(o) = "C2SHttpDataPull"
  <2>1. PICK q, m, r : /\ r = C2SHttpDataPull(a).m_pRequest /\ q = {r} \cap live
                       /\ m = C2SHttpDataPull(a).m_pResourceManager
    OBVIOUS
  <2>2. ClassOf(r) = "C2SHttpRequest" /\ ClassOf(m) = "C2SHttpResourceManager"
    BY <2>1 DEF C2SHttpDataPull, Of, Object, ClassOf
  <2>3. ops = DeleteAll(q) \o <<Delete(m)>> /\ owned = q \cup {m}
    BY <1>9, <2>1 DEF Destructor, Owns, DataPullDestructor
  <2>4. IsFiniteSet(q)
    <3>1. IsFiniteSet({r}) /\ q \in SUBSET {r}
      BY <2>1, FS_Singleton
    <3>2. QED
      BY <3>1, FS_Subset
  <2>5. Orderly(DeleteAll(q), U, q, threads, live, S)
    BY <2>1, <2>2, <2>3, <2>4, OrderlyDeleteAll
  <2>6. Orderly(<<Delete(m)>>, U, {m}, threads, live, S)
    BY <2>2, <2>3, OrderlyDelete
  <2>7. q \cap {m} = {}
    BY <2>1, <2>2
  <2>8. QED
    BY <2>3, <2>5, <2>6, <2>7, OrderlyConcat
<1>10. CASE ClassOf(o) = "C2SHttpResourceManager"
  <2>1. PICK r, l, c : /\ r = C2SHttpResourceManager(a).m_pResponseHandler
                       /\ l = C2SHttpResourceManager(a).m_pClonesOfResourcePrototypesList
                       /\ c = C2SHttpResourcePrototypeList(l, S).m_listOfResourcePrototypes
    OBVIOUS
  <2>2. /\ ClassOf(r) = "C2SHttpResourceManagerResponseHandler"
        /\ ClassOf(l) = "C2SHttpResourcePrototypeList"
        /\ \A x \in c : ClassOf(x) = "C2SRestResourcePrototype"
    BY <2>1 DEF C2SHttpResourceManager, C2SHttpResourcePrototypeList, RestResource, Of, Object,
                ClassOf
  <2>3. /\ ops = <<Delete(r), Clear(l), Delete(l)>>
        /\ owned = {r} \cup ({l} \cup c)
    BY <1>10, <2>1 DEF Destructor, Owns, ManagerDestructor
  <2>4. Orderly(<<Delete(r)>>, U, {r}, threads, live, S)
    BY <2>2, <2>3, OrderlyDelete
  <2>5. Orderly(<<Clear(l), Delete(l)>>, U, {l} \cup c, threads, live, S)
    BY <2>1, <2>2, <2>3, OrderlyClear
  <2>6. {r} \cap ({l} \cup c) = {}
    BY <2>2
  <2>7. Good(<<Delete(r)>> \o <<Clear(l), Delete(l)>>)
    BY <2>3, <2>4, <2>5, <2>6, OrderlyConcat
  <2>8. <<Delete(r)>> \o <<Clear(l), Delete(l)>> = ops
    <3>1. PICK T : {Delete(r), Clear(l), Delete(l)} \subseteq T
      OBVIOUS
    <3>2. QED
      BY <2>3, <3>1, Concat12
  <2>9. QED
    BY <2>7, <2>8
<1>11. CASE ClassOf(o) = "C2SHttpRequest"
  BY <1>11, RequestDestructorIsOrderly DEF Destructor, Owns
<1>12. CASE ClassOf(o) = "C2SRestResourcePrototype"
  <2>1. PICK x \in Range(Resources) : o = RestResource(a, x)
    BY <1>12 DEF Named
  <2>2. NameOf(o)[1] = x
    BY <2>1 DEF RestResource, Object, NameOf
  <2>3. PICK c : c = C2SRestResourcePrototype(a, x).m_registeredMethodPrototypes
    OBVIOUS
  <2>4. ops = DeleteAll(c) /\ owned = c
    BY <1>12, <2>2, <2>3 DEF Destructor, Owns, RestResourceDestructor
  <2>5. IsFiniteSet(c)
    BY <2>3, MethodsAreFinite
  <2>6. \A p \in c : ClassOf(p) = "C2SRestMethodPrototype"
    BY <2>3 DEF C2SRestResourcePrototype, Object, ClassOf
  <2>7. QED
    BY <2>4, <2>5, <2>6, OrderlyDeleteAll
<1>13. CASE ClassOf(o) = "C2SRestMethodPrototype"
  <2>1. PICK x \in Range(Resources) :
          \E m \in MethodsOf[x] : o = Object("C2SRestMethodPrototype", a, <<x, m>>, 0)
    BY <1>13 DEF Named
  <2>2. PICK m \in MethodsOf[x] : o = Object("C2SRestMethodPrototype", a, <<x, m>>, 0)
    BY <2>1
  <2>3. NameOf(o)[1] = x /\ NameOf(o)[2] = m /\ m \in DOMAIN PartsOf
    BY <2>2, HttpObjectsAssumption DEF Object, NameOf
  <2>4. /\ ops = MethodDestructor(a, x, m)
        /\ owned =
             C2SRestMethodPrototypeRequestEntity(a, x, m).m_requestEntityStreamersByMediaType
             \cup C2SRestMethodPrototypeResponseEntity(a, x, m).m_entityStreamersByTimeOfRegistration
             \cup C2SRestMethodPrototype(a, x, m).m_queryParameters
             \cup C2SRestPathSegmentList(a, x, m).m_pathSegments
    BY <1>13, <2>3 DEF Destructor, Owns
  <2>5. QED
    BY <2>3, <2>4, MethodDestructorIsOrderly
<1>14. CASE ClassOf(o) = "C2SRestPathParameter"
  <2>1. /\ ops = <<Delete(C2SRestPathParameter(o).m_pParameter)>>
        /\ owned = {C2SRestPathParameter(o).m_pParameter}
    BY <1>14 DEF Destructor, Owns, PathParameterDestructor
  <2>2. ClassOf(C2SRestPathParameter(o).m_pParameter) = "C2SRestParameter"
    BY DEF C2SRestPathParameter, Object, ClassOf
  <2>3. QED
    BY <2>1, <2>2, OrderlyDelete
<1>15. CASE ClassOf(o) = "C2SHttpEntity"
  <2>1. ops = <<>> /\ owned = {}
    BY <1>15 DEF Destructor, Owns, EntityDestructor, C2SHttpEntity
  <2>2. QED
    BY <2>1, OrderlyNothing
<1>16. CASE ClassOf(o) \notin {"C2STestRestFixture", "C2STestServerRunner", "C2SHttpServer",
                  "C2SRuntime", "C2SSocketListener", "C2SSocketListenerThread",
                  "C2SLogImplSimpleMessage", "C2SSocketAcceptHandler", "C2SHttpDataPull",
                  "C2SHttpResourceManager", "C2SHttpRequest", "C2SHttpEntity",
                  "C2SRestResourcePrototype", "C2SRestMethodPrototype", "C2SRestPathParameter"}
  <2>1. ops = <<>> /\ owned = {}
    BY <1>16 DEF Destructor, Owns
  <2>2. QED
    BY <2>1, OrderlyNothing
<1>17. QED
  BY <1>1, <1>2, <1>3, <1>4, <1>5, <1>6, <1>7, <1>8, <1>9, <1>10, <1>11, <1>12, <1>13, <1>14,
     <1>15, <1>16

(* A thread is nothing that is deleted. *)
LEMMA ThreadsAreDetached ==
  ASSUME NEW o, Named(o), NEW live, NEW acceptHandlers, NEW threads, NEW S,
         IsFiniteSet(acceptHandlers), IsFiniteSet(threads),
         \A h \in acceptHandlers : ClassOf(h) = "C2SSocketAcceptHandler",
         \A t \in threads : ClassOf(t) = "pthread_t",
         NEW ops, ops = Destructor(o, live, acceptHandlers, threads),
         NEW i \in DOMAIN ops, ClassOf(ops[i][2]) = "pthread_t"
  PROVE  ops[i][1] = "detach"
<1>1. PICK owned : owned = Owns(o, live, acceptHandlers, threads, S)
  OBVIOUS
<1>2. Orderly(ops, owned, owned, threads, live, S)
  BY <1>1, DestructorIsOrderly
<1>3. ops[i][2] \in owned
  BY <1>2 DEF Orderly
<1>4. OwnerOf(ops[i][2]) = o
  BY <1>1, <1>3, OwnsItsOwn
<1>5. ClassOf(o) = "C2SSocketListenerThread"
  BY <1>4 DEF OwnerOf, The, Object, ClassOf
<1>6. ops = ThreadDestructor(threads)
  BY <1>5 DEF Destructor
<1>7. QED
  BY <1>6 DEF ThreadDestructor, Detach

-----------------------------------------------------------------------------
(* What a constructor creates is named, belongs to the object created or to *)
(* another of them, and owns nothing else.                                  *)

(* A method and its parts, by their kinds, ... *)
LEMMA MethodKinds ==
  ASSUME NEW a, NEW x, NEW m, NEW o \in NewMethod(a, x, m)
  PROVE  \/ o = Object("C2SRestMethodPrototype", a, <<x, m>>, 0)
         \/ o \in Parts("C2SRestPathSegment", a, x, m, "segments")
         \/ o \in Parts("C2SRestPathParameter", a, x, m, "parameters")
         \/ \E q \in Parts("C2SRestPathParameter", a, x, m, "parameters") :
              o = Object("C2SRestParameter", a, <<x, m>>, q[4])
         \/ o \in Parts("C2SRestQueryParameter", a, x, m, "queryParameters")
         \/ o \in Parts("C2SHttpEntityStreamer", a, x, m, "streamers")
         \/ o \in Parts("C2SHttpEntityUnstreamer", a, x, m, "unstreamers")
<1>1. \/ o = Object("C2SRestMethodPrototype", a, <<x, m>>, 0)
      \/ o \in Parts("C2SRestPathSegment", a, x, m, "segments")
      \/ o \in Parts("C2SRestPathParameter", a, x, m, "parameters")
      \/ \E q \in Parts("C2SRestPathParameter", a, x, m, "parameters") :
           o = C2SRestPathParameter(q).m_pParameter
      \/ o \in Parts("C2SRestQueryParameter", a, x, m, "queryParameters")
      \/ o \in Parts("C2SHttpEntityStreamer", a, x, m, "streamers")
      \/ o \in Parts("C2SHttpEntityUnstreamer", a, x, m, "unstreamers")
  BY DEF NewMethod, C2SRestPathSegmentList, C2SRestMethodPrototype,
         C2SRestMethodPrototypeResponseEntity, C2SRestMethodPrototypeRequestEntity
<1>2. \A q \in Parts("C2SRestPathParameter", a, x, m, "parameters") :
        C2SRestPathParameter(q).m_pParameter = Object("C2SRestParameter", a, <<x, m>>, q[4])
  BY DEF Parts, Object, HandlerOf, NameOf, C2SRestPathParameter
<1>3. QED
  BY <1>1, <1>2

(* ... and by their names. *)
LEMMA MethodNames ==
  ASSUME NEW a, NEW x, NEW m
  PROVE  \A o \in NewMethod(a, x, m) :
           /\ HandlerOf(o) = a /\ NameOf(o) = <<x, m>>
           /\ ClassOf(o) \in
                {"C2SRestMethodPrototype", "C2SRestPathSegment", "C2SRestPathParameter",
                 "C2SRestParameter", "C2SRestQueryParameter", "C2SHttpEntityStreamer",
                 "C2SHttpEntityUnstreamer"}
           /\ ClassOf(o) = "C2SRestMethodPrototype" =>
                o = Object("C2SRestMethodPrototype", a, <<x, m>>, 0)
BY MethodKinds DEF Parts, Object, HandlerOf, NameOf, ClassOf

(* So they are named. *)
LEMMA MethodNamed ==
  ASSUME NEW a, NEW x, NEW m, NEW o \in NewMethod(a, x, m)
  PROVE  o = Object(ClassOf(o), HandlerOf(o), NameOf(o), o[4])
BY MethodKinds DEF Parts, Object, HandlerOf, NameOf, ClassOf

(* A method's parts are its own. *)
LEMMA MethodClosed ==
  ASSUME NEW a, NEW x, NEW m, NEW o \in NewMethod(a, x, m),
         NEW live, NEW acceptHandlers, NEW threads, NEW S
  PROVE  Owns(o, live, acceptHandlers, threads, S) \subseteq NewMethod(a, x, m)
<1>1. /\ HandlerOf(o) = a /\ NameOf(o) = <<x, m>>
      /\ ClassOf(o) \in {"C2SRestMethodPrototype", "C2SRestPathSegment", "C2SRestPathParameter",
                         "C2SRestParameter", "C2SRestQueryParameter", "C2SHttpEntityStreamer",
                         "C2SHttpEntityUnstreamer"}
  BY MethodNames
<1>2. CASE ClassOf(o) = "C2SRestMethodPrototype"
  <2>1. NameOf(o)[1] = x /\ NameOf(o)[2] = m
    BY <1>1
  <2>2. Owns(o, live, acceptHandlers, threads, S) =
          C2SRestMethodPrototypeRequestEntity(a, x, m).m_requestEntityStreamersByMediaType
          \cup C2SRestMethodPrototypeResponseEntity(a, x, m).m_entityStreamersByTimeOfRegistration
          \cup C2SRestMethodPrototype(a, x, m).m_queryParameters
          \cup C2SRestPathSegmentList(a, x, m).m_pathSegments
    BY <1>1, <1>2, <2>1 DEF Owns
  <2>3. QED
    BY <2>2 DEF NewMethod
<1>3. CASE ClassOf(o) = "C2SRestPathParameter"
  <2>1. o \in Parts("C2SRestPathParameter", a, x, m, "parameters")
    BY <1>3, MethodKinds DEF Parts, Object, ClassOf
  <2>2. C2SRestPathParameter(o).m_pParameter \in NewMethod(a, x, m)
    BY <2>1 DEF NewMethod
  <2>3. QED
    BY <1>3, <2>2 DEF Owns
<1>4. CASE ClassOf(o) \notin {"C2SRestMethodPrototype", "C2SRestPathParameter"}
  BY <1>1, <1>4 DEF Owns
<1>5. QED
  BY <1>2, <1>3, <1>4

(* Each part of a method has its owner among them. *)
LEMMA MethodOwners ==
  ASSUME NEW a, NEW x, NEW m, NEW o \in NewMethod(a, x, m), ClassOf(o) # "C2SRestMethodPrototype",
         NEW live, NEW acceptHandlers, NEW threads, NEW S
  PROVE  /\ OwnerOf(o) \in NewMethod(a, x, m)
         /\ o \in Owns(OwnerOf(o), live, acceptHandlers, threads, S)
<1>1. PICK p : p = Object("C2SRestMethodPrototype", a, <<x, m>>, 0)
  OBVIOUS
<1>2. /\ ClassOf(p) = "C2SRestMethodPrototype" /\ HandlerOf(p) = a
      /\ NameOf(p)[1] = x /\ NameOf(p)[2] = m /\ p \in NewMethod(a, x, m)
  BY <1>1 DEF Object, ClassOf, HandlerOf, NameOf, NewMethod
<1>3. CASE ClassOf(o) = "C2SRestParameter"
  <2>1. PICK q \in Parts("C2SRestPathParameter", a, x, m, "parameters") :
          o = Object("C2SRestParameter", a, <<x, m>>, q[4])
    BY <1>3, MethodKinds DEF Parts, Object, ClassOf
  <2>2. /\ q = Object("C2SRestPathParameter", a, <<x, m>>, q[4])
        /\ ClassOf(q) = "C2SRestPathParameter" /\ HandlerOf(q) = a /\ NameOf(q) = <<x, m>>
    BY <2>1 DEF Parts, Object, ClassOf, HandlerOf, NameOf
  <2>3. OwnerOf(o) = q
    BY <1>3, <2>1, <2>2 DEF OwnerOf, Object, HandlerOf, NameOf
  <2>4. q \in NewMethod(a, x, m)
    BY <2>1 DEF NewMethod, C2SRestPathSegmentList
  <2>5. o \in Owns(q, live, acceptHandlers, threads, S)
    BY <2>1, <2>2 DEF Owns, C2SRestPathParameter
  <2>6. QED
    BY <2>3, <2>4, <2>5
<1>4. CASE ClassOf(o) \in {"C2SRestPathSegment", "C2SRestPathParameter", "C2SRestQueryParameter",
                           "C2SHttpEntityStreamer", "C2SHttpEntityUnstreamer"}
  <2>1. \/ o \in Parts("C2SRestPathSegment", a, x, m, "segments")
        \/ o \in Parts("C2SRestPathParameter", a, x, m, "parameters")
        \/ o \in Parts("C2SRestQueryParameter", a, x, m, "queryParameters")
        \/ o \in Parts("C2SHttpEntityStreamer", a, x, m, "streamers")
        \/ o \in Parts("C2SHttpEntityUnstreamer", a, x, m, "unstreamers")
    BY <1>4, MethodKinds DEF Parts, Object, ClassOf
  <2>2. HandlerOf(o) = a /\ NameOf(o) = <<x, m>>
    BY MethodNames
  <2>3. OwnerOf(o) = p
    BY <1>1, <1>4, <2>2 DEF OwnerOf
  <2>4. o \in Owns(p, live, acceptHandlers, threads, S)
    BY <1>2, <2>1 DEF Owns, C2SRestMethodPrototypeRequestEntity, C2SRestMethodPrototypeResponseEntity,
       C2SRestMethodPrototype, C2SRestPathSegmentList
  <2>5. QED
    BY <1>2, <2>3, <2>4
<1>5. QED
  BY <1>3, <1>4, MethodNames

(* A resource is named after its handler and itself, and so are its methods. *)
LEMMA ResourceNames ==
  ASSUME NEW a, NEW x \in Range(Resources), NEW o \in NewResource(a, x)
  PROVE  /\ Named(o)
         /\ HandlerOf(o) = a /\ NameOf(o)[1] = x
         /\ ClassOf(o) \in
              {"C2SRestResourcePrototype", "C2SRestMethodPrototype", "C2SRestPathSegment",
               "C2SRestPathParameter", "C2SRestParameter", "C2SRestQueryParameter",
               "C2SHttpEntityStreamer", "C2SHttpEntityUnstreamer"}
         /\ ClassOf(o) = "C2SRestResourcePrototype" => o = RestResource(a, x)
<1>1. CASE o = RestResource(a, x)
  BY <1>1 DEF RestResource, Object, ClassOf, HandlerOf, NameOf, Named, Singles, PerHandler
<1>2. ASSUME NEW m \in MethodsOf[x], o \in NewMethod(a, x, m)
      PROVE  /\ Named(o) /\ HandlerOf(o) = a /\ NameOf(o)[1] = x
             /\ ClassOf(o) \in
                  {"C2SRestMethodPrototype", "C2SRestPathSegment", "C2SRestPathParameter",
                   "C2SRestParameter", "C2SRestQueryParameter", "C2SHttpEntityStreamer",
                   "C2SHttpEntityUnstreamer"}
  <2>1. /\ HandlerOf(o) = a /\ NameOf(o) = <<x, m>>
        /\ ClassOf(o) \in
             {"C2SRestMethodPrototype", "C2SRestPathSegment", "C2SRestPathParameter",
              "C2SRestParameter", "C2SRestQueryParameter", "C2SHttpEntityStreamer",
              "C2SHttpEntityUnstreamer"}
        /\ ClassOf(o) = "C2SRestMethodPrototype" =>
             o = Object("C2SRestMethodPrototype", a, <<x, m>>, 0)
    BY <1>2, MethodNames
  <2>2. o = Object(ClassOf(o), HandlerOf(o), NameOf(o), o[4])
    BY <1>2, MethodNamed
  <2>3. Named(o)
    BY <2>1, <2>2 DEF Named, Singles, PerHandler
  <2>4. QED
    BY <2>1, <2>3
<1>3. o = RestResource(a, x) \/ \E m \in MethodsOf[x] : o \in NewMethod(a, x, m)
  BY DEF NewResource
<1>4. RestResource(a, x)[1] = "C2SRestResourcePrototype"
  BY DEF RestResource, Object
<1>5. QED
  BY <1>1, <1>2, <1>3

(* What a resource owns is its own ... *)
LEMMA ResourceClosed ==
  ASSUME NEW a, NEW x \in Range(Resources), NEW o \in NewResource(a, x),
         NEW live, NEW acceptHandlers, NEW threads, NEW S
  PROVE  Owns(o, live, acceptHandlers, threads, S) \subseteq NewResource(a, x)
<1>1. CASE o = RestResource(a, x)
  <2>1. ClassOf(o) = "C2SRestResourcePrototype" /\ HandlerOf(o) = a /\ NameOf(o)[1] = x
    BY <1>1 DEF RestResource, Object, ClassOf, HandlerOf, NameOf
  <2>2. Owns(o, live, acceptHandlers, threads, S) =
          C2SRestResourcePrototype(a, x).m_registeredMethodPrototypes
    BY <2>1 DEF Owns
  <2>3. \A m \in MethodsOf[x] :
          Object("C2SRestMethodPrototype", a, <<x, m>>, 0) \in NewMethod(a, x, m)
    BY DEF NewMethod
  <2>4. QED
    <3>1. SUFFICES ASSUME NEW q \in Owns(o, live, acceptHandlers, threads, S)
                   PROVE  q \in NewResource(a, x)
      OBVIOUS
    <3>2. PICK m \in MethodsOf[x] : q = Object("C2SRestMethodPrototype", a, <<x, m>>, 0)
      BY <2>2, <3>1 DEF C2SRestResourcePrototype
    <3>3. q \in NewMethod(a, x, m)
      BY <2>3, <3>2
    <3>4. QED
      BY <3>3 DEF NewResource
<1>2. ASSUME NEW m \in MethodsOf[x], o \in NewMethod(a, x, m)
      PROVE  Owns(o, live, acceptHandlers, threads, S) \subseteq NewResource(a, x)
  <2>1. Owns(o, live, acceptHandlers, threads, S) \subseteq NewMethod(a, x, m)
    BY <1>2, MethodClosed
  <2>2. QED
    BY <2>1 DEF NewResource
<1>3. QED
  BY <1>1, <1>2 DEF NewResource

(* ... and all but the resource itself has its owner in it. *)
LEMMA ResourceOwners ==
  ASSUME NEW a, NEW x \in Range(Resources), NEW o \in NewResource(a, x), o # RestResource(a, x),
         NEW live, NEW acceptHandlers, NEW threads, NEW S
  PROVE  /\ OwnerOf(o) \in NewResource(a, x)
         /\ o \in Owns(OwnerOf(o), live, acceptHandlers, threads, S)
<1>1. PICK m \in MethodsOf[x] : o \in NewMethod(a, x, m)
  BY DEF NewResource
<1>2. CASE ClassOf(o) = "C2SRestMethodPrototype"
  <2>1. o = Object("C2SRestMethodPrototype", a, <<x, m>>, 0) /\ HandlerOf(o) = a
        /\ NameOf(o)[1] = x
    BY <1>1, <1>2, MethodNames
  <2>2. OwnerOf(o) = RestResource(a, x)
    BY <1>2, <2>1 DEF OwnerOf
  <2>3. PICK p : p = RestResource(a, x)
    OBVIOUS
  <2>4. ClassOf(p) = "C2SRestResourcePrototype" /\ HandlerOf(p) = a /\ NameOf(p)[1] = x
    BY <2>3 DEF RestResource, Object, ClassOf, HandlerOf, NameOf
  <2>5. o \in Owns(p, live, acceptHandlers, threads, S)
    BY <2>1, <2>4 DEF Owns, C2SRestResourcePrototype
  <2>6. QED
    BY <2>2, <2>3, <2>5 DEF NewResource
<1>3. CASE ClassOf(o) # "C2SRestMethodPrototype"
  BY <1>1, <1>3, MethodOwners DEF NewResource
<1>4. QED
  BY <1>2, <1>3

(* The kinds of objects that a handler is made of. *)
LEMMA HandlerKinds ==
  ASSUME NEW a, NEW S, NEW o \in NewHandler(a, S)
  PROVE  \/ o = Of("C2SSocketAcceptHandler", a)
         \/ o = Of("C2SHttpDataPull", a)
         \/ o = Of("C2SHttpResourceManager", a)
         \/ o = Of("C2SHttpResourceManagerResponseHandler", a)
         \/ o = Of("C2SHttpResourcePrototypeList", a)
         \/ \E x \in S : o \in NewResource(a, x)
BY DEF NewHandler, createDataPullForDataPush, NewDataPull, NewResourceManager, CloneList,
       C2SHttpResourceManager

(* They are named after the handler ... *)
LEMMA HandlerNames ==
  ASSUME NEW a, a # Shared, NEW S \in SUBSET Range(Resources), NEW o \in NewHandler(a, S)
  PROVE  Named(o) /\ HandlerOf(o) = a
<1>1. CASE \E x \in S : o \in NewResource(a, x)
  BY <1>1, ResourceNames
<1>2. ASSUME NEW c \in {"C2SSocketAcceptHandler", "C2SHttpDataPull", "C2SHttpResourceManager",
                        "C2SHttpResourceManagerResponseHandler", "C2SHttpResourcePrototypeList"},
             o = Of(c, a)
      PROVE  Named(o) /\ HandlerOf(o) = a
  BY <1>2 DEF Of, Object, ClassOf, HandlerOf, NameOf, Named, Singles, PerHandler
<1>3. QED
  BY <1>1, <1>2, HandlerKinds

(* ... own each other, and maybe a request, ... *)
LEMMA HandlerClosed ==
  ASSUME NEW a, a # Shared, NEW S \in SUBSET Range(Resources), NEW o \in NewHandler(a, S),
         NEW live, NEW acceptHandlers, NEW threads
  PROVE  Owns(o, live, acceptHandlers, threads, S) \subseteq NewHandler(a, S) \cup live
<1>1. CASE \E x \in S : o \in NewResource(a, x)
  <2>1. PICK x \in S : o \in NewResource(a, x)
    BY <1>1
  <2>2. Owns(o, live, acceptHandlers, threads, S) \subseteq NewResource(a, x)
    BY <2>1, ResourceClosed
  <2>3. QED
    BY <2>2 DEF NewHandler, createDataPullForDataPush, NewDataPull, NewResourceManager, CloneList
<1>2. CASE o = Of("C2SSocketAcceptHandler", a)
  <2>1. ClassOf(o) = "C2SSocketAcceptHandler" /\ HandlerOf(o) = a
    BY <1>2 DEF Of, Object, ClassOf, HandlerOf
  <2>2. QED
    BY <2>1 DEF Owns, C2SSocketAcceptHandler, NewHandler, createDataPullForDataPush, NewDataPull
<1>3. CASE o = Of("C2SHttpDataPull", a)
  <2>1. ClassOf(o) = "C2SHttpDataPull" /\ HandlerOf(o) = a
    BY <1>3 DEF Of, Object, ClassOf, HandlerOf
  <2>2. QED
    BY <2>1 DEF Owns, C2SHttpDataPull, NewHandler, createDataPullForDataPush, NewDataPull,
                NewResourceManager
<1>4. CASE o = Of("C2SHttpResourceManager", a)
  <2>1. PICK l : l = C2SHttpResourceManager(a).m_pClonesOfResourcePrototypesList
    OBVIOUS
  <2>2. l = Of("C2SHttpResourcePrototypeList", a) /\ HandlerOf(l) = a
    BY <2>1 DEF C2SHttpResourceManager, Of, Object, HandlerOf
  <2>3. ClassOf(o) = "C2SHttpResourceManager" /\ HandlerOf(o) = a
    BY <1>4 DEF Of, Object, ClassOf, HandlerOf
  <2>4. Owns(o, live, acceptHandlers, threads, S) =
          {C2SHttpResourceManager(a).m_pResponseHandler, l} \cup {RestResource(a, x) : x \in S}
    BY <2>1, <2>2, <2>3 DEF Owns, C2SHttpResourcePrototypeList
  <2>5. \A x \in S : RestResource(a, x) \in NewResource(a, x)
    BY DEF NewResource
  <2>6. {RestResource(a, x) : x \in S} \subseteq CloneList(a, S) /\ l \in CloneList(a, S)
    BY <2>2, <2>5 DEF CloneList
  <2>7. QED
    BY <2>4, <2>6 DEF NewHandler, createDataPullForDataPush, NewDataPull, NewResourceManager
<1>5. CASE \/ o = Of("C2SHttpResourceManagerResponseHandler", a)
           \/ o = Of("C2SHttpResourcePrototypeList", a)
  BY <1>5 DEF Of, Object, ClassOf, Owns
<1>6. QED
  BY <1>1, <1>2, <1>3, <1>4, <1>5, HandlerKinds

(* ... and each but the handler itself has its owner among them. *)
LEMMA HandlerOwners ==
  ASSUME NEW a, a # Shared, NEW S \in SUBSET Range(Resources), NEW o \in NewHandler(a, S),
         o # Of("C2SSocketAcceptHandler", a), NEW live, NEW acceptHandlers, NEW threads
  PROVE  /\ OwnerOf(o) \in NewHandler(a, S)
         /\ o \in Owns(OwnerOf(o), live, acceptHandlers, threads, S)
<1>1. PICK m, d, h, l, r :
        /\ m = Of("C2SHttpResourceManager", a) /\ d = Of("C2SHttpDataPull", a)
        /\ h = Of("C2SSocketAcceptHandler", a) /\ l = Of("C2SHttpResourcePrototypeList", a)
        /\ r = Of("C2SHttpResourceManagerResponseHandler", a)
  OBVIOUS
<1>2. /\ ClassOf(m) = "C2SHttpResourceManager" /\ HandlerOf(m) = a
      /\ ClassOf(d) = "C2SHttpDataPull" /\ HandlerOf(d) = a
      /\ ClassOf(h) = "C2SSocketAcceptHandler" /\ HandlerOf(h) = a
      /\ ClassOf(l) = "C2SHttpResourcePrototypeList" /\ HandlerOf(l) = a
      /\ ClassOf(r) = "C2SHttpResourceManagerResponseHandler" /\ HandlerOf(r) = a
  BY <1>1 DEF Of, Object, ClassOf, HandlerOf
<1>3. m \in NewHandler(a, S) /\ d \in NewHandler(a, S) /\ h \in NewHandler(a, S)
  BY <1>1 DEF NewHandler, createDataPullForDataPush, NewDataPull, NewResourceManager
<1>4. /\ l \in Owns(m, live, acceptHandlers, threads, S)
      /\ r \in Owns(m, live, acceptHandlers, threads, S)
      /\ \A x \in S : RestResource(a, x) \in Owns(m, live, acceptHandlers, threads, S)
  BY <1>1, <1>2 DEF Owns, C2SHttpResourceManager, C2SHttpResourcePrototypeList
<1>5. /\ m \in Owns(d, live, acceptHandlers, threads, S)
      /\ d \in Owns(h, live, acceptHandlers, threads, S)
  BY <1>1, <1>2 DEF Owns, C2SHttpDataPull, C2SSocketAcceptHandler
<1>6. OwnerOf(l) = m /\ OwnerOf(r) = m /\ OwnerOf(m) = d /\ OwnerOf(d) = h
  BY <1>1, <1>2 DEF OwnerOf
<1>7. ASSUME NEW x \in S, o \in NewResource(a, x)
      PROVE  /\ OwnerOf(o) \in NewHandler(a, S)
             /\ o \in Owns(OwnerOf(o), live, acceptHandlers, threads, S)
  <2>1. CASE o = RestResource(a, x)
    <3>1. OwnerOf(o) = m
      BY <1>1, <2>1 DEF OwnerOf, RestResource, Object, ClassOf, HandlerOf
    <3>2. QED
      BY <1>3, <1>4, <2>1, <3>1
  <2>2. CASE o # RestResource(a, x)
    <3>1. /\ OwnerOf(o) \in NewResource(a, x)
          /\ o \in Owns(OwnerOf(o), live, acceptHandlers, threads, S)
      BY <1>7, <2>2, ResourceOwners
    <3>2. QED
      BY <3>1 DEF NewHandler, createDataPullForDataPush, NewDataPull, NewResourceManager, CloneList
  <2>3. QED
    BY <2>1, <2>2
<1>8. QED
  BY <1>1, <1>3, <1>4, <1>5, <1>6, <1>7, HandlerKinds

(* The objects that the program has one of. *)
Program ==
  {The("C2STestRestFixture"), C2STestRestFixture.pGlobalMutex, C2STestRestFixture.m_sr}
  \cup NewServer

ProgramClasses ==
  {"C2STestRestFixture", "C2SMutex", "C2STestServerRunner", "C2SHttpServer",
   "C2SHttpResourcePrototypeList", "C2SHttpDataHandlingImpl", "C2SRuntime",
   "C2SLogSimpleMessageFactory", "C2SLogImplSimpleMessage", "C2SLogMutex", "C2SSocketListener",
   "C2SSocketInfo", "C2SSocketListenerThread"}

(* They are named after their classes, ... *)
LEMMA ProgramNames ==
  /\ Program = {The(c) : c \in ProgramClasses}
  /\ \A o \in Program : Named(o) /\ o = The(ClassOf(o)) /\ ClassOf(o) \in ProgramClasses
<1>1. Program = {The(c) : c \in ProgramClasses}
  BY DEF Program, ProgramClasses, NewServer, NewRuntime, createLogInstance, createSocketListener,
     C2SHttpServer, C2SRuntime, C2SLogBase, C2SSocketListener, C2STestRestFixture
<1>2. \A c \in ProgramClasses : Named(The(c)) /\ ClassOf(The(c)) = c
  BY DEF ProgramClasses, Named, Singles, PerHandler, The, Object, ClassOf, HandlerOf, NameOf
<1>3. QED
  BY <1>1, <1>2

(* ... own each other and the registered resources, the handlers and the    *)
(* thread, ...                                                              *)
LEMMA ProgramClosed ==
  ASSUME NEW o \in Program, NEW live, NEW acceptHandlers, NEW threads, NEW S
  PROVE  Owns(o, live, acceptHandlers, threads, S) \subseteq
           Program \cup {RestResource(Shared, x) : x \in S} \cup acceptHandlers \cup threads
<1>1. o = The(ClassOf(o)) /\ ClassOf(o) \in ProgramClasses
  BY ProgramNames
<1>2. \A c \in ProgramClasses : The(c) \in Program
  BY ProgramNames
<1>3. CASE ClassOf(o) \in {"C2STestRestFixture", "C2STestServerRunner"}
  BY <1>2, <1>3 DEF Owns, C2STestRestFixture, C2STestServerRunner, ProgramClasses
<1>4. CASE ClassOf(o) = "C2SHttpServer"
  BY <1>2, <1>4 DEF Owns, C2SHttpServer, ProgramClasses, C2SHttpResourcePrototypeList, The, Object,
                    HandlerOf
<1>5. CASE ClassOf(o) \in {"C2SRuntime", "C2SSocketListener", "C2SSocketListenerThread",
                           "C2SLogImplSimpleMessage"}
  BY <1>2, <1>5 DEF Owns, C2SRuntime, C2SSocketListener, C2SLogBase, ProgramClasses
<1>6. CASE ClassOf(o) \notin {"C2STestRestFixture", "C2STestServerRunner", "C2SHttpServer",
                 "C2SRuntime", "C2SSocketListener", "C2SSocketListenerThread",
                 "C2SLogImplSimpleMessage"}
  BY <1>1, <1>6 DEF Owns, ProgramClasses
<1>7. QED
  BY <1>3, <1>4, <1>5, <1>6

(* ... and each but the fixture has its owner among them. *)
LEMMA ProgramOwners ==
  ASSUME NEW o \in Program, o # The("C2STestRestFixture"),
         NEW live, NEW acceptHandlers, NEW threads, NEW S
  PROVE  /\ OwnerOf(o) \in Program
         /\ o \in Owns(OwnerOf(o), live, acceptHandlers, threads, S)
<1>1. o = The(ClassOf(o)) /\ ClassOf(o) \in ProgramClasses
  BY ProgramNames
<1>2. \A c \in ProgramClasses : The(c) \in Program
  BY ProgramNames
<1>3. HandlerOf(o) = Shared
  BY <1>1 DEF The, Object, HandlerOf
<1>4. CASE ClassOf(o) \in {"C2STestServerRunner", "C2SMutex"}
  BY <1>1, <1>2, <1>4 DEF OwnerOf, Owns, C2STestRestFixture, The, Object, ClassOf, ProgramClasses
<1>5. CASE ClassOf(o) \in {"C2SHttpServer"}
  BY <1>1, <1>2, <1>5 DEF OwnerOf, Owns, C2STestServerRunner, The, Object, ClassOf, ProgramClasses
<1>6. CASE ClassOf(o) \in {"C2SRuntime", "C2SHttpDataHandlingImpl", "C2SHttpResourcePrototypeList"}
  BY <1>1, <1>2, <1>3, <1>6 DEF OwnerOf, Owns, C2SHttpServer, The, Object, ClassOf, ProgramClasses
<1>7. CASE ClassOf(o) \in {"C2SSocketListener", "C2SLogSimpleMessageFactory",
                           "C2SLogImplSimpleMessage", "C2SSocketListenerThread"}
  BY <1>1, <1>2, <1>7 DEF OwnerOf, Owns, C2SRuntime, The, Object, ClassOf, ProgramClasses
<1>8. CASE ClassOf(o) \in {"C2SLogMutex", "C2SSocketInfo"}
  BY <1>1, <1>2, <1>8 DEF OwnerOf, Owns, C2SLogBase, C2SSocketListener, The, Object, ClassOf,
                          ProgramClasses
<1>9. QED
  BY <1>1, <1>4, <1>5, <1>6, <1>7, <1>8 DEF ProgramClasses

-----------------------------------------------------------------------------
(* What changes who owns what. *)

(* Members that come and go: those of a request, and what a handler, the    *)
(* listener and its thread have created.                                    *)
PassingClasses == {"C2SHttpRequest", "C2SHttpEntity", "char[]", "C2SSocketAcceptHandler"}

(* What an object comes to own is alive, but for a thread. *)
LEMMA OwnsChange ==
  ASSUME NEW o, NEW live, NEW acceptHandlers, NEW threads, NEW S,
         NEW heap2, NEW handlers2 \in SUBSET heap2, NEW threads2,
         \A t \in threads2 : ClassOf(t) = "pthread_t",
         NEW q \in Owns(o, heap2, handlers2, threads2, S)
  PROVE  \/ q \in heap2
         \/ ClassOf(q) = "pthread_t"
         \/ /\ q \in Owns(o, live, acceptHandlers, threads, S)
            /\ ClassOf(q) \notin PassingClasses
<1> USE DEF Owns, Object, The, Of, ClassOf, PassingClasses
<1>1. CASE ClassOf(o) \in {"C2STestRestFixture", "C2STestServerRunner"}
  BY <1>1 DEF C2STestRestFixture, C2STestServerRunner
<1>2. CASE ClassOf(o) = "C2SHttpServer"
  BY <1>2 DEF C2SHttpServer, C2SHttpResourcePrototypeList, RestResource
<1>3. CASE ClassOf(o) \in {"C2SRuntime", "C2SSocketListener", "C2SSocketListenerThread",
                           "C2SLogImplSimpleMessage"}
  BY <1>3 DEF C2SRuntime, C2SSocketListener, C2SLogBase
<1>4. CASE ClassOf(o) = "C2SSocketAcceptHandler"
  BY <1>4 DEF C2SSocketAcceptHandler
<1>5. CASE ClassOf(o) = "C2SHttpDataPull"
  BY <1>5 DEF C2SHttpDataPull
<1>6. CASE ClassOf(o) = "C2SHttpResourceManager"
  BY <1>6 DEF C2SHttpResourceManager, C2SHttpResourcePrototypeList, RestResource
<1>7. CASE ClassOf(o) = "C2SHttpRequest"
  BY <1>7 DEF C2SHttpRequest, C2SHttpParser
<1>8. CASE ClassOf(o) = "C2SRestResourcePrototype"
  BY <1>8 DEF C2SRestResourcePrototype
<1>9. CASE ClassOf(o) = "C2SRestMethodPrototype"
  BY <1>9 DEF C2SRestMethodPrototypeRequestEntity, C2SRestMethodPrototypeResponseEntity,
              C2SRestMethodPrototype, C2SRestPathSegmentList, Parts
<1>10. CASE ClassOf(o) = "C2SRestPathParameter"
  BY <1>10 DEF C2SRestPathParameter
<1>11. QED
  BY <1>1, <1>2, <1>3, <1>4, <1>5, <1>6, <1>7, <1>8, <1>9, <1>10

(* What an object owns it keeps while that is alive. *)
LEMMA OwnsKept ==
  ASSUME NEW o, NEW live, NEW acceptHandlers, NEW threads, NEW S,
         NEW heap2, NEW handlers2, NEW threads2,
         NEW q \in Owns(o, live, acceptHandlers, threads, S), q \in heap2,
         q \in acceptHandlers => q \in handlers2, q \in threads => q \in threads2
  PROVE  q \in Owns(o, heap2, handlers2, threads2, S)
BY DEF Owns

(* With fewer objects there is not more to own. *)
LEMMA OwnsShrinks ==
  ASSUME NEW o, NEW live, NEW acceptHandlers, NEW threads, NEW S,
         NEW heap2 \in SUBSET live, NEW handlers2 \in SUBSET acceptHandlers
  PROVE  Owns(o, heap2, handlers2, threads, S) \subseteq Owns(o, live, acceptHandlers, threads, S)
BY DEF Owns

(* One resource more is owned by its list's owner. *)
LEMMA OwnsMore ==
  ASSUME NEW o, NEW live, NEW acceptHandlers, NEW threads, NEW S, NEW x
  PROVE  /\ Owns(o, live, acceptHandlers, threads, S)
              \subseteq Owns(o, live, acceptHandlers, threads, S \cup {x})
         /\ \A q \in Owns(o, live, acceptHandlers, threads, S \cup {x}) :
              \/ q \in Owns(o, live, acceptHandlers, threads, S)
              \/ ClassOf(o) = "C2SHttpServer" /\ q = RestResource(Shared, x)
              \/ ClassOf(o) = "C2SHttpResourceManager"
<1>1. CASE ClassOf(o) = "C2SHttpServer"
  <2>1. HandlerOf(C2SHttpServer.m_pHttpResourcePrototypes) = Shared
    BY DEF C2SHttpServer, The, Object, HandlerOf
  <2>2. QED
    BY <1>1, <2>1 DEF Owns, C2SHttpResourcePrototypeList
<1>2. CASE ClassOf(o) = "C2SHttpResourceManager"
  BY <1>2 DEF Owns, C2SHttpResourcePrototypeList
<1>3. CASE ClassOf(o) \notin {"C2SHttpServer", "C2SHttpResourceManager"}
  BY <1>3 DEF Owns
<1>4. QED
  BY <1>1, <1>2, <1>3

(* Objects without any of their own. *)
LeafClasses ==
  {"C2SMutex", "C2SThreadQueue", "C2SThreadQueueRunner", "pthread_t", "char[]", "C2SHttpEntity",
   "C2SLogPublicationImplStandardOutput", "C2SHttpResourcePrototypeList"}

(* Such an object's destructor deletes nothing. *)
LEMMA LeavesOwnNothing ==
  ASSUME NEW o, ClassOf(o) \in LeafClasses, NEW live, NEW acceptHandlers, NEW threads, NEW S
  PROVE  Owns(o, live, acceptHandlers, threads, S) = {}
BY DEF Owns, LeafClasses

(* The fixture is nobody's, nor is what a run() creates for its handlers, and *)
(* the publication is static.                                               *)
Unowned(q) ==
  \/ ClassOf(q) \in {"C2SThreadQueue", "C2SThreadQueueRunner", "C2STestRestFixture",
                     "C2SLogPublicationImplStandardOutput"}
  \/ ClassOf(q) = "C2SMutex" /\ HandlerOf(q) # Shared

(* No destructor deletes them as members. *)
LEMMA NobodyOwnsThese ==
  ASSUME NEW o, Named(o), NEW live, NEW acceptHandlers, NEW threads, NEW S,
         \A h \in acceptHandlers : ClassOf(h) = "C2SSocketAcceptHandler",
         \A t \in threads : ClassOf(t) = "pthread_t",
         NEW q \in Owns(o, live, acceptHandlers, threads, S)
  PROVE  ~Unowned(q)
<1> USE DEF Owns, Object, The, Of, ClassOf, HandlerOf, Unowned
<1>1. CASE ClassOf(o) \in {"C2STestRestFixture", "C2STestServerRunner"}
  BY <1>1 DEF C2STestRestFixture, C2STestServerRunner
<1>2. CASE ClassOf(o) = "C2SHttpServer"
  BY <1>2 DEF C2SHttpServer, C2SHttpResourcePrototypeList, RestResource
<1>3. CASE ClassOf(o) \in {"C2SRuntime", "C2SSocketListener", "C2SSocketListenerThread",
                           "C2SLogImplSimpleMessage"}
  BY <1>3 DEF C2SRuntime, C2SSocketListener, C2SLogBase
<1>4. CASE ClassOf(o) = "C2SSocketAcceptHandler"
  BY <1>4 DEF C2SSocketAcceptHandler
<1>5. CASE ClassOf(o) = "C2SHttpDataPull"
  BY <1>5 DEF C2SHttpDataPull
<1>6. CASE ClassOf(o) = "C2SHttpResourceManager"
  BY <1>6 DEF C2SHttpResourceManager, C2SHttpResourcePrototypeList, RestResource
<1>7. CASE ClassOf(o) = "C2SHttpRequest"
  BY <1>7 DEF C2SHttpRequest, C2SHttpParser
<1>8. CASE ClassOf(o) = "C2SRestResourcePrototype"
  BY <1>8 DEF C2SRestResourcePrototype
<1>9. CASE ClassOf(o) = "C2SRestMethodPrototype"
  BY <1>9 DEF C2SRestMethodPrototypeRequestEntity, C2SRestMethodPrototypeResponseEntity,
              C2SRestMethodPrototype, C2SRestPathSegmentList, Parts
<1>10. CASE ClassOf(o) = "C2SRestPathParameter"
  BY <1>10 DEF C2SRestPathParameter
<1>11. QED
  BY <1>1, <1>2, <1>3, <1>4, <1>5, <1>6, <1>7, <1>8, <1>9, <1>10

-----------------------------------------------------------------------------
(* The server with its objects is a server of SocketListener.              *)

(* The server with its objects takes no step that the server of             *)
(* SocketListener does not take.                                            *)
LEMMA ServerStepIsStep ==
  ASSUME [ServerNext]_allVars
  PROVE  [Next]_vars
<1>1. CASE ProgramNext
  BY <1>1 DEF ProgramNext, CreateServer, RegisterResource, UseServer, DeleteServer, DeleteObject,
              FreeObject, ClearList, ServerIsGone
<1>2. ASSUME NEW c \in Callers, ServerCallerCalls(c) \/ ServerCallerNext(c)
      PROVE  Next
  <2>1. CallerCalls(c) \/ CallerNext(c)
    BY <1>2 DEF ServerCallerCalls, RunOnServerThread, ServerCallerNext, StartThreadObject,
       StartThrowsWithThread, ServerIsUp, ServerIsDown, CallerCalls, CallerNext
  <2>2. QED
    BY <2>1 DEF Next
<1>3. CASE ServerListenerNext
  BY <1>3 DEF ServerListenerNext, NewQueue, NewAcceptHandler, QueueNewHandler, DeleteQueueObjects,
              ListenerNext, Next
<1>4. ASSUME NEW h \in Handlers, ServerHandlerNext(h) \/ ServerHandlerMeetsClient(h)
      PROVE  Next
  <2>1. HandlerNext(h) \/ HandlerMeetsClient(h)
    BY <1>4 DEF ServerHandlerNext, ServerHandlerMeetsClient, reset, FlushRequest, ReceiveRequest,
                HandlerNext, HandlerMeetsClient
  <2>2. QED
    BY <2>1 DEF Next
<1>5. QED
  BY <1>1, <1>2, <1>3, <1>4 DEF ServerNext, allVars

(* So what SocketListener promises holds of the server with its objects. *)
THEOREM ServerIsListener == ServerSpec => Spec
<1>1. ServerInit => Init
  BY DEF ServerInit
<1>2. [ServerNext]_allVars => [Next]_vars
  BY ServerStepIsStep
<1>3. QED
  BY <1>1, <1>2, PTL DEF ServerSpec, Spec

(* The handlers of a server whose sockets are shut return, the server       *)
(* listens when start() returns, and is down when shutdown() returns.       *)
THEOREM ServerStartsAndStops ==
  ASSUME ~EarlyShutdown, ~SecondStart
  PROVE  ServerSpec => [](CleanShutdown /\ StartMeansListening /\ ShutdownStops)
BY ServerIsListener, ShutdownIsClean, StartIsComplete, ShutdownIsComplete, PTL

(***************************************************************************)
(* The objects of a server.                                                *)
(***************************************************************************)

(* What an object owns now, and what the destructors have still to delete.  *)
Owned(o) == Owns(o, heap, AcceptHandlers, Thread, m_listOfResourcePrototypes)
Opened(o) == Free(o) \in Range(todo)
Doomed == AllTargets(todo, m_listOfResourcePrototypes)

(* Types. *)
ObjectsInv ==
  /\ heap \subseteq Objects
  /\ ppc \in ProgramPCs
  /\ handed \in 0..Len(Resources)
  /\ m_listOfResourcePrototypes \subseteq Range(Resources)
  /\ isDown \in BOOLEAN
  /\ todo \in Seq(OpKinds \X Objects)

(* Every run() has a socket of its own, and leaves all its handlers.        *)
NotRunningPCs == {"none", "begin", "keep"}

RunsInv ==
  /\ runs \in Nat /\ runs <= Len(sockets) /\ m_pthread \in 0..Len(sockets) \cup {NoThread}
  /\ lpc \in {"begin", "keep"} \/ CallerIn({"s_test"}) => runs < Len(sockets)
  /\ lpc \notin NotRunningPCs \/ m_acceptHandlers # 0 => runs # 0
  /\ runs # 0 /\ lpc \notin {"create", "queue"} => m_acceptHandlers = NumThreads

(* The program uses a server that it has created, and deletes it when the    *)
(* server is down.                                                          *)
ProgramInv ==
  /\ isDown => lpc = "none"
  /\ ppc \in {"create", "register"} =>
       /\ isDown /\ \A c \in Callers : cpc[c] = "idle"
       /\ runs = 0 /\ m_acceptHandlers = 0 /\ m_pthread = 0
       /\ heap \subseteq createResources \cup Statics \cup createServerRuntime
  /\ ppc = "create" => m_listOfResourcePrototypes = {} /\ handed = 0
  /\ ppc \notin {"create", "register"} => handed = Len(Resources)
  /\ ppc \in {"delete", "gone"} => isDown /\ \A c \in Callers : cpc[c] \in {"idle", "r_run"}
  /\ ppc # "delete" => todo = <<>>

(* The objects that a program uses until it deletes them: those it has from  *)
(* the start, the handlers of every run(), of the current one their mutex,   *)
(* their queue and its runners, and the request of a handler that has a      *)
(* connection.                                                              *)
QueuePCs == ListenerPCs \ {"none", "begin", "keep", "end", "ended"}

EarlierHandlers ==
  {Of("C2SSocketAcceptHandler", a) : a \in (1..runs - 1) \X Handlers}

QueuedHandlers ==
  {h \in Handlers : h < m_acceptHandlers \/ (h = m_acceptHandlers /\ lpc # "queue")}

PresentInv ==
  /\ ppc \in {"create", "register", "use"} => createResources \cup Statics \subseteq heap
  /\ ppc \in {"register", "use"} => createServerRuntime \subseteq heap
  /\ ppc = "use" =>
       /\ EarlierHandlers \subseteq heap
       /\ \A h \in 1..m_acceptHandlers : NewHandler(Current(h), m_listOfResourcePrototypes) \subseteq heap
       /\ lpc \in QueuePCs =>
            /\ {AcceptMutex(runs), AcceptThreadQueue(runs)} \subseteq heap
            /\ \A h \in QueuedHandlers : Of("C2SThreadQueueRunner", Current(h)) \in heap
       /\ \A h \in Handlers : hpc[h] \in {"receive", "flush"} =>
            C2SHttpDataPull(Current(h)).m_pRequest \in heap

(* The body that an entity points into. *)
EntityInv ==
  \A a \in (0..MaxSockets) \X Handlers :
    C2SHttpRequest(a).m_pEntity \in heap => C2SHttpParser(a).m_body \in heap

(* The objects are a forest of which the destructors delete the branches: an  *)
(* object whose destructor has not begun has all that it owns, and nothing of *)
(* that is to be deleted but by itself.                                      *)
ForestInv ==
  ppc # "create" =>
    \A o \in heap : ~Opened(o) =>
      \A q \in Owned(o) : (q = pthread(NoThread) \/ q \in heap) /\ q \notin Doomed

(* An operation that is possible: on objects that live, or it detaches what   *)
(* a failed pthread_create() has left.                                       *)
Possible(op, objects, S) ==
  IF op[1] = "detach"
  THEN ClassOf(op[2]) = "pthread_t" /\ op[2] \in objects \cup {pthread(NoThread)}
  ELSE Targets(op, S) \subseteq objects

(* What the destructors have to do is possible, in their order. *)
TodoInv ==
  /\ TargetsOnce(todo, m_listOfResourcePrototypes)
  /\ \A op \in Range(todo) : Possible(op, heap, m_listOfResourcePrototypes)
  /\ ClearsThenDeletes(todo)
  /\ EntityFirst(todo, heap)

HeapInv ==
  ObjectsInv /\ RunsInv /\ ProgramInv /\ PresentInv /\ EntityInv /\ ForestInv /\ TodoInv

(* An object that lives is never deleted, or has an owner that will, or is in *)
(* the hands of a run(), of the program or of a destructor.                  *)
Left ==
  Statics \cup UNION {NewResource(Shared, x) : x \in Range(Resources) \ m_listOfResourcePrototypes}

RunObjects ==
  {AcceptMutex(runs), AcceptThreadQueue(runs)} \cup C2SThreadQueue(runs, Handlers).m_threads

HasOwner(o) == OwnerOf(o) \in heap /\ ~Opened(OwnerOf(o)) /\ o \in Owned(OwnerOf(o))

Kept(o) ==
  \/ o \in Left
  \/ o \in Doomed
  \/ HasOwner(o)
  \/ o \in RunObjects /\ lpc \in QueuePCs
  \/ o = The("C2STestRestFixture") /\ ppc \notin {"delete", "gone"}

OwnedInv == \A o \in heap : Kept(o)

LeftInv == Left \subseteq heap /\ Left \cap Doomed = {}

(* The server has the first resource of each context root. *)
RegisteredInv ==
  /\ m_listOfResourcePrototypes =
       {Resources[k] : k \in {j \in 1..handed :
                                ~\E i \in 1..j - 1 : ContextRoot[Resources[i]] = ContextRoot[Resources[j]]}}
  /\ \A k \in 1..handed : \E x \in m_listOfResourcePrototypes : ContextRoot[x] = ContextRoot[Resources[k]]

LeakInv == OwnedInv /\ LeftInv /\ RegisteredInv

-----------------------------------------------------------------------------
(* The objects there can be. *)

(* What the program has from the start, and the server. *)
LEMMA StartObjects ==
  createResources \cup createServerRuntime =
    Program \cup UNION {NewResource(Shared, x) : x \in Range(Resources)}
<1>1. PICK R : R = UNION {NewResource(Shared, x) : x \in Range(Resources)}
  OBVIOUS
<1>2. /\ createResources = {The("C2STestRestFixture"), C2STestRestFixture.pGlobalMutex} \cup R
      /\ createServerRuntime = {C2STestRestFixture.m_sr} \cup NewServer
  BY <1>1 DEF createResources, createServerRuntime, pGlobalMutex
<1>3. QED
  BY <1>1, <1>2 DEF Program

(* The kinds of objects. *)
LEMMA ObjectKinds ==
  ASSUME NEW o \in Objects
  PROVE  \/ o \in Program
         \/ \E x \in Range(Resources) : o \in NewResource(Shared, x)
         \/ o \in Statics
         \/ \E a \in RunNames : o \in NewHandler(a, Range(Resources))
         \/ \E a \in RunNames : o \in {C2SHttpDataPull(a).m_pRequest, C2SHttpRequest(a).m_pEntity,
                                       C2SHttpParser(a).m_body}
         \/ \E r \in 1..MaxSockets : o \in {AcceptMutex(r), AcceptThreadQueue(r)}
         \/ \E r \in 1..MaxSockets : \E h \in Handlers : o = Of("C2SThreadQueueRunner", <<r, h>>)
         \/ \E n \in 1..NoThread : o = pthread(n)
<1>1. CASE o \in createResources \cup createServerRuntime
  BY <1>1, StartObjects
<1>2. CASE o \in HandlerObjects
  BY <1>2 DEF HandlerObjects
<1>3. CASE o \in RequestObjects
  BY <1>3 DEF RequestObjects
<1>4. CASE o \in QueueObjects
  BY <1>4 DEF QueueObjects, C2SThreadQueue
<1>5. QED
  BY <1>1, <1>2, <1>3, <1>4 DEF Objects

(* A handler is not the program's. *)
LEMMA RunNamesAreNotShared ==
  ASSUME NEW a \in RunNames
  PROVE  a # Shared /\ \E r \in 1..MaxSockets : \E h \in Handlers : a = <<r, h>>
<1>1. PICK r \in 1..MaxSockets, h \in Handlers : a = <<r, h>>
  BY DEF RunNames
<1>2. r # 0
  BY SocketListenerAssumption
<1>3. QED
  BY <1>1, <1>2 DEF Shared

(* Every object is named as its class is. *)
LEMMA ObjectsAreNamed ==
  ASSUME NEW o \in Objects
  PROVE  Named(o)
<1> USE DEF Named, Singles, PerHandler, Object, The, Of, ClassOf, HandlerOf, NameOf
<1>1. CASE o \in Program
  BY <1>1, ProgramNames
<1>2. CASE \E x \in Range(Resources) : o \in NewResource(Shared, x)
  BY <1>2, ResourceNames
<1>3. CASE o \in Statics
  BY <1>3 DEF Statics, C2SLogBase, C2SLogSimpleMessageFactory
<1>4. CASE \E a \in RunNames : o \in NewHandler(a, Range(Resources))
  BY <1>4, RunNamesAreNotShared, HandlerNames
<1>5. CASE \E a \in RunNames : o \in {C2SHttpDataPull(a).m_pRequest, C2SHttpRequest(a).m_pEntity,
                                      C2SHttpParser(a).m_body}
  BY <1>5, RunNamesAreNotShared DEF C2SHttpDataPull, C2SHttpRequest, C2SHttpParser
<1>6. CASE \E r \in 1..MaxSockets : o \in {AcceptMutex(r), AcceptThreadQueue(r)}
  BY <1>6 DEF AcceptMutex, AcceptThreadQueue
<1>7. CASE \E r \in 1..MaxSockets : \E h \in Handlers : o = Of("C2SThreadQueueRunner", <<r, h>>)
  BY <1>7
<1>8. CASE \E n \in 1..NoThread : o = pthread(n)
  BY <1>8 DEF pthread
<1>9. QED
  BY <1>1, <1>2, <1>3, <1>4, <1>5, <1>6, <1>7, <1>8, ObjectKinds

(* The accept handlers that live, and the thread, are finitely many. *)
LEMMA HandlersAndThread ==
  ASSUME ObjectsInv, RunsInv
  PROVE  /\ AcceptHandlers \subseteq heap
         /\ \A h \in AcceptHandlers : ClassOf(h) = "C2SSocketAcceptHandler"
         /\ \A t \in Thread : ClassOf(t) = "pthread_t"
         /\ IsFiniteSet(AcceptHandlers) /\ IsFiniteSet(Thread)
<1>1. /\ AcceptHandlers \subseteq heap
      /\ \A h \in AcceptHandlers : ClassOf(h) = "C2SSocketAcceptHandler"
  BY DEF AcceptHandlers, Of, Object, ClassOf
<1>2. \A t \in Thread : ClassOf(t) = "pthread_t"
  BY DEF Thread, pthread, Object, ClassOf
<1>3. IsFiniteSet(Thread)
  <2>1. Thread = {} \/ Thread = {pthread(m_pthread)}
    BY DEF Thread
  <2>2. QED
    BY <2>1, FS_EmptySet, FS_Singleton
<1>4. IsFiniteSet(AcceptHandlers)
  <2>1. PICK R : R = 1..runs
    OBVIOUS
  <2>2. IsFiniteSet(R) /\ IsFiniteSet(Handlers)
    <3>1. \A n \in Nat : IsFiniteSet(1..n)
      BY FS_Interval
    <3>2. QED
      BY <2>1, <3>1, SocketListenerAssumption DEF RunsInv, Handlers
  <2>3. IsFiniteSet(R \X Handlers)
    BY <2>2, FS_Product
  <2>4. PICK f : f = [a \in R \X Handlers |-> Of("C2SSocketAcceptHandler", a)]
    OBVIOUS
  <2>5. IsFiniteSet({f[a] : a \in R \X Handlers})
    BY <2>3, <2>4, ImageIsFinite
  <2>6. AcceptHandlers \in SUBSET {f[a] : a \in R \X Handlers}
    <3>1. SUFFICES ASSUME NEW o \in AcceptHandlers
                   PROVE  \E a \in R \X Handlers : o = f[a]
      OBVIOUS
    <3>2. PICK r \in 1..runs, h \in Handlers : o = Of("C2SSocketAcceptHandler", <<r, h>>)
      BY DEF AcceptHandlers
    <3>3. <<r, h>> \in R \X Handlers /\ f[<<r, h>>] = o
      BY <2>1, <2>4, <3>2
    <3>4. QED
      BY <3>3
  <2>7. QED
    BY <2>5, <2>6, FS_Subset
<1>5. QED
  BY <1>1, <1>2, <1>3, <1>4

-----------------------------------------------------------------------------
(* Who does what to the objects. *)

(* The steps of the threads that change objects, or whether the server is   *)
(* down; and those that do not.                                             *)
ThreadSteps(c) == StartThreadObject(c) \/ StartThrowsWithThread(c) \/ ServerIsUp(c) \/ ServerIsDown(c)
QueueSteps == NewQueue \/ NewAcceptHandler \/ QueueNewHandler \/ DeleteQueueObjects
RequestSteps(h) == reset(h) \/ ReceiveRequest(h) \/ FlushRequest(h)

QuietCaller(c) ==
  \/ ConnectForStart(c) \/ ConnectThrows(c) \/ WaitForStartup(c) \/ StartReturn(c)
  \/ RunReturn(c) \/ StopKeepRunning(c) \/ InterruptEarlier(c) \/ InterruptHandler(c)
  \/ InterruptedAll(c) \/ ShutSocket(c) \/ CloseSocket(c) \/ AwaitStopped(c)

QuietListener ==
  \/ SetRunning \/ SetListening \/ LoopContinues \/ StartHandler
  \/ StartedHandler \/ LoopEnds \/ JoinHandlers \/ ResetListening \/ ResetRunning

QuietHandler(h) ==
  \/ LockAccept(h) \/ InterruptedBefore(h) \/ NotInterrupted(h) \/ AcceptFails(h)
  \/ InterruptedAfter(h) \/ AcceptThrows(h) \/ FinishHandler(h)
  \/ AcceptConnection(h) \/ AcceptErrs(h) \/ RequestThrows(h)

QuietSteps ==
  \/ \E c \in Callers : ServerCallerCalls(c) \/ QuietCaller(c)
  \/ QuietListener
  \/ \E h \in Handlers : QuietHandler(h)

(* Every step is the program's or of one of these kinds. *)
LEMMA ServerStepKinds ==
  ASSUME [ServerNext]_allVars
  PROVE  \/ ProgramNext
         \/ \E c \in Callers : ThreadSteps(c)
         \/ QueueSteps
         \/ \E h \in Handlers : RequestSteps(h)
         \/ (QuietSteps \/ UNCHANGED vars) /\ UNCHANGED lifeVars
<1>1. ASSUME NEW c \in Callers, ServerCallerCalls(c) \/ ServerCallerNext(c)
      PROVE  ThreadSteps(c) \/ (QuietSteps /\ UNCHANGED lifeVars)
  BY <1>1 DEF ServerCallerCalls, ServerCallerNext, ThreadSteps, QuietSteps, QuietCaller
<1>2. ASSUME ServerListenerNext
      PROVE  QueueSteps \/ (QuietSteps /\ UNCHANGED lifeVars)
  BY <1>2 DEF ServerListenerNext, QueueSteps, QuietSteps, QuietListener
<1>3. ASSUME NEW h \in Handlers, ServerHandlerNext(h) \/ ServerHandlerMeetsClient(h)
      PROVE  RequestSteps(h) \/ (QuietSteps /\ UNCHANGED lifeVars)
  BY <1>3 DEF ServerHandlerNext, ServerHandlerMeetsClient, RequestSteps, QuietSteps, QuietHandler
<1>4. QED
  BY <1>1, <1>2, <1>3 DEF ServerNext, allVars

(* What the steps of the callers' threads do ... *)
LEMMA ThreadStepFacts ==
  ASSUME NEW c \in Callers, ThreadSteps(c)
  PROVE  /\ UNCHANGED <<ppc, handed, m_listOfResourcePrototypes, todo, runs, m_acceptHandlers, hpc>>
         /\ \/ /\ cpc[c] = "s_test" /\ cpc' = [cpc EXCEPT ![c] = "s_wait"]
               /\ lpc' = "begin" /\ ~m_bIsRunning /\ isDown' = FALSE
               /\ heap' = (heap \ Thread) \cup {pthread(Len(sockets))}
               /\ m_pthread' = Len(sockets) /\ sockets' = sockets
            \/ /\ cpc[c] = "s_test" /\ cpc' = [cpc EXCEPT ![c] = "idle"]
               /\ heap' = heap \ Thread /\ m_pthread' = NoThread
               /\ UNCHANGED <<isDown, lpc, sockets>>
            \/ /\ cpc[c] = "r_connect" /\ cpc' = [cpc EXCEPT ![c] = "r_run"]
               /\ lpc' = "begin" /\ isDown' = FALSE
               /\ sockets' = Append(sockets, "listening")
               /\ UNCHANGED <<heap, m_pthread>>
            \/ /\ cpc[c] = "x_done" /\ cpc' = [cpc EXCEPT ![c] = "idle"]
               /\ isDown' = TRUE
               /\ UNCHANGED <<heap, m_pthread, lpc, sockets>>
<1>1. CASE StartThreadObject(c)
  BY <1>1 DEF StartThreadObject, StartThread, CallerStep, workVars, socketVars, programVars,
              setupVars, handlerVars
<1>2. CASE StartThrowsWithThread(c)
  BY <1>2 DEF StartThrowsWithThread, StartThrows, CallerMoves, CallerStep, workVars, socketVars,
              programVars, setupVars, handlerVars
<1>3. CASE ServerIsUp(c)
  BY <1>3 DEF ServerIsUp, ConnectForRun, Connect, CallerStep, workVars, programVars, setupVars,
              handlerVars
<1>4. CASE ServerIsDown(c)
  BY <1>4 DEF ServerIsDown, ShutdownReturn, CallerMoves, CallerStep, workVars, socketVars,
              programVars, setupVars, handlerVars
<1>5. QED
  BY <1>1, <1>2, <1>3, <1>4 DEF ThreadSteps

(* ... those of the listener ... *)
LEMMA QueueStepFacts ==
  ASSUME QueueSteps
  PROVE  /\ UNCHANGED <<ppc, handed, m_listOfResourcePrototypes, todo, isDown, m_pthread, hpc, cpc,
                        sockets>>
         /\ \/ /\ lpc = "keep" /\ lpc' = "create" /\ m_acceptHandlers' = 0 /\ runs' = runs + 1
               /\ heap' = heap \cup {AcceptMutex(runs + 1), AcceptThreadQueue(runs + 1)}
            \/ /\ lpc = "create" /\ lpc' = "queue" /\ runs' = runs
               /\ m_acceptHandlers + 1 \in Handlers /\ m_acceptHandlers' = m_acceptHandlers + 1
               /\ heap' = heap \cup NewHandler(<<runs, m_acceptHandlers + 1>>,
                                               m_listOfResourcePrototypes)
            \/ /\ lpc = "queue" /\ lpc' \in {"listen", "create"} /\ runs' = runs
               /\ lpc' = "listen" => m_acceptHandlers = NumThreads
               /\ m_acceptHandlers' = m_acceptHandlers
               /\ heap' = heap \cup {Of("C2SThreadQueueRunner", <<runs, m_acceptHandlers>>)}
            \/ /\ lpc = "joined" /\ lpc' = "end" /\ runs' = runs
               /\ m_acceptHandlers' = m_acceptHandlers
               /\ heap' = heap \ ({AcceptThreadQueue(runs), AcceptMutex(runs)}
                                  \cup {Of("C2SThreadQueueRunner", <<runs, h>>) : h \in Handlers})
<1>1. CASE NewQueue
  BY <1>1 DEF NewQueue, SetKeepRunning, ListenerStep, outsideVars, socketVars, callerVars, programVars
<1>2. CASE NewAcceptHandler
  BY <1>2 DEF NewAcceptHandler, CreateHandler, ListenerStep, Current, socketVars, callerVars,
              programVars, handlerVars
<1>3. CASE QueueNewHandler
  <2>1. C2SThreadQueue(runs, {m_acceptHandlers}).m_threads
          = {Of("C2SThreadQueueRunner", <<runs, m_acceptHandlers>>)}
    BY DEF C2SThreadQueue
  <2>2. QED
    BY <1>3, <2>1 DEF QueueNewHandler, QueueHandler, ListenerStep, outsideVars, socketVars, callerVars,
                      setupVars, programVars, handlerVars
<1>4. CASE DeleteQueueObjects
  <2>1. C2SThreadQueue(runs, Handlers).m_threads
          = {Of("C2SThreadQueueRunner", <<runs, h>>) : h \in Handlers}
    BY DEF C2SThreadQueue
  <2>2. QED
    BY <1>4, <2>1 DEF DeleteQueueObjects, DeleteQueue, ListenerStep, outsideVars, socketVars,
                      callerVars, setupVars, programVars, handlerVars
<1>5. QED
  BY <1>1, <1>2, <1>3, <1>4 DEF QueueSteps

(* ... and those of the handlers. *)
LEMMA RequestStepFacts ==
  ASSUME NEW h \in Handlers, RequestSteps(h)
  PROVE  /\ UNCHANGED <<ppc, handed, m_listOfResourcePrototypes, todo, isDown, m_pthread, cpc,
                        sockets, lpc, m_acceptHandlers, runs>>
         /\ \/ /\ hpc[h] = "accepted" /\ hpc' = [hpc EXCEPT ![h] = "receive"]
               /\ heap' = (heap \ {C2SHttpRequest(<<runs, h>>).m_pEntity,
                                   C2SHttpParser(<<runs, h>>).m_body})
                          \cup {C2SHttpDataPull(<<runs, h>>).m_pRequest}
            \/ /\ hpc[h] = "receive" /\ hpc' = [hpc EXCEPT ![h] = "flush"]
               /\ heap' = heap \/ heap' = heap \cup {C2SHttpParser(<<runs, h>>).m_body}
            \/ /\ hpc[h] = "flush" /\ hpc' = [hpc EXCEPT ![h] = "return"]
               /\ \/ heap' = heap
                  \/ /\ C2SHttpParser(<<runs, h>>).m_body \in heap
                     /\ heap' = heap \cup {C2SHttpRequest(<<runs, h>>).m_pEntity}
<1>1. CASE reset(h)
  BY <1>1 DEF reset, Serve, HandlerMoves, HandlerStep, Current, serverVars, setupVars, socketVars,
              callerVars, programVars
<1>2. CASE ReceiveRequest(h)
  <2>1. PICK body \in HasBody :
          heap' = heap \cup (IF body THEN {C2SHttpParser(<<runs, h>>).m_body} ELSE {})
    BY <1>2 DEF ReceiveRequest, Current
  <2>2. heap' = heap \/ heap' = heap \cup {C2SHttpParser(<<runs, h>>).m_body}
    BY <2>1
  <2>3. QED
    BY <1>2, <2>2 DEF ReceiveRequest, RequestEnds, HandlerMoves, HandlerStep, serverVars, setupVars,
                      socketVars, callerVars, programVars
<1>3. CASE FlushRequest(h)
  BY <1>3 DEF FlushRequest, Flush, HandlerStep, Current, serverVars, setupVars, socketVars,
              callerVars, programVars
<1>4. QED
  BY <1>1, <1>2, <1>3 DEF RequestSteps

(* What the others do to the threads and the sockets: a caller is at "s_test" *)
(* when it has a new socket, ...                                            *)
LEMMA QuietCallerFacts ==
  ASSUME TypeOK, NEW c \in Callers, ServerCallerCalls(c) \/ QuietCaller(c)
  PROVE  /\ UNCHANGED <<lpc, m_acceptHandlers, hpc>>
         /\ Len(sockets') \in Nat /\ Len(sockets) <= Len(sockets')
         /\ \A d \in Callers : d # c => cpc'[d] = cpc[d]
         /\ cpc'[c] = "s_test" => Len(sockets') = Len(sockets) + 1
         /\ cpc[c] = "idle" => ppc = "use"
         /\ cpc[c] = "r_run" => cpc'[c] = "idle"
<1>1. CallerCalls(c) \/ CallerNext(c)
  BY DEF ServerCallerCalls, RunOnServerThread, QuietCaller, CallerCalls, CallerNext
<1>2. UNCHANGED <<m_acceptHandlers, hpc>>
  BY <1>1, CallerFrame
<1>3. lpc' = lpc
  BY DEF ServerCallerCalls, RunOnServerThread, QuietCaller, CallRuntimeStart, CallRuntimeRun,
     CallShutdown, ConnectForStart, ConnectThrows, WaitForStartup, StartReturn, RunReturn,
     StopKeepRunning, InterruptEarlier, InterruptHandler, InterruptedAll, ShutSocket, CloseSocket, AwaitStopped,
     CallerMoves
<1>4. \A d \in Callers : d # c => cpc'[d] = cpc[d]
  BY <1>1, CallerMove
<1>5. \/ sockets' = sockets
      \/ \E t \in SocketStates : sockets' = Append(sockets, t)
      \/ \E f : sockets' = [i \in DOMAIN sockets |-> f[i]]
  <2>1. CASE ServerCallerCalls(c)
    BY <2>1 DEF ServerCallerCalls, RunOnServerThread, CallRuntimeStart, CallRuntimeRun, CallShutdown,
                CallerMoves, socketVars
  <2>2. CASE ConnectForStart(c) \/ ConnectThrows(c)
    BY <2>2 DEF ConnectForStart, Connect, ConnectThrows, SocketStates
  <2>3. CASE ShutSocket(c)
    <3>1. PICK f : f = [s \in DOMAIN sockets |->
                          IF s = SocketDescriptor /\ sockets[s] = "listening" THEN "shut"
                          ELSE sockets[s]]
      OBVIOUS
    <3>2. sockets' = [s \in DOMAIN sockets |-> f[s]]
      BY <2>3, <3>1 DEF ShutSocket
    <3>3. QED
      BY <3>2
  <2>4. CASE CloseSocket(c)
    <3>1. PICK f : f = [s \in DOMAIN sockets |->
                          IF s = SocketDescriptor THEN "closed" ELSE sockets[s]]
      OBVIOUS
    <3>2. sockets' = [s \in DOMAIN sockets |-> f[s]]
      BY <2>4, <3>1 DEF CloseSocket
    <3>3. QED
      BY <3>2
  <2>5. CASE \/ WaitForStartup(c) \/ StartReturn(c) \/ RunReturn(c) \/ StopKeepRunning(c)
             \/ InterruptEarlier(c) \/ InterruptHandler(c) \/ InterruptedAll(c)
             \/ AwaitStopped(c)
    BY <2>5 DEF WaitForStartup, StartReturn, RunReturn, StopKeepRunning, InterruptEarlier, InterruptHandler,
       InterruptedAll, AwaitStopped, CallerMoves, socketVars
  <2>6. QED
    BY <2>1, <2>2, <2>3, <2>4, <2>5 DEF QuietCaller
<1>6. Len(sockets') \in Nat /\ Len(sockets) <= Len(sockets')
  <2>1. sockets \in Seq(SocketStates)
    BY DEF TypeOK
  <2>2. CASE \E t \in SocketStates : sockets' = Append(sockets, t)
    BY <2>1, <2>2
  <2>3. ASSUME NEW f, sockets' = [i \in DOMAIN sockets |-> f[i]]
        PROVE  Len(sockets') = Len(sockets)
    <3>1. DOMAIN sockets = 1..Len(sockets) /\ Len(sockets) \in Nat
      BY <2>1
    <3>2. sockets' \in [1..Len(sockets) -> {f[i] : i \in DOMAIN sockets}]
      BY <2>3, <3>1
    <3>3. QED
      BY <3>1, <3>2, FunctionIsSeq
  <2>4. QED
    BY <1>5, <2>1, <2>2, <2>3
<1>7. cpc'[c] = "s_test" => Len(sockets') = Len(sockets) + 1
  <2>1. CASE ConnectForStart(c)
    <3>1. sockets' = Append(sockets, "listening") /\ sockets \in Seq(SocketStates)
          /\ "listening" \in SocketStates
      BY <2>1 DEF ConnectForStart, Connect, TypeOK, SocketStates
    <3>2. QED
      BY <3>1
  <2>2. CASE ~ConnectForStart(c)
    <3>1. cpc \in [Callers -> {"idle"} \cup StartPCs \cup RunPCs \cup ShutdownPCs]
      BY DEF TypeOK
    <3>2. cpc'[c] # "s_test"
      BY <2>2, <3>1 DEF ServerCallerCalls, RunOnServerThread, QuietCaller, CallRuntimeStart,
         CallRuntimeRun, CallShutdown, ConnectThrows, WaitForStartup, StartReturn, RunReturn,
         StopKeepRunning, InterruptEarlier, InterruptHandler, InterruptedAll, ShutSocket, CloseSocket, AwaitStopped,
         CallerMoves, CallerStep
    <3>3. QED
      BY <3>2
  <2>3. QED
    BY <2>1, <2>2
<1>8. cpc[c] = "idle" => ppc = "use"
  BY DEF ServerCallerCalls, QuietCaller, ConnectForStart, Connect, ConnectThrows, WaitForStartup,
     StartReturn, RunReturn, StopKeepRunning, InterruptEarlier, InterruptHandler, InterruptedAll, ShutSocket,
     CloseSocket, AwaitStopped, CallerMoves, CallerStep
<1>9. cpc[c] = "r_run" => cpc'[c] = "idle"
  <2>1. cpc \in [Callers -> {"idle"} \cup StartPCs \cup RunPCs \cup ShutdownPCs]
    BY DEF TypeOK
  <2>2. QED
    BY <2>1 DEF ServerCallerCalls, RunOnServerThread, QuietCaller, CallRuntimeStart,
       CallRuntimeRun, CallShutdown, ConnectForStart, Connect, ConnectThrows, WaitForStartup,
       StartReturn, RunReturn, StopKeepRunning, InterruptEarlier, InterruptHandler, InterruptedAll, ShutSocket,
       CloseSocket, AwaitStopped, CallerMoves, CallerStep
<1>10. QED
  BY <1>2, <1>3, <1>4, <1>6, <1>7, <1>8, <1>9

(* ... the listener stays in a run() or outside of it, ...                  *)
LEMMA QuietListenerFacts ==
  ASSUME TypeOK, QuietListener
  PROVE  /\ lpc # "none"
         /\ lpc' \in {"begin", "keep"} => lpc \in {"begin", "keep"}
         /\ lpc \in QueuePCs <=> lpc' \in QueuePCs
         /\ lpc \in NotRunningPCs => lpc' \in NotRunningPCs
         /\ \A pc \in {"create", "queue"} : lpc # pc /\ lpc' # pc
         /\ UNCHANGED <<m_acceptHandlers, sockets, cpc>>
         /\ \A h \in Handlers : hpc'[h] \in {"receive", "flush"} => hpc[h] = hpc'[h]
<1>1. /\ lpc # "none"
      /\ lpc' \in {"begin", "keep"} => lpc \in {"begin", "keep"}
      /\ lpc \in QueuePCs <=> lpc' \in QueuePCs
      /\ lpc \in NotRunningPCs => lpc' \in NotRunningPCs
      /\ \A pc \in {"create", "queue"} : lpc # pc /\ lpc' # pc
  BY DEF QuietListener, SetRunning, SetListening, LoopContinues, StartHandler, StartedHandler,
     LoopEnds, JoinHandlers, ResetListening, ResetRunning, ListenerStep, QueuePCs, NotRunningPCs,
     ListenerPCs
<1>2. UNCHANGED <<m_acceptHandlers, sockets, cpc>>
  BY DEF QuietListener, SetRunning, SetListening, LoopContinues, StartHandler, StartedHandler,
     LoopEnds, JoinHandlers, ResetListening, ResetRunning, outsideVars, socketVars, callerVars,
     setupVars
<1>3. hpc' = hpc \/ hpc' = [hpc EXCEPT ![Head(idle)] = "lock"]
  BY DEF QuietListener, SetRunning, SetListening, LoopContinues, StartHandler, StartedHandler,
     LoopEnds, JoinHandlers, ResetListening, ResetRunning, handlerVars
<1>4. \A h \in Handlers : hpc'[h] \in {"receive", "flush"} => hpc[h] = hpc'[h]
  BY <1>3 DEF TypeOK
<1>5. QED
  BY <1>1, <1>2, <1>4

(* ... and a handler gets no connection.                                    *)
LEMMA QuietHandlerFacts ==
  ASSUME TypeOK, NEW h \in Handlers, QuietHandler(h)
  PROVE  /\ UNCHANGED <<m_acceptHandlers, sockets, cpc, lpc>>
         /\ hpc[h] # "idle"
         /\ \A i \in Handlers : hpc'[i] \in {"receive", "flush"} => hpc[i] = hpc'[i]
<1>1. HandlerNext(h) \/ HandlerMeetsClient(h)
  BY DEF QuietHandler, HandlerNext, HandlerMeetsClient
<1>2. UNCHANGED <<m_acceptHandlers, sockets, cpc, lpc>>
  BY <1>1, HandlerFrame
<1>3. hpc[h] # "idle"
  BY DEF QuietHandler, LockAccept, InterruptedBefore, NotInterrupted, AcceptFails, InterruptedAfter,
     AcceptThrows, FinishHandler, AcceptConnection, AcceptErrs, RequestThrows, HandlerMoves,
     HandlerStep
<1>4. hpc' = hpc \/ \E to \in {"check", "return", "accept", "accepted", "idle"} :
                     hpc' = [hpc EXCEPT ![h] = to]
  BY DEF QuietHandler, LockAccept, InterruptedBefore, NotInterrupted, AcceptFails, InterruptedAfter,
     AcceptThrows, FinishHandler, AcceptConnection, AcceptErrs, RequestThrows, HandlerMoves,
     HandlerStep, handlerVars
<1>5. \A i \in Handlers : hpc'[i] \in {"receive", "flush"} => hpc[i] = hpc'[i]
  BY <1>4 DEF TypeOK
<1>6. QED
  BY <1>2, <1>3, <1>5

(* Nobody calls before the program uses the server, and afterwards the only *)
(* thread left is that of a run() that is over.                             *)
LEMMA OnlyInUse ==
  ASSUME IInv, ObjectsInv, ProgramInv, ppc # "use", [ServerNext]_allVars
  PROVE  /\ ~\E c \in Callers : ThreadSteps(c)
         /\ ~QueueSteps
         /\ ~\E h \in Handlers : RequestSteps(h)
         /\ UNCHANGED <<lpc, m_acceptHandlers, hpc>>
         /\ Len(sockets') \in Nat /\ Len(sockets) <= Len(sockets')
         /\ \A c \in Callers : cpc'[c] \in {"idle", cpc[c]}
<1>1. lpc = "none" /\ \A c \in Callers : cpc[c] \in {"idle", "r_run"}
  BY DEF ProgramInv, ObjectsInv, ProgramPCs
<1>2. TypeOK /\ \A h \in Handlers : hpc[h] = "idle"
  BY <1>1 DEF IInv, HandlerInv, LoopPCs, TypeInv
<1>3. ASSUME NEW c \in Callers PROVE ~ThreadSteps(c)
  BY <1>1, ThreadStepFacts
<1>4. ~QueueSteps
  BY <1>1, QueueStepFacts
<1>5. ASSUME NEW h \in Handlers PROVE ~RequestSteps(h)
  BY <1>2, RequestStepFacts
<1>6. CASE ProgramNext
  <2>1. UNCHANGED vars
    BY <1>6 DEF ProgramNext, CreateServer, RegisterResource, UseServer, DeleteServer, DeleteObject,
       FreeObject, ClearList, ServerIsGone
  <2>2. UNCHANGED <<lpc, m_acceptHandlers, hpc, sockets, cpc>>
    BY <2>1 DEF vars, handlerVars, setupVars, socketVars, callerVars
  <2>3. Len(sockets') \in Nat /\ Len(sockets) <= Len(sockets')
    BY <1>2, <2>2 DEF TypeOK
  <2>4. QED
    BY <1>3, <1>4, <1>5, <2>2, <2>3
<1>7. CASE UNCHANGED vars
  <2>1. UNCHANGED <<lpc, m_acceptHandlers, hpc, sockets, cpc>>
    BY <1>7 DEF vars, handlerVars, setupVars, socketVars, callerVars
  <2>2. Len(sockets') \in Nat /\ Len(sockets) <= Len(sockets')
    BY <1>2, <2>1 DEF TypeOK
  <2>3. QED
    BY <1>3, <1>4, <1>5, <2>1, <2>2
<1>8. CASE QuietSteps
  <2>1. ~QuietListener
    BY <1>1, <1>2, QuietListenerFacts
  <2>2. ASSUME NEW h \in Handlers PROVE ~QuietHandler(h)
    BY <1>2, QuietHandlerFacts
  <2>3. PICK c \in Callers : ServerCallerCalls(c) \/ QuietCaller(c)
    BY <1>8, <2>1, <2>2 DEF QuietSteps
  <2>4. /\ UNCHANGED <<lpc, m_acceptHandlers, hpc>>
        /\ Len(sockets') \in Nat /\ Len(sockets) <= Len(sockets')
        /\ \A d \in Callers : d # c => cpc'[d] = cpc[d]
        /\ cpc[c] = "idle" => ppc = "use"
        /\ cpc[c] = "r_run" => cpc'[c] = "idle"
    BY <1>2, <2>3, QuietCallerFacts
  <2>5. cpc'[c] = "idle"
    BY <1>1, <2>4
  <2>6. QED
    BY <1>3, <1>4, <1>5, <2>4, <2>5
<1>9. QED
  BY <1>3, <1>4, <1>5, <1>6, <1>7, <1>8, ServerStepKinds

(* In use, no destructor is under way. *)
LEMMA StepsInUse ==
  ASSUME IInv, ObjectsInv, ProgramInv, [ServerNext]_allVars,
         (\E c \in Callers : ThreadSteps(c)) \/ QueueSteps \/ \E h \in Handlers : RequestSteps(h)
  PROVE  ppc = "use" /\ todo = <<>>
BY OnlyInUse DEF ProgramInv

(* The quiet steps of all threads. *)
LEMMA QuietFacts ==
  ASSUME TypeOK, QuietSteps \/ UNCHANGED vars
  PROVE  /\ m_acceptHandlers' = m_acceptHandlers
         /\ Len(sockets') \in Nat /\ Len(sockets) <= Len(sockets')
         /\ lpc' \in {"begin", "keep"} => lpc \in {"begin", "keep"}
         /\ lpc \in QueuePCs <=> lpc' \in QueuePCs
         /\ lpc \in NotRunningPCs => lpc' \in NotRunningPCs
         /\ lpc = "none" => lpc' = "none"
         /\ \A pc \in {"create", "queue"} : lpc = pc <=> lpc' = pc
         /\ \A c \in Callers : cpc'[c] = "s_test" =>
              cpc[c] = "s_test" \/ Len(sockets') = Len(sockets) + 1
         /\ \A h \in Handlers : hpc'[h] \in {"receive", "flush"} => hpc[h] = hpc'[h]
<1>1. Len(sockets) \in Nat
  BY DEF TypeOK
<1>2. CASE UNCHANGED vars
  BY <1>1, <1>2 DEF vars, handlerVars, setupVars, socketVars, callerVars
<1>3. ASSUME NEW c \in Callers, ServerCallerCalls(c) \/ QuietCaller(c)
      PROVE  /\ UNCHANGED <<lpc, m_acceptHandlers, hpc>>
             /\ Len(sockets') \in Nat /\ Len(sockets) <= Len(sockets')
             /\ \A d \in Callers : cpc'[d] = "s_test" =>
                  cpc[d] = "s_test" \/ Len(sockets') = Len(sockets) + 1
  BY <1>3, QuietCallerFacts
<1>4. CASE QuietListener
  BY <1>1, <1>4, QuietListenerFacts
<1>5. ASSUME NEW h \in Handlers, QuietHandler(h)
      PROVE  /\ UNCHANGED <<m_acceptHandlers, sockets, cpc, lpc>>
             /\ \A i \in Handlers : hpc'[i] \in {"receive", "flush"} => hpc[i] = hpc'[i]
  BY <1>5, QuietHandlerFacts
<1>6. QED
  BY <1>1, <1>2, <1>3, <1>4, <1>5 DEF QuietSteps

-----------------------------------------------------------------------------
(* Every run() has a socket of its own. *)
LEMMA RunsStep ==
  ASSUME IInv, ObjectsInv, ProgramInv, RunsInv, [ServerNext]_allVars
  PROVE  RunsInv'
<1>1. TypeOK /\ Len(sockets) \in Nat /\ m_acceptHandlers \in Nat
      /\ cpc \in [Callers -> {"idle"} \cup StartPCs \cup RunPCs \cup ShutdownPCs]
      /\ sockets \in Seq(SocketStates)
  BY SocketListenerAssumption DEF IInv, TypeInv, TypeOK
<1>2. PhaseInv /\ runs \in Nat /\ runs <= Len(sockets)
  BY DEF IInv, RunsInv
<1>3. ASSUME ProgramNext PROVE RunsInv'
  <2>1. UNCHANGED <<vars, runs, m_pthread>>
    BY <1>3 DEF ProgramNext, CreateServer, RegisterResource, UseServer, DeleteServer, DeleteObject,
                FreeObject, ClearList, ServerIsGone
  <2>2. UNCHANGED <<sockets, lpc, cpc, m_acceptHandlers, runs, m_pthread>>
    BY <2>1 DEF vars, setupVars, socketVars, callerVars
  <2>3. QED
    BY <2>2 DEF RunsInv, CallerIn
<1>4. ASSUME NEW c \in Callers, ThreadSteps(c) PROVE RunsInv'
  <2>1. PICK to \in {"s_wait", "idle", "r_run"} : cpc' = [cpc EXCEPT ![c] = to]
    BY <1>4, ThreadStepFacts
  <2>2. \A d \in Callers : cpc'[d] = "s_test" => cpc[d] = "s_test"
    BY <1>1, <2>1
  <2>3. Len(sockets') \in Nat /\ Len(sockets) <= Len(sockets')
    <3>1. sockets' = sockets \/ sockets' = Append(sockets, "listening")
      BY <1>4, ThreadStepFacts
    <3>2. QED
      BY <1>1, <3>1, AppendProperties DEF SocketStates
  <2>4. runs' = runs /\ m_acceptHandlers' = m_acceptHandlers
    BY <1>4, ThreadStepFacts
  <2>5. m_pthread' \in {m_pthread, Len(sockets), NoThread}
    BY <1>4, ThreadStepFacts
  <2>6. CASE cpc[c] = "s_test" /\ sockets' = sockets
    <3>1. runs < Len(sockets)
      BY <2>6 DEF RunsInv, CallerIn
    <3>2. lpc = "none" /\ lpc' \in {"none", "begin"}
      BY <1>2, <1>4, <2>6, ThreadStepFacts DEF PhaseInv, CallerIn
    <3>3. QED
      BY <1>1, <1>2, <2>2, <2>4, <2>5, <2>6, <3>1, <3>2 DEF RunsInv, CallerIn, NotRunningPCs
  <2>7. CASE cpc[c] = "r_connect" /\ sockets' = Append(sockets, "listening") /\ lpc' = "begin"
             /\ m_pthread' = m_pthread
    <3>1. Len(sockets') = Len(sockets) + 1 /\ lpc = "none"
      BY <1>1, <1>2, <2>7, AppendProperties DEF SocketStates, PhaseInv, CallerIn
    <3>2. QED
      BY <1>1, <1>2, <2>2, <2>4, <2>7, <3>1 DEF RunsInv, CallerIn, NotRunningPCs
  <2>8. CASE UNCHANGED <<m_pthread, lpc, sockets>>
    BY <1>1, <1>2, <2>2, <2>4, <2>8 DEF RunsInv, CallerIn, NotRunningPCs
  <2>9. QED
    BY <1>4, <2>6, <2>7, <2>8, ThreadStepFacts
<1>5. ASSUME QueueSteps PROVE RunsInv'
  <2>1. UNCHANGED <<cpc, sockets, m_pthread>>
    BY <1>5, QueueStepFacts
  <2>2. ~CallerIn({"s_test"})
    <3>1. lpc # "none"
      BY <1>5, QueueStepFacts
    <3>2. QED
      BY <1>2, <3>1 DEF PhaseInv, CallerIn
  <2>3. ~CallerIn({"s_test"})'
    BY <2>1, <2>2 DEF CallerIn
  <2>4. CASE lpc = "keep" /\ lpc' = "create" /\ runs' = runs + 1
    <3>1. runs < Len(sockets)
      BY <2>4 DEF RunsInv
    <3>2. QED
      BY <1>1, <1>2, <2>1, <2>3, <2>4, <3>1 DEF RunsInv
  <2>5. CASE /\ lpc \in {"create", "queue", "joined"} /\ lpc' \in {"queue", "listen", "create", "end"}
             /\ runs' = runs
             /\ lpc' \notin {"create", "queue"} => m_acceptHandlers' = NumThreads
    <3>1. runs # 0
      BY <2>5 DEF RunsInv, NotRunningPCs
    <3>2. QED
      BY <1>1, <1>2, <2>1, <2>3, <2>5, <3>1 DEF RunsInv
  <2>6. QED
    <3>1. lpc = "joined" => m_acceptHandlers = NumThreads
      BY <1>2 DEF RunsInv, NotRunningPCs
    <3>2. QED
      BY <1>5, <2>4, <2>5, <3>1, QueueStepFacts
<1>6. ASSUME NEW h \in Handlers, RequestSteps(h) PROVE RunsInv'
  <2>1. UNCHANGED <<sockets, lpc, cpc, m_acceptHandlers, runs, m_pthread>>
    BY <1>6, RequestStepFacts
  <2>2. QED
    BY <2>1 DEF RunsInv, CallerIn
<1>7. ASSUME QuietSteps \/ UNCHANGED vars, UNCHANGED lifeVars PROVE RunsInv'
  <2>1. runs' = runs /\ m_pthread' = m_pthread
    BY <1>7 DEF lifeVars
  <2>2. /\ m_acceptHandlers' = m_acceptHandlers
        /\ Len(sockets') \in Nat /\ Len(sockets) <= Len(sockets')
        /\ lpc' \in {"begin", "keep"} => lpc \in {"begin", "keep"}
        /\ lpc \in NotRunningPCs => lpc' \in NotRunningPCs
        /\ \A pc \in {"create", "queue"} : lpc = pc <=> lpc' = pc
        /\ \A c \in Callers : cpc'[c] = "s_test" =>
             cpc[c] = "s_test" \/ Len(sockets') = Len(sockets) + 1
    BY <1>1, <1>7, QuietFacts
  <2>3. m_pthread' \in 0..Len(sockets') \cup {NoThread}
    BY <1>1, <2>1, <2>2 DEF RunsInv
  <2>4. CallerIn({"s_test"})' => CallerIn({"s_test"}) \/ Len(sockets') = Len(sockets) + 1
    BY <2>2 DEF CallerIn
  <2>5. lpc' \in {"begin", "keep"} \/ CallerIn({"s_test"})' => runs' < Len(sockets')
    BY <1>1, <1>2, <2>1, <2>2, <2>4 DEF RunsInv
  <2>6. QED
    BY <1>1, <1>2, <2>1, <2>2, <2>3, <2>5 DEF RunsInv
<1>8. QED
  BY <1>3, <1>4, <1>5, <1>6, <1>7, ServerStepKinds

(* The program uses a server that it has created. *)
LEMMA ProgramStep ==
  ASSUME IInv, ObjectsInv, ProgramInv, [ServerNext]_allVars
  PROVE  ProgramInv'
<1>1. TypeOK /\ PhaseInv
      /\ cpc \in [Callers -> {"idle"} \cup StartPCs \cup RunPCs \cup ShutdownPCs]
  BY DEF IInv, TypeInv, TypeOK
<1>2. ASSUME ProgramNext PROVE ProgramInv'
  <2>1. UNCHANGED <<vars, runs, m_pthread, isDown>>
    BY <1>2 DEF ProgramNext, CreateServer, RegisterResource, UseServer, DeleteServer, DeleteObject,
                FreeObject, ClearList, ServerIsGone
  <2>2. UNCHANGED <<lpc, cpc, m_acceptHandlers, runs, m_pthread, isDown>>
    BY <2>1 DEF vars, setupVars, callerVars
  <2>3. CASE CreateServer
    BY <2>2, <2>3 DEF CreateServer, ProgramInv
  <2>4. CASE RegisterResource
    BY <2>2, <2>4 DEF RegisterResource, ProgramInv
  <2>5. CASE UseServer
    BY <2>2, <2>5 DEF UseServer, ProgramInv
  <2>6. CASE DeleteServer
    BY <2>2, <2>6 DEF DeleteServer, ProgramInv
  <2>7. CASE DeleteObject \/ FreeObject \/ ClearList
    <3>1. ppc = "delete" /\ UNCHANGED <<ppc, handed, m_listOfResourcePrototypes>>
      BY <2>7 DEF DeleteObject, FreeObject, ClearList, Does
    <3>2. QED
      BY <2>2, <3>1 DEF ProgramInv
  <2>8. CASE ServerIsGone
    BY <2>2, <2>8 DEF ServerIsGone, ProgramInv
  <2>9. QED
    BY <1>2, <2>3, <2>4, <2>5, <2>6, <2>7, <2>8 DEF ProgramNext
<1>3. ASSUME ~ProgramNext, ppc # "use" PROVE ProgramInv'
  <2>1. /\ UNCHANGED <<lpc, m_acceptHandlers, hpc>>
        /\ \A c \in Callers : cpc'[c] \in {"idle", cpc[c]}
        /\ ~\E c \in Callers : ThreadSteps(c)
        /\ ~QueueSteps
        /\ ~\E h \in Handlers : RequestSteps(h)
    BY <1>3, OnlyInUse
  <2>2. UNCHANGED lifeVars
    BY <1>3, <2>1, ServerStepKinds
  <2>3. QED
    BY <2>1, <2>2 DEF ProgramInv, lifeVars
<1>4. ASSUME ppc = "use", ppc' = "use", UNCHANGED <<handed, todo>>, isDown' => lpc' = "none"
      PROVE  ProgramInv'
  BY <1>4 DEF ProgramInv
<1>5. ASSUME NEW c \in Callers, ThreadSteps(c), ppc = "use" PROVE ProgramInv'
  <2>1. cpc[c] = "x_done" => lpc = "none"
    BY <1>1 DEF PhaseInv, CallerIn
  <2>2. isDown' => lpc' = "none"
    BY <1>5, <2>1, ThreadStepFacts DEF ProgramInv
  <2>3. QED
    BY <1>4, <1>5, <2>2, ThreadStepFacts
<1>6. ASSUME QueueSteps, ppc = "use" PROVE ProgramInv'
  <2>1. lpc # "none" /\ isDown' = isDown
    BY <1>6, QueueStepFacts
  <2>2. ~isDown'
    BY <2>1 DEF ProgramInv
  <2>3. QED
    BY <1>4, <1>6, <2>2, QueueStepFacts
<1>7. ASSUME NEW h \in Handlers, RequestSteps(h), ppc = "use" PROVE ProgramInv'
  <2>1. isDown' => lpc' = "none"
    BY <1>7, RequestStepFacts DEF ProgramInv
  <2>2. QED
    BY <1>4, <1>7, <2>1, RequestStepFacts
<1>8. ASSUME QuietSteps \/ UNCHANGED vars, UNCHANGED lifeVars, ppc = "use" PROVE ProgramInv'
  <2>1. lpc = "none" => lpc' = "none"
    BY <1>1, <1>8, QuietFacts
  <2>2. UNCHANGED <<ppc, handed, todo, isDown>>
    BY <1>8 DEF lifeVars
  <2>3. QED
    BY <1>4, <1>8, <2>1, <2>2 DEF ProgramInv
<1>9. QED
  BY <1>2, <1>3, <1>5, <1>6, <1>7, <1>8, ServerStepKinds

-----------------------------------------------------------------------------
(* The objects that a program uses until it deletes them. *)

(* Objects that come and go with a thread, a request or a run(). *)
Passing(o) ==
  \/ ClassOf(o) \in {"pthread_t", "C2SHttpEntity", "char[]", "C2SThreadQueue", "C2SThreadQueueRunner"}
  \/ ClassOf(o) = "C2SMutex" /\ HandlerOf(o) # Shared

(* What a constructor has created stays. *)
LEMMA ConstructedStays ==
  /\ \A o \in createResources \cup Statics \cup createServerRuntime : ~Passing(o)
  /\ \A a \in RunNames : \A S \in SUBSET Range(Resources) : \A o \in NewHandler(a, S) : ~Passing(o)
  /\ \A a : ~Passing(C2SHttpDataPull(a).m_pRequest)
<1>1. ASSUME NEW o \in createResources \cup createServerRuntime PROVE ~Passing(o)
  <2>1. CASE o \in Program
    BY <2>1, ProgramNames DEF Passing, ProgramClasses, The, Object, ClassOf, HandlerOf
  <2>2. CASE \E x \in Range(Resources) : o \in NewResource(Shared, x)
    BY <2>2, ResourceNames DEF Passing
  <2>3. QED
    BY <1>1, <2>1, <2>2, StartObjects
<1>2. ASSUME NEW o \in Statics PROVE ~Passing(o)
  BY <1>2 DEF Statics, C2SLogBase, C2SLogSimpleMessageFactory, Passing, The, Object, ClassOf
<1>3. ASSUME NEW a \in RunNames, NEW S \in SUBSET Range(Resources), NEW o \in NewHandler(a, S)
      PROVE  ~Passing(o)
  <2>1. CASE \E x \in S : o \in NewResource(a, x)
    BY <2>1, ResourceNames DEF Passing
  <2>2. CASE \/ o = Of("C2SSocketAcceptHandler", a)
             \/ o = Of("C2SHttpDataPull", a)
             \/ o = Of("C2SHttpResourceManager", a)
             \/ o = Of("C2SHttpResourceManagerResponseHandler", a)
             \/ o = Of("C2SHttpResourcePrototypeList", a)
    BY <2>2 DEF Passing, Of, Object, ClassOf
  <2>3. QED
    BY <2>1, <2>2, HandlerKinds
<1>4. ASSUME NEW a PROVE ~Passing(C2SHttpDataPull(a).m_pRequest)
  BY DEF Passing, C2SHttpDataPull, Of, Object, ClassOf
<1>5. QED
  BY <1>1, <1>2, <1>3, <1>4

(* What goes when no destructor is under way. *)
LEMMA GoesInUse ==
  ASSUME RunsInv, [ServerNext]_allVars, ~ProgramNext, NEW o \in heap, o \notin heap'
  PROVE  /\ Passing(o)
         /\ \/ ClassOf(o) \in {"pthread_t", "C2SHttpEntity", "char[]"}
            \/ lpc = "joined" /\ lpc' = "end"
<1>1. ASSUME NEW c \in Callers, ThreadSteps(c) PROVE o \in Thread
  BY <1>1, ThreadStepFacts
<1>2. o \in Thread => ClassOf(o) = "pthread_t"
  BY DEF Thread, pthread, Object, ClassOf
<1>3. ASSUME QueueSteps
      PROVE  /\ lpc = "joined" /\ lpc' = "end"
             /\ o \in {AcceptThreadQueue(runs), AcceptMutex(runs)}
                      \cup {Of("C2SThreadQueueRunner", <<runs, h>>) : h \in Handlers}
  BY <1>3, QueueStepFacts
<1>4. ASSUME o \in {AcceptThreadQueue(runs), AcceptMutex(runs)}
                   \cup {Of("C2SThreadQueueRunner", <<runs, h>>) : h \in Handlers}, runs # 0
      PROVE  Passing(o)
  BY <1>4 DEF Passing, AcceptThreadQueue, AcceptMutex, Of, Object, ClassOf, HandlerOf, Shared
<1>5. ASSUME NEW h \in Handlers, RequestSteps(h)
      PROVE  ClassOf(o) \in {"C2SHttpEntity", "char[]"}
  <2>1. o = C2SHttpRequest(<<runs, h>>).m_pEntity \/ o = C2SHttpParser(<<runs, h>>).m_body
    BY <1>5, RequestStepFacts
  <2>2. QED
    BY <2>1 DEF C2SHttpRequest, C2SHttpParser, Of, Object, ClassOf
<1>6. ~UNCHANGED lifeVars
  BY DEF lifeVars
<1>7. QueueSteps => runs # 0
  BY <1>3 DEF RunsInv, NotRunningPCs
<1>8. QED
  BY <1>1, <1>2, <1>3, <1>4, <1>5, <1>6, <1>7, ServerStepKinds DEF Passing

(* A program finds the objects that it uses. *)
LEMMA PresentStep ==
  ASSUME IInv, ObjectsInv, ProgramInv, RunsInv, PresentInv, [ServerNext]_allVars
  PROVE  PresentInv'
<1>1. /\ TypeOK /\ PhaseInv /\ m_acceptHandlers \in 0..NumThreads /\ NumThreads \in Nat
      /\ runs \in Nat /\ runs <= MaxSockets
      /\ hpc \in [Handlers -> HandlerPCs]
  BY SocketListenerAssumption DEF IInv, TypeInv, TypeOK, RunsInv
<1>2. \A h \in Handlers : lpc \notin LoopPCs \cup {"join"} => hpc[h] = "idle"
  BY DEF IInv, HandlerInv
<1>3. m_acceptHandlers # 0 => runs \in 1..MaxSockets
  BY <1>1 DEF RunsInv
<1>4. CASE ProgramNext
  <2>1. UNCHANGED <<vars, runs>>
    BY <1>4 DEF ProgramNext, CreateServer, RegisterResource, UseServer, DeleteServer, DeleteObject,
                FreeObject, ClearList, ServerIsGone
  <2>2. UNCHANGED <<lpc, hpc, m_acceptHandlers, runs>>
    BY <2>1 DEF vars, setupVars, handlerVars
  <2>3. CASE CreateServer
    BY <2>3 DEF CreateServer, PresentInv
  <2>4. CASE RegisterResource
    BY <2>4 DEF RegisterResource, PresentInv
  <2>5. CASE UseServer
    <3>1. ppc = "register" /\ ppc' = "use" /\ heap' = heap
      BY <2>5 DEF UseServer
    <3>2. m_acceptHandlers = 0 /\ lpc = "none"
      BY <3>1 DEF ProgramInv
    <3>3. \A h \in Handlers : hpc[h] = "idle"
      BY <1>2, <3>2 DEF LoopPCs
    <3>4. lpc \notin QueuePCs
      BY <3>2 DEF QueuePCs
    <3>5. 1..m_acceptHandlers = {}
      BY <3>2
    <3>6. EarlierHandlers' = {}
      <4>1. (1..runs - 1) \X Handlers = {}
        BY <3>1 DEF ProgramInv
      <4>2. QED
        BY <2>2, <4>1 DEF EarlierHandlers
    <3>7. QED
      BY <2>2, <3>1, <3>3, <3>4, <3>5, <3>6 DEF PresentInv
  <2>6. CASE DeleteServer \/ DeleteObject \/ FreeObject \/ ClearList \/ ServerIsGone
    <3>1. ppc' \in {"delete", "gone"}
      BY <2>6 DEF DeleteServer, DeleteObject, FreeObject, ClearList, ServerIsGone, Does
    <3>2. QED
      BY <3>1 DEF PresentInv
  <2>7. QED
    BY <1>4, <2>3, <2>4, <2>5, <2>6 DEF ProgramNext
<1>5. ASSUME ~ProgramNext, ppc # "use" PROVE PresentInv'
  <2>1. UNCHANGED lifeVars
    BY <1>5, OnlyInUse, ServerStepKinds
  <2>2. QED
    BY <1>5, <2>1 DEF PresentInv, lifeVars
<1>6. ASSUME ~ProgramNext, ppc = "use" PROVE PresentInv'
  <2>1. /\ createResources \cup Statics \cup createServerRuntime \subseteq heap
        /\ EarlierHandlers \subseteq heap
        /\ \A h \in 1..m_acceptHandlers : NewHandler(<<runs, h>>, m_listOfResourcePrototypes) \subseteq heap
        /\ lpc \in QueuePCs =>
             /\ {AcceptMutex(runs), AcceptThreadQueue(runs)} \subseteq heap
             /\ \A h \in QueuedHandlers : Of("C2SThreadQueueRunner", <<runs, h>>) \in heap
        /\ \A h \in Handlers : hpc[h] \in {"receive", "flush"} =>
             C2SHttpDataPull(<<runs, h>>).m_pRequest \in heap
    BY <1>6 DEF PresentInv, Current
  <2>2. ASSUME
          /\ createResources \cup Statics \cup createServerRuntime \subseteq heap'
          /\ EarlierHandlers' \subseteq heap'
          /\ \A h \in 1..m_acceptHandlers' :
               NewHandler(<<runs', h>>, m_listOfResourcePrototypes') \subseteq heap'
          /\ lpc' \in QueuePCs =>
               /\ {AcceptMutex(runs'), AcceptThreadQueue(runs')} \subseteq heap'
               /\ \A h \in QueuedHandlers' : Of("C2SThreadQueueRunner", <<runs', h>>) \in heap'
          /\ \A h \in Handlers : hpc'[h] \in {"receive", "flush"} =>
               C2SHttpDataPull(<<runs', h>>).m_pRequest \in heap'
        PROVE PresentInv'
    BY <2>2 DEF PresentInv, Current
  <2>3. m_listOfResourcePrototypes' = m_listOfResourcePrototypes
        /\ m_listOfResourcePrototypes \in SUBSET Range(Resources)
    BY <1>6, ThreadStepFacts, QueueStepFacts, RequestStepFacts, ServerStepKinds DEF ObjectsInv, lifeVars
  <2>4. createResources \cup Statics \cup createServerRuntime \subseteq heap'
    BY <1>6, <2>1, ConstructedStays, GoesInUse
  <2>5. \A h \in 1..m_acceptHandlers :
          NewHandler(<<runs, h>>, m_listOfResourcePrototypes) \subseteq heap'
    <3>1. SUFFICES ASSUME NEW h \in 1..m_acceptHandlers,
                          NEW o \in NewHandler(<<runs, h>>, m_listOfResourcePrototypes)
                   PROVE  o \in heap'
      OBVIOUS
    <3>2. <<runs, h>> \in RunNames
      BY <1>1, <1>3, <3>1 DEF RunNames, Handlers
    <3>3. ~Passing(o) /\ o \in heap
      BY <2>1, <2>3, <3>1, <3>2, ConstructedStays
    <3>4. QED
      BY <1>6, <3>3, GoesInUse
  <2>6. ~(lpc = "joined" /\ lpc' = "end") /\ lpc \in QueuePCs =>
          /\ {AcceptMutex(runs), AcceptThreadQueue(runs)} \subseteq heap'
          /\ \A h \in QueuedHandlers : Of("C2SThreadQueueRunner", <<runs, h>>) \in heap'
    <3>1. \A a : ClassOf(AcceptMutex(runs)) \notin {"pthread_t", "C2SHttpEntity", "char[]"}
                 /\ ClassOf(AcceptThreadQueue(runs)) \notin {"pthread_t", "C2SHttpEntity", "char[]"}
                 /\ ClassOf(Of("C2SThreadQueueRunner", a)) \notin {"pthread_t", "C2SHttpEntity", "char[]"}
      BY DEF AcceptMutex, AcceptThreadQueue, Of, Object, ClassOf
    <3>2. \A o \in heap : ClassOf(o) \notin {"pthread_t", "C2SHttpEntity", "char[]"}
            /\ ~(lpc = "joined" /\ lpc' = "end") => o \in heap'
      BY <1>6, GoesInUse
    <3>3. QED
      BY <2>1, <3>1, <3>2
  <2>7. \A h \in Handlers : hpc[h] \in {"receive", "flush"} =>
          C2SHttpDataPull(<<runs, h>>).m_pRequest \in heap'
    BY <1>6, <2>1, ConstructedStays, GoesInUse
  <2>8. EarlierHandlers \subseteq heap' /\ (runs' = runs => EarlierHandlers' \subseteq heap')
    <3>1. \A o \in EarlierHandlers : ~Passing(o)
      BY DEF EarlierHandlers, Passing, Of, Object, ClassOf
    <3>2. EarlierHandlers \subseteq heap'
      BY <1>6, <2>1, <3>1, GoesInUse
    <3>3. runs' = runs => EarlierHandlers' = EarlierHandlers
      BY DEF EarlierHandlers
    <3>4. QED
      BY <3>2, <3>3
  <2>9. ASSUME NEW c \in Callers, ThreadSteps(c)
        PROVE  PresentInv'
    <3>1. UNCHANGED <<runs, m_acceptHandlers, hpc>> /\ lpc' \in {lpc, "begin"}
      BY <2>9, ThreadStepFacts
    <3>2. lpc' \in QueuePCs => lpc' = lpc
      BY <3>1 DEF QueuePCs
    <3>3. lpc' = lpc => QueuedHandlers' = QueuedHandlers
      BY <3>1 DEF QueuedHandlers
    <3>4. ~(lpc = "joined" /\ lpc' = "end")
      BY <3>1
    <3>5. QED
      BY <2>2, <2>3, <2>4, <2>5, <2>6, <2>7, <2>8, <3>1, <3>2, <3>3, <3>4
  <2>10. ASSUME QueueSteps PROVE PresentInv'
    <3>1. hpc' = hpc
      BY <2>10, QueueStepFacts
    <3>2. CASE /\ lpc = "keep" /\ lpc' = "create" /\ m_acceptHandlers' = 0 /\ runs' = runs + 1
               /\ heap' = heap \cup {AcceptMutex(runs + 1), AcceptThreadQueue(runs + 1)}
      <4>1. 1..m_acceptHandlers' = {} /\ QueuedHandlers' = {}
        BY <1>1, <3>2 DEF QueuedHandlers, Handlers
      <4>2. \A h \in Handlers : hpc'[h] = "idle"
        BY <1>2, <3>1, <3>2 DEF LoopPCs
      <4>3. EarlierHandlers' \subseteq heap'
        <5>1. SUFFICES ASSUME NEW r \in 1..runs, NEW h \in Handlers
                       PROVE  Of("C2SSocketAcceptHandler", <<r, h>>) \in heap'
          BY <1>1, <3>2 DEF EarlierHandlers
        <5>2. CASE r = runs
          <6>1. h \in 1..m_acceptHandlers
            BY <1>1, <3>2, <5>2 DEF RunsInv, Handlers
          <6>2. Of("C2SSocketAcceptHandler", <<r, h>>)
                  \in NewHandler(<<runs, h>>, m_listOfResourcePrototypes)
            BY <5>2 DEF NewHandler
          <6>3. QED
            BY <2>5, <6>1, <6>2
        <5>3. CASE r # runs
          <6>1. r \in 1..runs - 1
            BY <1>1, <5>3
          <6>2. QED
            BY <2>8, <6>1 DEF EarlierHandlers
        <5>4. QED
          BY <5>2, <5>3
      <4>4. QED
        BY <2>2, <2>4, <3>2, <4>1, <4>2, <4>3
    <3>3. CASE /\ lpc = "create" /\ lpc' = "queue" /\ runs' = runs
               /\ m_acceptHandlers + 1 \in Handlers /\ m_acceptHandlers' = m_acceptHandlers + 1
               /\ heap' = heap \cup NewHandler(<<runs, m_acceptHandlers + 1>>,
                                               m_listOfResourcePrototypes)
      <4>1. 1..m_acceptHandlers' = 1..m_acceptHandlers \cup {m_acceptHandlers + 1}
        BY <1>1, <3>3
      <4>2. QueuedHandlers' = QueuedHandlers
        BY <1>1, <3>3 DEF QueuedHandlers, Handlers
      <4>3. lpc \in QueuePCs
        BY <3>3 DEF QueuePCs, ListenerPCs
      <4>4. QED
        BY <2>2, <2>3, <2>4, <2>5, <2>6, <2>7, <2>8, <3>1, <3>3, <4>1, <4>2, <4>3
    <3>4. CASE /\ lpc = "queue" /\ lpc' \in {"listen", "create"} /\ runs' = runs
               /\ m_acceptHandlers' = m_acceptHandlers
               /\ heap' = heap \cup {Of("C2SThreadQueueRunner", <<runs, m_acceptHandlers>>)}
      <4>1. QueuedHandlers' \subseteq QueuedHandlers \cup {m_acceptHandlers}
        BY <3>4 DEF QueuedHandlers
      <4>2. lpc \in QueuePCs
        BY <3>4 DEF QueuePCs, ListenerPCs
      <4>3. QED
        BY <2>2, <2>3, <2>4, <2>5, <2>6, <2>7, <2>8, <3>1, <3>4, <4>1, <4>2
    <3>5. CASE lpc = "joined" /\ lpc' = "end" /\ runs' = runs /\ m_acceptHandlers' = m_acceptHandlers
      <4>1. lpc' \notin QueuePCs
        BY <3>5 DEF QueuePCs
      <4>2. QED
        BY <2>2, <2>3, <2>4, <2>5, <2>7, <2>8, <3>1, <3>5, <4>1
    <3>6. QED
      BY <2>10, <3>2, <3>3, <3>4, <3>5, QueueStepFacts
  <2>11. ASSUME NEW h \in Handlers, RequestSteps(h) PROVE PresentInv'
    <3>1. UNCHANGED <<lpc, runs, m_acceptHandlers>>
      BY <2>11, RequestStepFacts
    <3>2. QueuedHandlers' = QueuedHandlers
      BY <3>1 DEF QueuedHandlers
    <3>3. \A i \in Handlers : hpc'[i] \in {"receive", "flush"} =>
            \/ hpc[i] \in {"receive", "flush"}
            \/ C2SHttpDataPull(<<runs, i>>).m_pRequest \in heap'
      <4>1. PICK to \in {"receive", "flush", "return"} :
              /\ hpc' = [hpc EXCEPT ![h] = to]
              /\ to = "receive" => C2SHttpDataPull(<<runs, h>>).m_pRequest \in heap'
              /\ to = "flush" => hpc[h] = "receive"
        BY <2>11, RequestStepFacts
      <4>2. QED
        BY <1>1, <4>1
    <3>4. ~(lpc = "joined" /\ lpc' = "end")
      BY <3>1
    <3>5. QED
      BY <2>2, <2>3, <2>4, <2>5, <2>6, <2>7, <2>8, <3>1, <3>2, <3>3, <3>4
  <2>12. ASSUME QuietSteps \/ UNCHANGED vars, UNCHANGED lifeVars PROVE PresentInv'
    <3>1. UNCHANGED <<heap, runs>>
      BY <2>12 DEF lifeVars
    <3>2. /\ m_acceptHandlers' = m_acceptHandlers
          /\ lpc \in QueuePCs <=> lpc' \in QueuePCs
          /\ \A pc \in {"create", "queue"} : lpc = pc <=> lpc' = pc
          /\ \A h \in Handlers : hpc'[h] \in {"receive", "flush"} => hpc[h] = hpc'[h]
      BY <1>1, <2>12, QuietFacts
    <3>3. QueuedHandlers' = QueuedHandlers
      BY <3>2 DEF QueuedHandlers
    <3>4. QED
      BY <2>1, <2>2, <2>3, <2>8, <3>1, <3>2, <3>3
  <2>13. QED
    BY <1>6, <2>9, <2>10, <2>11, <2>12, ServerStepKinds
<1>7. QED
  BY <1>4, <1>5, <1>6

-----------------------------------------------------------------------------
(* The steps of the destructors. *)

(* The handle of the thread is an object there can be. *)
LEMMA ThreadIsObject ==
  ASSUME RunsInv, Len(sockets) <= MaxSockets, Len(sockets) \in Nat
  PROVE  Thread \subseteq Objects
<1>1. m_pthread # 0 => m_pthread \in 1..NoThread
  BY SocketListenerAssumption DEF RunsInv, NoThread
<1>2. QED
  BY <1>1 DEF Thread, Objects

(* What is to be deleted next. *)
LEMMA FirstInTodo ==
  ASSUME ObjectsInv, TodoInv, todo # <<>>, NEW op, op = Head(todo)
  PROVE  /\ op \in OpKinds \X Objects /\ Tail(todo) \in Seq(OpKinds \X Objects)
         /\ op[1] \in OpKinds /\ op[2] \in Objects /\ op = <<op[1], op[2]>>
         /\ Range(todo) = {op} \cup Range(Tail(todo))
         /\ Doomed = Targets(op, m_listOfResourcePrototypes)
                     \cup AllTargets(Tail(todo), m_listOfResourcePrototypes)
         /\ TargetsOnce(Tail(todo), m_listOfResourcePrototypes)
         /\ Targets(op, m_listOfResourcePrototypes)
              \cap AllTargets(Tail(todo), m_listOfResourcePrototypes) = {}
         /\ \A q \in Range(Tail(todo)) :
              Targets(q, m_listOfResourcePrototypes)
                \subseteq AllTargets(Tail(todo), m_listOfResourcePrototypes)
         /\ \A q \in Range(todo) : Possible(q, heap, m_listOfResourcePrototypes)
<1>1. todo \in Seq(OpKinds \X Objects)
  BY DEF ObjectsInv
<1>2. op \in OpKinds \X Objects /\ Tail(todo) \in Seq(OpKinds \X Objects)
  BY <1>1, HeadFacts
<1>3. op[1] \in OpKinds /\ op[2] \in Objects /\ op = <<op[1], op[2]>>
  BY <1>2
<1>4. TargetsOnce(todo, m_listOfResourcePrototypes)
  BY DEF TodoInv
<1>5. /\ Range(todo) = {op} \cup Range(Tail(todo))
      /\ AllTargets(todo, m_listOfResourcePrototypes)
           = Targets(op, m_listOfResourcePrototypes)
             \cup AllTargets(Tail(todo), m_listOfResourcePrototypes)
      /\ TargetsOnce(Tail(todo), m_listOfResourcePrototypes)
      /\ Targets(op, m_listOfResourcePrototypes)
           \cap AllTargets(Tail(todo), m_listOfResourcePrototypes) = {}
  BY <1>1, <1>4, HeadFacts
<1>6. \A q \in Range(Tail(todo)) :
        Targets(q, m_listOfResourcePrototypes)
          \subseteq AllTargets(Tail(todo), m_listOfResourcePrototypes)
  BY DEF Range, AllTargets
<1>7. \A q \in Range(todo) : Possible(q, heap, m_listOfResourcePrototypes)
  BY DEF TodoInv
<1>8. QED
  BY <1>2, <1>3, <1>5, <1>6, <1>7 DEF Doomed

(* An object that is to be deleted next has all that it owns, and its        *)
(* destructor has not begun.                                                *)
LEMMA NextToDelete ==
  ASSUME ObjectsInv, TodoInv, todo # <<>>, Head(todo)[1] = "delete", NEW o, o = Head(todo)[2]
  PROVE  /\ o \in heap /\ o \in Doomed /\ Head(todo) = Delete(o) /\ ~Opened(o)
         /\ o \notin AllTargets(Tail(todo), m_listOfResourcePrototypes)
<1>1. PICK op : op = Head(todo)
  OBVIOUS
<1>2. /\ op = <<"delete", o>> /\ Targets(op, m_listOfResourcePrototypes) = {o}
      /\ Possible(op, heap, m_listOfResourcePrototypes)
  BY <1>1, FirstInTodo DEF Targets
<1>3. /\ o \in heap /\ o \in Doomed /\ Head(todo) = Delete(o)
      /\ o \notin AllTargets(Tail(todo), m_listOfResourcePrototypes)
  BY <1>1, <1>2, FirstInTodo DEF Possible, Delete
<1>4. Targets(Free(o), m_listOfResourcePrototypes) = {o} /\ Free(o) # op
  BY <1>2 DEF Targets, Free
<1>5. ~Opened(o)
  BY <1>1, <1>3, <1>4, FirstInTodo DEF Opened
<1>6. QED
  BY <1>3, <1>5

(* What `delete' does when there is something to do. *)
LEMMA DeleteFacts ==
  ASSUME IInv, ObjectsInv, RunsInv, TodoInv, ForestInv, DeleteObject
  PROVE  \E o, ops, rest :
           /\ o \in heap /\ Head(todo) = Delete(o) /\ ~Opened(o) /\ Named(o) /\ o \in Doomed
           /\ rest = Tail(todo) /\ o \notin AllTargets(rest, m_listOfResourcePrototypes)
           /\ ops = DestructorOf(o) /\ ops # <<>>
           /\ Orderly(ops, Objects, Owned(o), Thread, heap, m_listOfResourcePrototypes)
           /\ \A i \in DOMAIN ops : ClassOf(ops[i][2]) = "pthread_t" => ops[i][1] = "detach"
           /\ todo' = ops \o <<Free(o)>> \o rest
           /\ ppc = "delete" /\ todo # <<>>
           /\ UNCHANGED <<vars, heap, ppc, handed, m_listOfResourcePrototypes, isDown, runs, m_pthread>>
<1>1. PICK o, rest : o = Head(todo)[2] /\ rest = Tail(todo)
  OBVIOUS
<1>2. PICK ops : ops = DestructorOf(o)
  OBVIOUS
<1>3. /\ ppc = "delete" /\ todo # <<>> /\ Head(todo)[1] = "delete" /\ ops # <<>>
      /\ todo' = ops \o <<Free(o)>> \o rest
      /\ UNCHANGED <<vars, heap, ppc, handed, m_listOfResourcePrototypes, isDown, runs, m_pthread>>
  BY <1>1, <1>2 DEF DeleteObject, Does
<1>4. /\ o \in heap /\ o \in Doomed /\ Head(todo) = Delete(o) /\ ~Opened(o)
      /\ o \notin AllTargets(rest, m_listOfResourcePrototypes)
  BY <1>1, <1>3, NextToDelete
<1>5. Named(o)
  BY <1>4, ObjectsAreNamed DEF ObjectsInv
<1>6. /\ \A h \in AcceptHandlers : ClassOf(h) = "C2SSocketAcceptHandler"
      /\ \A t \in Thread : ClassOf(t) = "pthread_t"
      /\ IsFiniteSet(AcceptHandlers) /\ IsFiniteSet(Thread)
  BY HandlersAndThread
<1>7. PICK owned : owned = Owned(o)
  OBVIOUS
<1>8. owned \subseteq Objects
  <2>1. SUFFICES ASSUME NEW q \in owned, q \notin heap PROVE q \in Objects
    BY DEF ObjectsInv
  <2>2. ppc # "create"
    BY <1>3
  <2>3. ClassOf(q) = "pthread_t"
    BY <1>4, <1>7, <2>1, <2>2 DEF ForestInv, pthread, Object, ClassOf
  <2>4. OwnerOf(q) = o
    BY <1>5, <1>6, <1>7, <2>1, OwnsItsOwn DEF Owned
  <2>5. ClassOf(o) = "C2SSocketListenerThread"
    BY <2>3, <2>4 DEF OwnerOf, The, Object, ClassOf
  <2>6. q \in Thread
    BY <1>7, <2>1, <2>5 DEF Owned, Owns
  <2>7. QED
    BY <2>6, ThreadIsObject DEF IInv, TypeInv, TypeOK
<1>9. Orderly(ops, Objects, owned, Thread, heap, m_listOfResourcePrototypes)
  BY <1>2, <1>5, <1>6, <1>7, <1>8, DestructorIsOrderly DEF Owned, DestructorOf
<1>10. \A i \in DOMAIN ops : ClassOf(ops[i][2]) = "pthread_t" => ops[i][1] = "detach"
  BY <1>2, <1>5, <1>6, ThreadsAreDetached DEF DestructorOf
<1>11. QED
  BY <1>1, <1>2, <1>3, <1>4, <1>5, <1>7, <1>9, <1>10

(* What is freed has nothing left. *)
LEMMA FreeFacts ==
  ASSUME IInv, ObjectsInv, RunsInv, TodoInv, ForestInv, FreeObject,
         NEW o, o = Head(todo)[2], NEW rest, rest = Tail(todo)
  PROVE  /\ Targets(Head(todo), m_listOfResourcePrototypes) = {o}
         /\ o \in Doomed /\ o \notin AllTargets(rest, m_listOfResourcePrototypes)
         /\ Named(o)
         /\ \/ Head(todo) = Detach(o) /\ ClassOf(o) = "pthread_t"
            \/ Head(todo) = Free(o) /\ o \in heap
            \/ Head(todo) = Delete(o) /\ o \in heap /\ Owned(o) = {} /\ ~Opened(o)
         /\ heap' = heap \ {o} /\ todo' = rest
         /\ ppc = "delete" /\ todo # <<>>
         /\ UNCHANGED <<vars, ppc, handed, m_listOfResourcePrototypes, isDown, runs, m_pthread>>
<1>1. PICK op : op = Head(todo)
  OBVIOUS
<1>2. /\ ppc = "delete" /\ todo # <<>> /\ heap' = heap \ {o} /\ todo' = rest
      /\ op[1] \in {"free", "detach"} \/ (op[1] = "delete" /\ DestructorOf(o) = <<>>)
      /\ UNCHANGED <<vars, ppc, handed, m_listOfResourcePrototypes, isDown, runs, m_pthread>>
  BY <1>1 DEF FreeObject, Does
<1>3. /\ op = <<op[1], o>> /\ o \in Objects
      /\ Doomed = Targets(op, m_listOfResourcePrototypes)
                  \cup AllTargets(rest, m_listOfResourcePrototypes)
      /\ Targets(op, m_listOfResourcePrototypes)
           \cap AllTargets(rest, m_listOfResourcePrototypes) = {}
      /\ Possible(op, heap, m_listOfResourcePrototypes)
  BY <1>1, <1>2, FirstInTodo
<1>4. Targets(op, m_listOfResourcePrototypes) = {o}
  BY <1>2, <1>3 DEF Targets
<1>5. o \in Doomed /\ o \notin AllTargets(rest, m_listOfResourcePrototypes) /\ Named(o)
  BY <1>3, <1>4, ObjectsAreNamed
<1>6. CASE op[1] = "detach"
  <2>1. op = Detach(o) /\ ClassOf(o) = "pthread_t"
    BY <1>3, <1>6 DEF Detach, Possible
  <2>2. QED
    BY <1>1, <1>2, <1>4, <1>5, <2>1
<1>7. CASE op[1] = "free"
  <2>1. op = Free(o) /\ o \in heap
    BY <1>3, <1>4, <1>7 DEF Free, Possible
  <2>2. QED
    BY <1>1, <1>2, <1>4, <1>5, <2>1
<1>8. CASE op[1] = "delete" /\ DestructorOf(o) = <<>>
  <2>1. o \in heap /\ op = Delete(o) /\ ~Opened(o)
    BY <1>1, <1>2, <1>8, NextToDelete
  <2>2. /\ \A h \in AcceptHandlers : ClassOf(h) = "C2SSocketAcceptHandler"
        /\ \A t \in Thread : ClassOf(t) = "pthread_t"
        /\ IsFiniteSet(AcceptHandlers) /\ IsFiniteSet(Thread)
    BY HandlersAndThread
  <2>3. PICK owned : owned = Owned(o)
    OBVIOUS
  <2>4. Orderly(<<>>, owned, owned, Thread, heap, m_listOfResourcePrototypes)
    BY <1>5, <1>8, <2>2, <2>3, DestructorIsOrderly DEF Owned, DestructorOf
  <2>5. owned = {}
    BY <2>4 DEF Orderly, AllTargets
  <2>6. QED
    BY <1>1, <1>2, <1>4, <1>5, <2>1, <2>3, <2>5
<1>9. QED
  BY <1>2, <1>6, <1>7, <1>8

(* The resources are finitely many. *)
LEMMA PrototypesAreFinite ==
  ASSUME ObjectsInv, NEW list, NEW protos, protos = PrototypesIn(list)
  PROVE  IsFiniteSet(protos)
<1>1. Resources \in Seq(Range(Resources))
  BY HttpObjectsAssumption
<1>2. PICK n \in Nat : n = Len(Resources) /\ DOMAIN Resources = 1..n
  BY <1>1
<1>3. PICK I : I = 1..n
  OBVIOUS
<1>4. IsFiniteSet(I)
  <2>1. \A k \in Nat : IsFiniteSet(1..k)
    BY FS_Interval
  <2>2. QED
    BY <1>3, <2>1
<1>5. PICK r : r = [k \in I |-> Resources[k]]
  OBVIOUS
<1>6. IsFiniteSet({r[k] : k \in I})
  BY <1>4, <1>5, ImageIsFinite
<1>7. {r[k] : k \in I} = Range(Resources)
  BY <1>2, <1>3, <1>5 DEF Range
<1>8. m_listOfResourcePrototypes \in SUBSET Range(Resources)
  BY DEF ObjectsInv
<1>9. IsFiniteSet(m_listOfResourcePrototypes)
  BY <1>6, <1>7, <1>8, FS_Subset
<1>10. PICK f : f = [x \in m_listOfResourcePrototypes |-> RestResource(HandlerOf(list), x)]
  OBVIOUS
<1>11. IsFiniteSet({f[x] : x \in m_listOfResourcePrototypes})
  BY <1>9, <1>10, ImageIsFinite
<1>12. {f[x] : x \in m_listOfResourcePrototypes} = protos
  BY <1>10 DEF PrototypesIn, C2SHttpResourcePrototypeList
<1>13. QED
  BY <1>11, <1>12

(* What is cleared: the prototypes of a list, which all live. *)
LEMMA ClearFacts ==
  ASSUME ObjectsInv, TodoInv, ClearList, NEW protos, protos = PrototypesIn(Head(todo)[2]),
         NEW rest, rest = Tail(todo)
  PROVE  /\ IsFiniteSet(protos) /\ protos \subseteq heap
         /\ \A o \in protos : ClassOf(o) = "C2SRestResourcePrototype"
         /\ Targets(Head(todo), m_listOfResourcePrototypes) = protos
         /\ protos \cap AllTargets(rest, m_listOfResourcePrototypes) = {}
         /\ Head(todo)[1] = "clear"
         /\ todo' = DeleteAll(protos) \o rest
         /\ ppc = "delete" /\ todo # <<>>
         /\ UNCHANGED <<vars, heap, ppc, handed, m_listOfResourcePrototypes, isDown, runs, m_pthread>>
<1>1. /\ ppc = "delete" /\ todo # <<>> /\ Head(todo)[1] = "clear"
      /\ todo' = DeleteAll(protos) \o rest
      /\ UNCHANGED <<vars, heap, ppc, handed, m_listOfResourcePrototypes, isDown, runs, m_pthread>>
  BY DEF ClearList, Does
<1>2. PICK op : op = Head(todo)
  OBVIOUS
<1>3. /\ Targets(op, m_listOfResourcePrototypes)
           \cap AllTargets(rest, m_listOfResourcePrototypes) = {}
      /\ Possible(op, heap, m_listOfResourcePrototypes)
  BY <1>1, <1>2, FirstInTodo
<1>4. Targets(op, m_listOfResourcePrototypes) = protos
  BY <1>1, <1>2 DEF Targets, PrototypesIn
<1>5. \A o \in protos : ClassOf(o) = "C2SRestResourcePrototype"
  BY DEF PrototypesIn, C2SHttpResourcePrototypeList, RestResource, Object, ClassOf
<1>6. protos \subseteq heap
  BY <1>1, <1>2, <1>3, <1>4 DEF Possible
<1>7. QED
  BY <1>1, <1>2, <1>3, <1>4, <1>5, <1>6, PrototypesAreFinite

-----------------------------------------------------------------------------
(* Types. *)

(* A clone of more resources is larger. *)
LEMMA HandlerGrows ==
  ASSUME NEW a, NEW S, NEW T, S \subseteq T
  PROVE  NewHandler(a, S) \subseteq NewHandler(a, T)
BY DEF NewHandler, createDataPullForDataPush, NewDataPull, NewResourceManager, CloneList

(* The types are kept: what a step creates is an object there can be, and    *)
(* what a destructor pushes is an operation on one.                         *)
LEMMA ObjectsStep ==
  ASSUME IInv, HeapInv, [ServerNext]_allVars
  PROVE  ObjectsInv'
<1>1. /\ Len(sockets) \in Nat /\ Len(sockets) <= MaxSockets /\ MaxSockets \in Nat
      /\ runs \in Nat /\ runs <= Len(sockets)
      /\ m_acceptHandlers \in 0..NumThreads /\ NumThreads \in Nat
      /\ lpc = "queue" => m_acceptHandlers # 0
  BY SocketListenerAssumption DEF IInv, TypeInv, TypeOK, HeapInv, RunsInv
<1>2. /\ heap \subseteq Objects /\ ppc \in ProgramPCs /\ handed \in 0..Len(Resources)
      /\ m_listOfResourcePrototypes \subseteq Range(Resources)
      /\ isDown \in BOOLEAN /\ todo \in Seq(OpKinds \X Objects)
  BY DEF HeapInv, ObjectsInv
<1>3. ASSUME heap' \subseteq Objects, isDown' \in BOOLEAN,
             UNCHANGED <<ppc, handed, m_listOfResourcePrototypes, todo>>
      PROVE  ObjectsInv'
  BY <1>2, <1>3 DEF ObjectsInv
<1>4. CASE ProgramNext
  <2>1. CASE CreateServer
    <3>1. createServerRuntime \subseteq Objects
      BY DEF Objects
    <3>2. QED
      BY <1>2, <2>1, <3>1 DEF CreateServer, ObjectsInv, ProgramPCs
  <2>2. CASE RegisterResource
    <3>1. Resources \in Seq(Range(Resources)) /\ Len(Resources) \in Nat
      BY HttpObjectsAssumption
    <3>2. handed' \in 1..Len(Resources) /\ handed' = handed + 1
      BY <1>2, <2>2, <3>1 DEF RegisterResource
    <3>3. Resources[handed + 1] \in Range(Resources)
      BY <3>1, <3>2
    <3>4. m_listOfResourcePrototypes' \subseteq Range(Resources)
      BY <1>2, <2>2, <3>3 DEF RegisterResource, addResourcePrototype
    <3>5. QED
      BY <1>2, <2>2, <3>1, <3>2, <3>4 DEF RegisterResource, ObjectsInv
  <2>3. CASE UseServer \/ ServerIsGone
    BY <1>2, <2>3 DEF UseServer, ServerIsGone, ObjectsInv, ProgramPCs
  <2>4. CASE DeleteServer
    <3>1. The("C2STestRestFixture") \in Objects
      BY DEF Objects, createResources
    <3>2. <<Delete(The("C2STestRestFixture"))>> \in Seq(OpKinds \X Objects)
      BY <3>1 DEF Delete, OpKinds
    <3>3. QED
      BY <1>2, <2>4, <3>2 DEF DeleteServer, ObjectsInv, ProgramPCs
  <2>5. CASE DeleteObject
    <3>1. PICK o, ops, rest :
             /\ o \in heap /\ rest = Tail(todo)
             /\ Orderly(ops, Objects, Owned(o), Thread, heap, m_listOfResourcePrototypes)
             /\ todo' = ops \o <<Free(o)>> \o rest
             /\ todo # <<>>
             /\ UNCHANGED <<vars, heap, ppc, handed, m_listOfResourcePrototypes, isDown, runs, m_pthread>>
      BY <2>5, DeleteFacts DEF HeapInv
    <3>2. ops \in Seq(OpKinds \X Objects)
      BY <3>1 DEF Orderly
    <3>3. <<Free(o)>> \in Seq(OpKinds \X Objects)
      BY <1>2, <3>1 DEF Free, OpKinds
    <3>4. rest \in Seq(OpKinds \X Objects)
      BY <1>2, <3>1
    <3>5. todo' \in Seq(OpKinds \X Objects)
      BY <3>1, <3>2, <3>3, <3>4
    <3>6. QED
      BY <1>2, <3>1, <3>5 DEF ObjectsInv
  <2>6. CASE FreeObject
    <3>1. todo # <<>> /\ todo' = Tail(todo) /\ heap' \subseteq heap
          /\ UNCHANGED <<vars, ppc, handed, m_listOfResourcePrototypes, isDown, runs, m_pthread>>
      BY <2>6 DEF FreeObject, Does
    <3>2. QED
      BY <1>2, <3>1 DEF ObjectsInv
  <2>7. CASE ClearList
    <3>1. PICK protos, rest : protos = PrototypesIn(Head(todo)[2]) /\ rest = Tail(todo)
      OBVIOUS
    <3>2. /\ IsFiniteSet(protos) /\ protos \subseteq heap
          /\ todo' = DeleteAll(protos) \o rest /\ todo # <<>>
          /\ UNCHANGED <<vars, heap, ppc, handed, m_listOfResourcePrototypes, isDown, runs, m_pthread>>
      BY <2>7, <3>1, ClearFacts DEF HeapInv
    <3>3. DeleteAll(protos) \in Seq(OpKinds \X Objects)
      <4>1. DeleteAll(protos) \in Seq({Delete(o) : o \in protos})
        BY <3>2, DeleteAllFacts
      <4>2. {Delete(o) : o \in protos} \subseteq OpKinds \X Objects
        BY <1>2, <3>2 DEF Delete, OpKinds
      <4>3. QED
        BY <4>1, <4>2, SeqMonotonic
    <3>4. rest \in Seq(OpKinds \X Objects)
      BY <1>2, <3>1, <3>2
    <3>5. todo' \in Seq(OpKinds \X Objects)
      BY <3>2, <3>3, <3>4
    <3>6. QED
      BY <1>2, <3>2, <3>5 DEF ObjectsInv
  <2>8. QED
    BY <1>4, <2>1, <2>2, <2>3, <2>4, <2>5, <2>6, <2>7 DEF ProgramNext
<1>5. ASSUME NEW c \in Callers, ThreadSteps(c) PROVE ObjectsInv'
  <2>1. /\ UNCHANGED <<ppc, handed, m_listOfResourcePrototypes, todo>> /\ isDown' \in BOOLEAN
        /\ heap' \subseteq heap \/ (cpc[c] = "s_test" /\ heap' \subseteq heap \cup {pthread(Len(sockets))})
    BY <1>2, <1>5, ThreadStepFacts
  <2>2. cpc[c] = "s_test" => runs < Len(sockets)
    BY DEF HeapInv, RunsInv, CallerIn
  <2>3. cpc[c] = "s_test" => pthread(Len(sockets)) \in Objects
    BY <1>1, <2>2 DEF Objects, NoThread
  <2>4. QED
    BY <1>2, <1>3, <2>1, <2>3
<1>6. ASSUME QueueSteps PROVE ObjectsInv'
  <2>1. UNCHANGED <<ppc, handed, m_listOfResourcePrototypes, todo, isDown>>
    BY <1>6, QueueStepFacts
  <2>2. QueueObjects \cup HandlerObjects \subseteq Objects
    BY DEF Objects
  <2>3. CASE lpc = "keep" /\ heap' = heap \cup {AcceptMutex(runs + 1), AcceptThreadQueue(runs + 1)}
    <3>1. runs + 1 \in 1..MaxSockets
      BY <1>1, <2>3 DEF HeapInv, RunsInv
    <3>2. {AcceptMutex(runs + 1), AcceptThreadQueue(runs + 1)} \subseteq QueueObjects
      BY <3>1 DEF QueueObjects
    <3>3. QED
      BY <1>2, <1>3, <2>1, <2>2, <2>3, <3>2
  <2>4. lpc # "keep" => runs \in 1..MaxSockets
    <3>1. lpc # "keep" => lpc \notin NotRunningPCs
      BY <1>6, QueueStepFacts DEF NotRunningPCs
    <3>2. QED
      BY <1>1, <3>1 DEF HeapInv, RunsInv
  <2>5. CASE lpc = "create" /\ m_acceptHandlers + 1 \in Handlers
             /\ heap' = heap \cup NewHandler(<<runs, m_acceptHandlers + 1>>,
                                             m_listOfResourcePrototypes)
    <3>1. <<runs, m_acceptHandlers + 1>> \in RunNames
      BY <2>4, <2>5 DEF RunNames
    <3>2. NewHandler(<<runs, m_acceptHandlers + 1>>, m_listOfResourcePrototypes)
            \subseteq NewHandler(<<runs, m_acceptHandlers + 1>>, Range(Resources))
      BY <1>2, HandlerGrows
    <3>3. NewHandler(<<runs, m_acceptHandlers + 1>>, m_listOfResourcePrototypes) \subseteq HandlerObjects
      BY <3>1, <3>2 DEF HandlerObjects
    <3>4. QED
      BY <1>2, <1>3, <2>1, <2>2, <2>5, <3>3
  <2>6. CASE lpc = "queue"
             /\ heap' = heap \cup {Of("C2SThreadQueueRunner", <<runs, m_acceptHandlers>>)}
    <3>1. m_acceptHandlers \in Handlers /\ runs \in 1..MaxSockets
      BY <1>1, <2>4, <2>6 DEF Handlers
    <3>2. Of("C2SThreadQueueRunner", <<runs, m_acceptHandlers>>) \in QueueObjects
      BY <3>1 DEF QueueObjects, C2SThreadQueue
    <3>3. QED
      BY <1>2, <1>3, <2>1, <2>2, <2>6, <3>2
  <2>7. CASE heap' \subseteq heap
    BY <1>2, <1>3, <2>1, <2>7
  <2>8. QED
    BY <1>6, <2>3, <2>5, <2>6, <2>7, QueueStepFacts
<1>7. ASSUME NEW h \in Handlers, RequestSteps(h) PROVE ObjectsInv'
  <2>1. UNCHANGED <<ppc, handed, m_listOfResourcePrototypes, todo, isDown>>
    BY <1>7, RequestStepFacts
  <2>2. hpc[h] # "idle"
    BY <1>7, RequestStepFacts
  <2>3. lpc \in LoopPCs \cup {"join"}
    BY <2>2 DEF IInv, HandlerInv
  <2>4. runs \in 1..MaxSockets
    BY <1>1, <2>3 DEF HeapInv, RunsInv, LoopPCs, NotRunningPCs
  <2>5. <<runs, h>> \in RunNames
    BY <2>4 DEF RunNames
  <2>6. {C2SHttpDataPull(<<runs, h>>).m_pRequest, C2SHttpRequest(<<runs, h>>).m_pEntity,
         C2SHttpParser(<<runs, h>>).m_body} \subseteq Objects
    BY <2>5 DEF Objects, RequestObjects
  <2>7. heap' \subseteq heap \cup {C2SHttpDataPull(<<runs, h>>).m_pRequest,
                                   C2SHttpRequest(<<runs, h>>).m_pEntity,
                                   C2SHttpParser(<<runs, h>>).m_body}
    BY <1>7, RequestStepFacts
  <2>8. QED
    BY <1>2, <1>3, <2>1, <2>6, <2>7
<1>8. ASSUME UNCHANGED lifeVars PROVE ObjectsInv'
  BY <1>2, <1>3, <1>8 DEF lifeVars
<1>9. QED
  BY <1>4, <1>5, <1>6, <1>7, <1>8, ServerStepKinds

-----------------------------------------------------------------------------
(* An entity is gone before the body that it points into. *)
LEMMA EntityStep ==
  ASSUME IInv, HeapInv, [ServerNext]_allVars
  PROVE  EntityInv'
<1>1. SUFFICES ASSUME NEW a \in (0..MaxSockets) \X Handlers,
                      C2SHttpRequest(a).m_pEntity \in heap'
               PROVE  C2SHttpParser(a).m_body \in heap'
  BY DEF EntityInv
<1>2. PICK e, b : e = C2SHttpRequest(a).m_pEntity /\ b = C2SHttpParser(a).m_body
  OBVIOUS
<1>3. /\ e \in heap => b \in heap
      /\ e \in heap'
  BY <1>1, <1>2 DEF HeapInv, EntityInv
<1>4. ClassOf(e) = "C2SHttpEntity" /\ ClassOf(b) = "char[]" /\ HandlerOf(e) = a /\ HandlerOf(b) = a
  BY <1>2 DEF C2SHttpRequest, C2SHttpParser, Of, Object, ClassOf, HandlerOf
<1>5. Passing(e)
  BY <1>4 DEF Passing
<1>6. CASE ProgramNext
  <2>1. CASE CreateServer
    <3>1. e \notin createServerRuntime
      BY <1>5, ConstructedStays
    <3>2. QED
      BY <1>2, <1>3, <2>1, <3>1 DEF CreateServer
  <2>2. CASE FreeObject
    <3>1. PICK o, rest : o = Head(todo)[2] /\ rest = Tail(todo)
      OBVIOUS
    <3>2. heap' = heap \ {o} /\ todo # <<>> /\ todo \in Seq(OpKinds \X Objects)
      BY <2>2, <3>1, FreeFacts DEF HeapInv, ObjectsInv
    <3>3. ASSUME b = o PROVE FALSE
      <4>1. 1 \in DOMAIN todo /\ todo[1] = Head(todo)
        BY <3>2
      <4>2. todo[1][2] = b
        BY <3>1, <3>3, <4>1
      <4>3. PICK j \in DOMAIN todo : j < 1
        BY <1>2, <1>3, <1>4, <3>2, <4>1, <4>2 DEF HeapInv, TodoInv, EntityFirst
      <4>4. QED
        BY <3>2, <4>3
    <3>4. QED
      BY <1>2, <1>3, <3>2, <3>3
  <2>3. CASE ~CreateServer /\ ~FreeObject
    <3>1. heap' = heap
      BY <1>6, <2>3 DEF ProgramNext, RegisterResource, UseServer, DeleteServer, DeleteObject,
                        ClearList, ServerIsGone
    <3>2. QED
      BY <1>2, <1>3, <3>1
  <2>4. QED
    BY <2>1, <2>2, <2>3
<1>7. ASSUME NEW c \in Callers, ThreadSteps(c) PROVE b \in heap'
  <2>1. \A n : pthread(n) # e
    BY <1>4 DEF pthread, Object, ClassOf
  <2>2. b \notin Thread
    BY <1>4 DEF Thread, pthread, Object, ClassOf
  <2>3. QED
    BY <1>3, <1>7, <2>1, <2>2, ThreadStepFacts
<1>8. ASSUME QueueSteps PROVE b \in heap'
  <2>1. \A r, i : /\ e # AcceptMutex(r) /\ e # AcceptThreadQueue(r) /\ e # Of("C2SThreadQueueRunner", i)
                  /\ b # AcceptMutex(r) /\ b # AcceptThreadQueue(r) /\ b # Of("C2SThreadQueueRunner", i)
    BY <1>4 DEF AcceptMutex, AcceptThreadQueue, Of, Object, ClassOf
  <2>2. CASE lpc = "create" /\ m_acceptHandlers + 1 \in Handlers
             /\ heap' = heap \cup NewHandler(<<runs, m_acceptHandlers + 1>>,
                                             m_listOfResourcePrototypes)
    <3>1. runs \in 1..MaxSockets
      BY <2>2, SocketListenerAssumption DEF HeapInv, RunsInv, NotRunningPCs, IInv, TypeInv, TypeOK
    <3>2. <<runs, m_acceptHandlers + 1>> \in RunNames /\ m_listOfResourcePrototypes \in SUBSET Range(Resources)
      BY <2>2, <3>1 DEF RunNames, HeapInv, ObjectsInv
    <3>3. e \notin NewHandler(<<runs, m_acceptHandlers + 1>>, m_listOfResourcePrototypes)
      BY <1>5, <3>2, ConstructedStays
    <3>4. QED
      BY <1>3, <2>2, <3>3
  <2>3. QED
    BY <1>3, <1>8, <2>1, <2>2, QueueStepFacts
<1>9. ASSUME NEW h \in Handlers, RequestSteps(h) PROVE b \in heap'
  <2>1. PICK e1, b1, q : /\ e1 = C2SHttpRequest(<<runs, h>>).m_pEntity
                         /\ b1 = C2SHttpParser(<<runs, h>>).m_body
                         /\ q = C2SHttpDataPull(<<runs, h>>).m_pRequest
    OBVIOUS
  <2>2. e = e1 <=> b = b1
    BY <1>2, <2>1 DEF C2SHttpRequest, C2SHttpParser, Of, Object
  <2>3. e # q /\ e # b1 /\ b # q /\ b # e1
    BY <1>4, <2>1 DEF C2SHttpRequest, C2SHttpParser, C2SHttpDataPull, Of, Object, ClassOf
  <2>4. \/ heap' = (heap \ {e1, b1}) \cup {q}
        \/ heap' = heap
        \/ heap' = heap \cup {b1}
        \/ b1 \in heap /\ heap' = heap \cup {e1}
    BY <1>9, <2>1, RequestStepFacts
  <2>5. QED
    BY <1>3, <2>2, <2>3, <2>4
<1>10. ASSUME UNCHANGED lifeVars PROVE b \in heap'
  BY <1>3, <1>10 DEF lifeVars
<1>11. QED
  BY <1>2, <1>6, <1>7, <1>8, <1>9, <1>10, ServerStepKinds

-----------------------------------------------------------------------------
(* What the destructors have to do is possible. *)
LEMMA TodoStep ==
  ASSUME IInv, HeapInv, [ServerNext]_allVars
  PROVE  TodoInv'
<1> DEFINE T == OpKinds \X Objects
           L == m_listOfResourcePrototypes
           Good(ops, objects, S) ==
             /\ TargetsOnce(ops, S) /\ ClearsThenDeletes(ops) /\ EntityFirst(ops, objects)
             /\ \A op \in Range(ops) : Possible(op, objects, S)
<1>1. todo \in Seq(T)
  BY DEF HeapInv, ObjectsInv
<1>2. TargetsOnce(todo, L) /\ ClearsThenDeletes(todo) /\ EntityFirst(todo, heap)
      /\ \A op \in Range(todo) : Possible(op, heap, L)
  BY DEF HeapInv, TodoInv
<1>3. ASSUME Good(todo', heap', L') PROVE TodoInv'
  BY <1>3 DEF TodoInv
<1>4. ASSUME todo' = <<>> PROVE TodoInv'
  BY <1>4 DEF TodoInv, TargetsOnce, ClearsThenDeletes, EntityFirst, Range
<1>5. CASE ppc' # "delete"
  BY <1>4, <1>5, ProgramStep DEF HeapInv, ProgramInv
<1>6. CASE DeleteServer
  <2>1. PICK o : o = The("C2STestRestFixture")
    OBVIOUS
  <2>2. PICK ops : ops = <<Delete(o)>>
    OBVIOUS
  <2>3. ppc = "use" /\ todo' = ops /\ heap' = heap
    BY <1>6, <2>1, <2>2 DEF DeleteServer
  <2>4. o \in heap /\ ClassOf(o) # "char[]"
    BY <2>1, <2>3 DEF HeapInv, PresentInv, createResources, The, Object, ClassOf
  <2>5. Orderly(ops, heap, {o}, Thread, heap, L')
    BY <2>2, <2>4, OrderlyDelete
  <2>6. \A op \in Range(ops) : Possible(op, heap, L')
    BY <2>2, <2>4 DEF Range, Possible, Targets, Delete
  <2>7. QED
    BY <1>3, <2>3, <2>5, <2>6 DEF Orderly
<1>7. CASE DeleteObject
  <2>1. PICK o, ops, rest :
           /\ o \in heap /\ Head(todo) = Delete(o) /\ ~Opened(o) /\ Named(o) /\ o \in Doomed
           /\ rest = Tail(todo) /\ o \notin AllTargets(rest, L)
           /\ ops = DestructorOf(o) /\ ops # <<>>
           /\ Orderly(ops, Objects, Owned(o), Thread, heap, L)
           /\ \A i \in DOMAIN ops : ClassOf(ops[i][2]) = "pthread_t" => ops[i][1] = "detach"
           /\ todo' = ops \o <<Free(o)>> \o rest
           /\ ppc = "delete" /\ todo # <<>>
           /\ UNCHANGED <<vars, heap, ppc, handed, m_listOfResourcePrototypes, isDown, runs, m_pthread>>
    BY <1>7, DeleteFacts DEF HeapInv
  <2>2. \A q \in Owned(o) : (q = pthread(NoThread) \/ q \in heap) /\ q \notin Doomed
    BY <2>1 DEF HeapInv, ForestInv
  <2>3. PICK f : f = <<Free(o)>>
    OBVIOUS
  <2>4. /\ f \in Seq(T) /\ AllTargets(f, L) = {o} /\ TargetsOnce(f, L)
        /\ ClearsThenDeletes(f) /\ \A op \in Range(f) : Possible(op, heap, L)
    BY <1>1, <2>1, <2>3 DEF HeapInv, ObjectsInv, OpKinds, Free, AllTargets, Targets, TargetsOnce,
                            ClearsThenDeletes, Range, Possible
  <2>5. EntityFirst(f, heap)
    <3>1. ClassOf(o) # "char[]"
      BY <2>1 DEF DestructorOf, Destructor
    <3>2. \A i \in DOMAIN f : f[i][2] = o
      BY <2>3 DEF Free
    <3>3. QED
      BY <3>1, <3>2, EntityFirstOfOthers
  <2>6. /\ rest \in Seq(T) /\ TargetsOnce(rest, L) /\ AllTargets(rest, L) \subseteq Doomed
        /\ \A op \in Range(rest) : Possible(op, heap, L)
    BY <2>1, FirstInTodo DEF HeapInv
  <2>7. ClearsThenDeletes(rest) /\ EntityFirst(rest, heap)
    <3>1. \A a : Head(todo) # Delete(C2SHttpRequest(a).m_pEntity)
      <4>1. SUFFICES ASSUME NEW a, Head(todo) = Delete(C2SHttpRequest(a).m_pEntity) PROVE FALSE
        OBVIOUS
      <4>2. o = C2SHttpRequest(a).m_pEntity
        BY <2>1, <4>1 DEF Delete
      <4>3. ClassOf(o) = "C2SHttpEntity"
        BY <4>2 DEF C2SHttpRequest, Of, Object, ClassOf
      <4>4. DestructorOf(o) = <<>>
        BY <4>3 DEF DestructorOf, Destructor, EntityDestructor, C2SHttpEntity
      <4>5. QED
        BY <2>1, <4>4
    <3>2. QED
      BY <1>1, <1>2, <2>1, <3>1, TailOrder
  <2>8. /\ ops \in Seq(T) /\ AllTargets(ops, L) = Owned(o) /\ TargetsOnce(ops, L)
        /\ ClearsThenDeletes(ops) /\ EntityFirst(ops, heap)
    BY <2>1 DEF Orderly
  <2>9. \A op \in Range(ops) : Possible(op, heap, L)
    <3>1. SUFFICES ASSUME NEW i \in DOMAIN ops PROVE Possible(ops[i], heap, L)
      BY DEF Range
    <3>2. CASE ops[i][1] = "detach"
      <4>1. ops[i][2] \in Thread /\ ops[i][2] \in Owned(o)
        BY <2>1, <2>8, <3>2 DEF Orderly, AllTargets, Targets
      <4>2. ClassOf(ops[i][2]) = "pthread_t"
        BY <4>1, HandlersAndThread DEF HeapInv
      <4>3. QED
        BY <2>2, <3>2, <4>1, <4>2 DEF Possible
    <3>3. CASE ops[i][1] # "detach"
      <4>1. Targets(ops[i], L) \subseteq Owned(o)
        BY <2>8 DEF AllTargets
      <4>2. \A q \in Targets(ops[i], L) : ClassOf(q) # "pthread_t"
        <5>1. CASE ops[i][1] = "clear"
          BY <5>1 DEF Targets, C2SHttpResourcePrototypeList, RestResource, Object, ClassOf
        <5>2. CASE ops[i][1] # "clear"
          BY <2>1, <3>3, <5>2 DEF Targets
        <5>3. QED
          BY <5>1, <5>2
      <4>3. QED
        BY <2>2, <3>3, <4>1, <4>2 DEF Possible, pthread, Object, ClassOf
    <3>4. QED
      BY <3>2, <3>3
  <2>10. PICK s : s = ops \o f
    OBVIOUS
  <2>11. /\ s \in Seq(T) /\ Range(s) = Range(ops) \cup Range(f)
         /\ AllTargets(s, L) = Owned(o) \cup {o}
         /\ TargetsOnce(s, L)
    <3>1. Owned(o) \cap {o} = {}
      BY <2>1, <2>2
    <3>2. QED
      BY <2>4, <2>8, <2>10, <3>1, ConcatFacts
  <2>12. ClearsThenDeletes(s) /\ EntityFirst(s, heap)
    BY <2>4, <2>5, <2>8, <2>10, ConcatOrder
  <2>13. todo' = s \o rest
    BY <2>1, <2>3, <2>10
  <2>14. Range(todo') = Range(s) \cup Range(rest) /\ TargetsOnce(todo', L)
    <3>1. AllTargets(s, L) \cap AllTargets(rest, L) = {}
      BY <2>1, <2>2, <2>6, <2>11
    <3>2. QED
      BY <2>6, <2>11, <2>13, <3>1, ConcatFacts
  <2>15. ClearsThenDeletes(todo') /\ EntityFirst(todo', heap)
    BY <2>6, <2>7, <2>11, <2>12, <2>13, ConcatOrder
  <2>16. \A op \in Range(todo') : Possible(op, heap, L)
    BY <2>4, <2>6, <2>9, <2>11, <2>14
  <2>17. QED
    BY <1>3, <2>1, <2>14, <2>15, <2>16
<1>8. CASE FreeObject
  <2>1. PICK o, rest : o = Head(todo)[2] /\ rest = Tail(todo)
    OBVIOUS
  <2>2. /\ Targets(Head(todo), L) = {o} /\ o \notin AllTargets(rest, L)
        /\ heap' = heap \ {o} /\ todo' = rest /\ todo # <<>>
        /\ UNCHANGED <<vars, ppc, handed, m_listOfResourcePrototypes, isDown, runs, m_pthread>>
    BY <1>8, <2>1, FreeFacts DEF HeapInv
  <2>3. /\ rest \in Seq(T) /\ TargetsOnce(rest, L)
        /\ \A op \in Range(rest) : Possible(op, heap, L) /\ Targets(op, L) \subseteq AllTargets(rest, L)
    BY <2>1, <2>2, FirstInTodo DEF HeapInv
  <2>4. \A a : Head(todo) = Delete(C2SHttpRequest(a).m_pEntity) => C2SHttpRequest(a).m_pEntity \notin heap'
    BY <2>1, <2>2 DEF Delete
  <2>5. ClearsThenDeletes(rest) /\ EntityFirst(rest, heap')
    BY <1>1, <1>2, <2>1, <2>2, <2>4, TailOrder
  <2>6. \A op \in Range(rest) : Possible(op, heap', L)
    BY <2>2, <2>3 DEF Possible, Targets
  <2>7. QED
    BY <1>3, <2>2, <2>3, <2>5, <2>6
<1>9. CASE ClearList
  <2>1. PICK protos, rest : protos = PrototypesIn(Head(todo)[2]) /\ rest = Tail(todo)
    OBVIOUS
  <2>2. /\ IsFiniteSet(protos) /\ protos \subseteq heap
        /\ \A o \in protos : ClassOf(o) = "C2SRestResourcePrototype"
        /\ Targets(Head(todo), L) = protos
        /\ protos \cap AllTargets(rest, L) = {}
        /\ Head(todo)[1] = "clear"
        /\ todo' = DeleteAll(protos) \o rest /\ todo # <<>>
        /\ UNCHANGED <<vars, heap, ppc, handed, m_listOfResourcePrototypes, isDown, runs, m_pthread>>
    BY <1>9, <2>1, ClearFacts DEF HeapInv
  <2>3. PICK d : d = DeleteAll(protos)
    OBVIOUS
  <2>4. Orderly(d, Objects, protos, Thread, heap, L)
    BY <2>2, <2>3, OrderlyDeleteAll DEF HeapInv, ObjectsInv
  <2>5. /\ d \in Seq(T) /\ AllTargets(d, L) = protos /\ TargetsOnce(d, L)
        /\ ClearsThenDeletes(d) /\ EntityFirst(d, heap)
    BY <2>4 DEF Orderly
  <2>6. \A op \in Range(d) : Possible(op, heap, L)
    <3>1. Range(d) = {Delete(o) : o \in protos}
      BY <2>2, <2>3, DeleteAllFacts
    <3>2. QED
      BY <2>2, <3>1 DEF Possible, Targets, Delete
  <2>7. /\ rest \in Seq(T) /\ TargetsOnce(rest, L)
        /\ \A op \in Range(rest) : Possible(op, heap, L)
    BY <2>1, <2>2, FirstInTodo DEF HeapInv
  <2>8. ClearsThenDeletes(rest) /\ EntityFirst(rest, heap)
    <3>1. \A a : Head(todo) # Delete(C2SHttpRequest(a).m_pEntity)
      BY <2>2 DEF Delete
    <3>2. QED
      BY <1>1, <1>2, <2>1, <2>2, <3>1, TailOrder
  <2>9. todo' = d \o rest
    BY <2>2, <2>3
  <2>10. Range(todo') = Range(d) \cup Range(rest) /\ TargetsOnce(todo', L)
    BY <2>2, <2>5, <2>7, <2>9, ConcatFacts
  <2>11. ClearsThenDeletes(todo') /\ EntityFirst(todo', heap)
    BY <2>5, <2>7, <2>8, <2>9, ConcatOrder
  <2>12. QED
    BY <1>3, <2>2, <2>6, <2>7, <2>10, <2>11
<1>10. CASE UNCHANGED lifeVars
  BY <1>2, <1>3, <1>10 DEF lifeVars
<1>11. CASE ProgramNext /\ ppc' = "delete" /\ ~DeleteServer /\ ~DeleteObject /\ ~FreeObject /\ ~ClearList
  BY <1>11 DEF ProgramNext, CreateServer, RegisterResource, UseServer, ServerIsGone
<1>12. CASE ~ProgramNext /\ ppc' = "delete"
  <2>1. ppc' = ppc
    BY <1>12, ThreadStepFacts, QueueStepFacts, RequestStepFacts, ServerStepKinds DEF lifeVars
  <2>2. UNCHANGED lifeVars
    BY <1>12, <2>1, OnlyInUse, ServerStepKinds DEF HeapInv
  <2>3. QED
    BY <1>10, <2>2
<1>13. QED
  BY <1>5, <1>6, <1>7, <1>8, <1>9, <1>11, <1>12

-----------------------------------------------------------------------------
(* An object has what it owns until its destructor begins. *)

(* What comes when no destructor is under way. *)
LEMMA ComesInUse ==
  ASSUME IInv, ObjectsInv, RunsInv, [ServerNext]_allVars, ~ProgramNext,
         NEW o \in heap', o \notin heap
  PROVE  \/ ClassOf(o) \in LeafClasses
         \/ ClassOf(o) = "C2SHttpRequest"
         \/ \E a \in RunNames : /\ o \in NewHandler(a, m_listOfResourcePrototypes)
                                /\ NewHandler(a, m_listOfResourcePrototypes) \subseteq heap'
<1> USE DEF LeafClasses
<1>1. ASSUME NEW c \in Callers, ThreadSteps(c) PROVE ClassOf(o) \in LeafClasses
  <2>1. o = pthread(Len(sockets))
    BY <1>1, ThreadStepFacts
  <2>2. QED
    BY <2>1 DEF pthread, Object, ClassOf
<1>2. CASE QueueSteps
  <2>1. CASE heap' = heap \cup {AcceptMutex(runs + 1), AcceptThreadQueue(runs + 1)}
    BY <2>1 DEF AcceptMutex, AcceptThreadQueue, Of, Object, ClassOf
  <2>2. CASE lpc = "create" /\ m_acceptHandlers + 1 \in Handlers
             /\ heap' = heap \cup NewHandler(<<runs, m_acceptHandlers + 1>>,
                                             m_listOfResourcePrototypes)
    <3>1. runs \in 1..MaxSockets
      BY <2>2, SocketListenerAssumption DEF RunsInv, NotRunningPCs, IInv, TypeInv, TypeOK
    <3>2. <<runs, m_acceptHandlers + 1>> \in RunNames
      BY <2>2, <3>1 DEF RunNames
    <3>3. QED
      BY <2>2, <3>2
  <2>3. CASE heap' = heap \cup {Of("C2SThreadQueueRunner", <<runs, m_acceptHandlers>>)}
    BY <2>3 DEF Of, Object, ClassOf
  <2>4. QED
    BY <1>2, <2>1, <2>2, <2>3, QueueStepFacts
<1>3. ASSUME NEW h \in Handlers, RequestSteps(h)
      PROVE  ClassOf(o) \in LeafClasses \cup {"C2SHttpRequest"}
  <2>1. o \in {C2SHttpDataPull(<<runs, h>>).m_pRequest, C2SHttpRequest(<<runs, h>>).m_pEntity,
               C2SHttpParser(<<runs, h>>).m_body}
    BY <1>3, RequestStepFacts
  <2>2. QED
    BY <2>1 DEF C2SHttpDataPull, C2SHttpRequest, C2SHttpParser, Of, Object, ClassOf
<1>4. ~UNCHANGED lifeVars
  BY DEF lifeVars
<1>5. QED
  BY <1>1, <1>2, <1>3, <1>4, ServerStepKinds

(* A server that is used has the handle of its thread, ...                  *)
LEMMA ThreadIsThere ==
  ASSUME HeapInv, ppc = "use"
  PROVE  Thread \subseteq heap \cup {pthread(NoThread)}
<1>1. PICK t : t = The("C2SSocketListenerThread")
  OBVIOUS
<1>2. t \in heap /\ ~Opened(t)
  <2>1. t \in createServerRuntime
    BY <1>1 DEF createServerRuntime, NewServer, NewRuntime, createSocketListener, C2SRuntime
  <2>2. QED
    BY <2>1 DEF HeapInv, PresentInv, ProgramInv, Opened, Range
<1>3. Owned(t) = Thread
  BY <1>1 DEF Owned, Owns, The, Object, ClassOf
<1>4. QED
  BY <1>2, <1>3 DEF HeapInv, ForestInv

(* ... and keeps it.                                                        *)
LEMMA ThreadStays ==
  ASSUME HeapInv, [ServerNext]_allVars, ~ProgramNext, ppc = "use"
  PROVE  Thread' \subseteq heap' \cup {pthread(NoThread)}
<1>1. Thread \subseteq heap \cup {pthread(NoThread)}
  BY ThreadIsThere
<1>2. ASSUME NEW c \in Callers, ThreadSteps(c)
      PROVE  Thread' \subseteq heap' \cup {pthread(NoThread)}
  <2>1. \/ m_pthread' = Len(sockets) /\ pthread(Len(sockets)) \in heap'
        \/ m_pthread' = NoThread
        \/ UNCHANGED <<heap, m_pthread>>
    BY <1>2, ThreadStepFacts
  <2>2. QED
    BY <1>1, <2>1 DEF Thread
<1>3. ASSUME QueueSteps \/ \E h \in Handlers : RequestSteps(h)
      PROVE  Thread' \subseteq heap' \cup {pthread(NoThread)}
  <2>1. Thread' = Thread
    BY <1>3, QueueStepFacts, RequestStepFacts DEF Thread
  <2>2. SUFFICES ASSUME NEW t \in Thread, t \in heap PROVE t \in heap'
    BY <1>1, <2>1
  <2>3. ClassOf(t) = "pthread_t"
    BY DEF Thread, pthread, Object, ClassOf
  <2>4. CASE QueueSteps
    <3>1. \A r, h : t \notin {AcceptThreadQueue(r), AcceptMutex(r), Of("C2SThreadQueueRunner", <<r, h>>)}
      BY <2>3 DEF AcceptThreadQueue, AcceptMutex, Of, Object, ClassOf
    <3>2. QED
      BY <2>2, <2>4, <3>1, QueueStepFacts
  <2>5. ASSUME NEW h \in Handlers, RequestSteps(h) PROVE t \in heap'
    <3>1. \A a : t \notin {C2SHttpRequest(a).m_pEntity, C2SHttpParser(a).m_body}
      BY <2>3 DEF C2SHttpRequest, C2SHttpParser, Of, Object, ClassOf
    <3>2. QED
      BY <2>2, <2>5, <3>1, RequestStepFacts
  <2>6. QED
    BY <1>3, <2>4, <2>5
<1>4. UNCHANGED lifeVars => Thread' = Thread /\ heap' = heap
  BY DEF lifeVars, Thread
<1>5. QED
  BY <1>1, <1>2, <1>3, <1>4, ServerStepKinds

(* A step that deletes an object has begun with its owner: whoever has not   *)
(* begun its destructor keeps what it owns.                                 *)
LEMMA ForestStep ==
  ASSUME IInv, HeapInv, [ServerNext]_allVars
  PROVE  ForestInv'
<1> DEFINE L == m_listOfResourcePrototypes
<1>1. /\ \A h \in AcceptHandlers : ClassOf(h) = "C2SSocketAcceptHandler"
      /\ \A t \in Thread : ClassOf(t) = "pthread_t"
      /\ AcceptHandlers' \in SUBSET heap'
      /\ \A t \in Thread' : ClassOf(t) = "pthread_t"
      /\ \A h \in AcceptHandlers' : ClassOf(h) = "C2SSocketAcceptHandler"
  BY DEF AcceptHandlers, Thread, Of, pthread, Object, ClassOf
<1>2. \A o \in heap : Named(o)
  BY ObjectsAreNamed DEF HeapInv, ObjectsInv
<1>3. ppc # "create" => \A o \in heap : ~Opened(o) =>
        \A q \in Owned(o) : (q = pthread(NoThread) \/ q \in heap) /\ q \notin Doomed
  BY DEF HeapInv, ForestInv
<1>4. ppc # "delete" => Doomed = {} /\ \A o : ~Opened(o)
  BY DEF HeapInv, ProgramInv, Doomed, AllTargets, Opened, Range
<1>5. ppc' # "delete" => Doomed' = {}
  BY ProgramStep DEF HeapInv, ProgramInv, Doomed, AllTargets
<1>6. CASE CreateServer
  <2>1. /\ ppc = "create" /\ ppc' = "register" /\ heap' = heap \cup createServerRuntime
        /\ UNCHANGED <<L, runs, m_pthread, todo>>
    BY <1>6 DEF CreateServer
  <2>2. heap' = createResources \cup createServerRuntime \cup Statics
    BY <2>1 DEF HeapInv, ProgramInv, PresentInv
  <2>3. heap' = Program \cup (UNION {NewResource(Shared, x) : x \in Range(Resources)}) \cup Statics
    <3>1. PICK R : R = UNION {NewResource(Shared, x) : x \in Range(Resources)}
      OBVIOUS
    <3>2. createResources \cup createServerRuntime = Program \cup R
      BY <3>1, StartObjects
    <3>3. heap' = (createResources \cup createServerRuntime) \cup Statics
      BY <2>2
    <3>4. heap' = Program \cup R \cup Statics
      BY <3>2, <3>3
    <3>5. QED
      BY <3>1, <3>4
  <2>4. L' = {}
    BY <2>1 DEF HeapInv, ProgramInv
  <2>5. Thread' = {}
    BY <2>1 DEF HeapInv, ProgramInv, Thread
  <2>6. SUFFICES ASSUME NEW o \in heap', NEW q \in Owned(o)' PROVE q \in heap'
    BY <1>5, <2>1 DEF ForestInv
  <2>7. CASE o \in Program
    <3>1. {RestResource(Shared, x) : x \in L'} = {}
      BY <2>4
    <3>2. q \in Program \cup AcceptHandlers'
      BY <2>5, <2>6, <2>7, <3>1, ProgramClosed DEF Owned
    <3>3. QED
      BY <1>1, <2>3, <3>2
  <2>8. CASE \E x \in Range(Resources) : o \in NewResource(Shared, x)
    <3>1. PICK x \in Range(Resources) : o \in NewResource(Shared, x)
      BY <2>8
    <3>2. q \in NewResource(Shared, x)
      BY <2>6, <3>1, ResourceClosed DEF Owned
    <3>3. QED
      BY <2>3, <3>2
  <2>9. CASE o \in Statics
    <3>1. ClassOf(o) \in LeafClasses
      BY <2>9 DEF Statics, C2SLogBase, C2SLogSimpleMessageFactory, The, Object, ClassOf, LeafClasses
    <3>2. Owned(o)' = {}
      BY <3>1, LeavesOwnNothing DEF Owned
    <3>3. QED
      BY <2>6, <3>2
  <2>10. QED
    BY <2>3, <2>7, <2>8, <2>9
<1>7. CASE RegisterResource
  <2>1. /\ ppc = "register" /\ ppc' = "register"
        /\ UNCHANGED <<heap, runs, m_pthread, todo>>
    BY <1>7 DEF RegisterResource
  <2>2. /\ heap \subseteq createResources \cup Statics \cup createServerRuntime
        /\ createResources \subseteq heap
    BY <2>1 DEF HeapInv, ProgramInv, PresentInv
  <2>3. PICK x : (L' = L \cup {x} /\ x \in Range(Resources)) \/ L' = L
    <3>1. handed + 1 \in DOMAIN Resources
      <4>1. Resources \in Seq(Range(Resources))
        BY HttpObjectsAssumption
      <4>2. handed \in Nat /\ handed < Len(Resources)
        BY <1>7, <4>1 DEF RegisterResource, HeapInv, ObjectsInv
      <4>3. QED
        BY <4>1, <4>2
    <3>2. Resources[handed + 1] \in Range(Resources)
      BY <3>1 DEF Range
    <3>3. QED
      BY <1>7, <3>2 DEF RegisterResource, addResourcePrototype
  <2>4. AcceptHandlers' = AcceptHandlers /\ Thread' = Thread
    BY <2>1 DEF AcceptHandlers, Thread
  <2>5. SUFFICES ASSUME NEW o \in heap, NEW q \in Owned(o)'
                 PROVE  q = pthread(NoThread) \/ q \in heap
    BY <1>5, <2>1 DEF ForestInv
  <2>6. CASE L' = L
    BY <1>3, <1>4, <2>1, <2>4, <2>5, <2>6 DEF Owned
  <2>7. CASE L' = L \cup {x} /\ x \in Range(Resources)
    <3>1. ClassOf(o) # "C2SHttpResourceManager"
      <4>1. CASE o \in Program
        BY <4>1, ProgramNames DEF ProgramClasses
      <4>2. CASE \E y \in Range(Resources) : o \in NewResource(Shared, y)
        BY <4>2, ResourceNames
      <4>3. CASE o \in Statics
        BY <4>3 DEF Statics, C2SLogBase, C2SLogSimpleMessageFactory, The, Object, ClassOf
      <4>4. QED
        BY <2>2, <4>1, <4>2, <4>3, StartObjects
    <3>2. q \in Owned(o) \/ q = RestResource(Shared, x)
      BY <2>1, <2>4, <2>5, <2>7, <3>1, OwnsMore DEF Owned
    <3>3. RestResource(Shared, x) \in heap
      BY <2>2, <2>7 DEF createResources, NewResource
    <3>4. QED
      BY <1>3, <1>4, <2>1, <2>5, <3>2, <3>3
  <2>8. QED
    BY <2>3, <2>6, <2>7
<1>8. CASE UseServer \/ ServerIsGone
  <2>1. ppc # "create" /\ UNCHANGED <<heap, L, runs, m_pthread, todo>>
    BY <1>8 DEF UseServer, ServerIsGone
  <2>2. QED
    BY <1>3, <2>1 DEF ForestInv, Owned, Opened, Doomed, AcceptHandlers, Thread
<1>9. CASE DeleteServer
  <2>1. PICK f : f = The("C2STestRestFixture")
    OBVIOUS
  <2>2. /\ ppc = "use" /\ UNCHANGED <<heap, L, runs, m_pthread>>
        /\ todo' = <<Delete(f)>>
    BY <1>9, <2>1 DEF DeleteServer
  <2>3. Doomed' = {f}
    BY <2>2 DEF Doomed, AllTargets, Targets, Delete
  <2>4. AcceptHandlers' = AcceptHandlers /\ Thread' = Thread
    BY <2>2 DEF AcceptHandlers, Thread
  <2>5. Unowned(f)
    BY <2>1 DEF Unowned, The, Object, ClassOf
  <2>6. ASSUME NEW o \in heap PROVE f \notin Owned(o)
    BY <1>1, <1>2, <2>5, NobodyOwnsThese DEF Owned
  <2>7. QED
    BY <1>3, <1>4, <2>2, <2>3, <2>4, <2>6 DEF ForestInv, Owned
<1>10. CASE DeleteObject
  <2>1. PICK o, ops, rest :
           /\ Head(todo) = Delete(o)
           /\ Named(o) /\ o \in Doomed
           /\ rest = Tail(todo)
           /\ Orderly(ops, Objects, Owned(o), Thread, heap, L)
           /\ todo' = ops \o <<Free(o)>> \o rest
           /\ ppc = "delete" /\ todo # <<>>
           /\ UNCHANGED <<vars, heap, ppc, handed, m_listOfResourcePrototypes, isDown, runs, m_pthread>>
    BY <1>10, DeleteFacts DEF HeapInv
  <2>2. PICK T : T = OpKinds \X Objects
    OBVIOUS
  <2>3. PICK f : f = <<Free(o)>>
    OBVIOUS
  <2>4. Doomed \subseteq Objects
    <3>1. Doomed = Targets(Head(todo), L) \cup AllTargets(rest, L)
      BY <2>1, FirstInTodo DEF HeapInv
    <3>2. \A op \in Range(todo) : Targets(op, L) \subseteq Objects
      <4>1. SUFFICES ASSUME NEW op \in Range(todo) PROVE Targets(op, L) \subseteq Objects
        OBVIOUS
      <4>2. op[2] \in Objects
        BY <4>1 DEF HeapInv, ObjectsInv, Range
      <4>3. CASE op[1] = "detach"
        BY <4>2, <4>3 DEF Targets
      <4>4. CASE op[1] # "detach"
        BY <4>1, <4>4 DEF HeapInv, TodoInv, Possible, ObjectsInv
      <4>5. QED
        BY <4>3, <4>4
    <3>3. QED
      BY <3>2 DEF Doomed, AllTargets, Range
  <2>5. f \in Seq(T) /\ Range(f) = {Free(o)} /\ AllTargets(f, L) = {o}
    <3>1. o \in Objects
      BY <2>1, <2>4
    <3>2. Free(o) \in T
      BY <2>2, <3>1 DEF OpKinds, Free
    <3>3. f \in Seq(T)
      BY <2>3, <3>2
    <3>4. Range(f) = {Free(o)} /\ AllTargets(f, L) = {o}
      BY <2>3 DEF Free, Range, AllTargets, Targets
    <3>5. QED
      BY <3>3, <3>4
  <2>6. rest \in Seq(T) /\ Range(rest) \subseteq Range(todo) /\ AllTargets(rest, L) \subseteq Doomed
    BY <2>1, <2>2, FirstInTodo DEF HeapInv
  <2>7. ops \in Seq(T) /\ AllTargets(ops, L) = Owned(o) /\ \A p : Free(p) \notin Range(ops)
    BY <2>1, <2>2 DEF Orderly, Range, Free
  <2>8. /\ Range(todo') = Range(ops) \cup {Free(o)} \cup Range(rest)
        /\ AllTargets(todo', L) = Owned(o) \cup {o} \cup AllTargets(rest, L)
    <3>1. PICK s : s = ops \o f
      OBVIOUS
    <3>2. /\ s \in Seq(T) /\ Range(s) = Range(ops) \cup {Free(o)}
          /\ AllTargets(s, L) = Owned(o) \cup {o}
      BY <2>5, <2>7, <3>1, ConcatFacts
    <3>3. todo' = s \o rest
      BY <2>1, <2>3, <3>1
    <3>4. QED
      BY <2>6, <3>2, <3>3, ConcatFacts
  <2>9. Doomed' \subseteq Doomed \cup Owned(o)
    BY <2>1, <2>6, <2>8 DEF Doomed
  <2>10. \A p : Opened(p) => Opened(p)'
    <3>1. SUFFICES ASSUME NEW p, Free(p) \in Range(todo) PROVE Free(p) \in Range(todo')
      BY DEF Opened
    <3>2. Range(todo) = {Delete(o)} \cup Range(rest)
      BY <2>1, FirstInTodo DEF HeapInv
    <3>3. Free(p) # Delete(o)
      BY DEF Free, Delete
    <3>4. QED
      BY <2>8, <3>1, <3>2, <3>3
  <2>11. Opened(o)'
    BY <2>8 DEF Opened
  <2>12. AcceptHandlers' = AcceptHandlers /\ Thread' = Thread
    BY <2>1 DEF AcceptHandlers, Thread
  <2>13. SUFFICES ASSUME NEW p \in heap, ~Opened(p)', NEW q \in Owned(p)
                  PROVE  (q = pthread(NoThread) \/ q \in heap) /\ q \notin Doomed'
    BY <2>1, <2>12 DEF ForestInv, Owned
  <2>14. /\ ~Opened(p) /\ p # o
    BY <2>10, <2>11, <2>13
  <2>15. OwnerOf(q) = p
    BY <1>1, <1>2, <2>13, OwnsItsOwn DEF Owned
  <2>16. q \notin Owned(o)
    BY <1>1, <2>1, <2>14, <2>15, OwnsItsOwn DEF Owned
  <2>17. (q = pthread(NoThread) \/ q \in heap) /\ q \notin Doomed
    BY <1>3, <2>1, <2>13, <2>14
  <2>18. QED
    BY <2>9, <2>16, <2>17
<1>11. CASE FreeObject
  <2>1. PICK o, rest : o = Head(todo)[2] /\ rest = Tail(todo)
    OBVIOUS
  <2>2. /\ o \in Doomed
        /\ \/ Head(todo) = Detach(o)
           \/ Head(todo) = Free(o)
           \/ Head(todo) = Delete(o)
        /\ heap' = heap \ {o} /\ todo' = rest
        /\ ppc = "delete" /\ todo # <<>>
        /\ UNCHANGED <<vars, ppc, handed, m_listOfResourcePrototypes, isDown, runs, m_pthread>>
    BY <1>11, <2>1, FreeFacts DEF HeapInv
  <2>3. Range(todo) = {Head(todo)} \cup Range(rest) /\ AllTargets(rest, L) \subseteq Doomed
    BY <2>1, <2>2, FirstInTodo DEF HeapInv
  <2>4. Doomed' \subseteq Doomed
    BY <2>2, <2>3 DEF Doomed
  <2>5. Thread' = Thread /\ AcceptHandlers' \in SUBSET AcceptHandlers
    <3>1. runs' = runs /\ m_pthread' = m_pthread
      BY <2>2
    <3>4. Thread' = Thread
      BY <3>1 DEF Thread
    <3>5. AcceptHandlers' \subseteq AcceptHandlers
      <4>1. heap' \subseteq heap
        BY <2>2
      <4>2. QED
        BY <3>1, <4>1 DEF AcceptHandlers
    <3>6. QED
      BY <3>4, <3>5
  <2>6. SUFFICES ASSUME NEW p \in heap', ~Opened(p)', NEW q \in Owned(p)'
                 PROVE  (q = pthread(NoThread) \/ q \in heap') /\ q \notin Doomed'
    BY DEF ForestInv
  <2>7. p \in heap /\ p # o
    BY <2>2, <2>6
  <2>8. ~Opened(p)
    <3>1. Free(p) \notin Range(rest)
      BY <2>2, <2>6 DEF Opened
    <3>2. Free(p) # Head(todo)
      BY <2>2, <2>7 DEF Free, Detach, Delete
    <3>3. QED
      BY <2>3, <3>1, <3>2 DEF Opened
  <2>9. q \in Owned(p)
    <3>1. heap' \in SUBSET heap
      BY <2>2
    <3>2. QED
      BY <2>2, <2>5, <2>6, <3>1, OwnsShrinks DEF Owned
  <2>10. (q = pthread(NoThread) \/ q \in heap) /\ q \notin Doomed
    BY <1>3, <2>2, <2>7, <2>8, <2>9
  <2>11. QED
    BY <2>2, <2>4, <2>10
<1>12. CASE ClearList
  <2>1. PICK protos, rest : protos = PrototypesIn(Head(todo)[2]) /\ rest = Tail(todo)
    OBVIOUS
  <2>2. /\ IsFiniteSet(protos)
        /\ Targets(Head(todo), L) = protos
        /\ Head(todo)[1] = "clear"
        /\ todo' = DeleteAll(protos) \o rest
        /\ ppc = "delete" /\ todo # <<>>
        /\ protos \subseteq heap
        /\ UNCHANGED <<vars, heap, ppc, handed, m_listOfResourcePrototypes, isDown, runs, m_pthread>>
    BY <1>12, <2>1, ClearFacts DEF HeapInv
  <2>3. PICK d, T : d = DeleteAll(protos) /\ T = OpKinds \X Objects
    OBVIOUS
  <2>4. /\ rest \in Seq(T) /\ Range(todo) = {Head(todo)} \cup Range(rest)
        /\ Doomed = protos \cup AllTargets(rest, L)
    BY <2>1, <2>2, <2>3, FirstInTodo DEF HeapInv
  <2>5. d \in Seq(T) /\ AllTargets(d, L) = protos /\ Range(d) = {Delete(o) : o \in protos}
    <3>1. /\ d \in Seq({Delete(o) : o \in protos}) /\ AllTargets(d, L) = protos
          /\ Range(d) = {Delete(o) : o \in protos}
      BY <2>2, <2>3, DeleteAllFacts
    <3>2. {Delete(o) : o \in protos} \subseteq T
      BY <2>2, <2>3 DEF Delete, OpKinds, HeapInv, ObjectsInv
    <3>3. QED
      BY <3>1, <3>2, SeqMonotonic
  <2>6. Range(todo') = Range(d) \cup Range(rest) /\ AllTargets(todo', L) = protos \cup AllTargets(rest, L)
    <3>1. todo' = d \o rest
      BY <2>2, <2>3
    <3>2. QED
      BY <2>4, <2>5, <3>1, ConcatFacts
  <2>7. Doomed' = Doomed
    BY <2>2, <2>4, <2>6 DEF Doomed
  <2>8. \A p : Opened(p) => Opened(p)'
    <3>1. SUFFICES ASSUME NEW p, Free(p) \in Range(todo) PROVE Free(p) \in Range(todo')
      BY DEF Opened
    <3>2. Free(p) # Head(todo)
      BY <2>2 DEF Free
    <3>3. QED
      BY <2>4, <2>6, <3>1, <3>2
  <2>9. QED
    BY <1>3, <2>2, <2>7, <2>8 DEF ForestInv, Owned, AcceptHandlers, Thread
<1>13. CASE UNCHANGED lifeVars
  BY <1>3, <1>13 DEF lifeVars, ForestInv, Owned, Opened, Doomed, AcceptHandlers, Thread
<1>14. CASE ~ProgramNext /\ ppc = "use"
  <2>1. UNCHANGED <<ppc, L>>
    BY <1>14, ThreadStepFacts, QueueStepFacts, RequestStepFacts, ServerStepKinds DEF lifeVars
  <2>2. SUFFICES ASSUME NEW o \in heap', NEW q \in Owned(o)'
                 PROVE  q = pthread(NoThread) \/ q \in heap'
    BY <1>5, <1>14, <2>1 DEF ForestInv
  <2>3. CASE o \in heap
    <3>1. SUFFICES ASSUME q \notin heap', q # pthread(NoThread) PROVE FALSE
      OBVIOUS
    <3>2. q \in Owned(o) /\ ClassOf(q) \notin PassingClasses \cup {"pthread_t"}
      <4>1. CASE ClassOf(q) = "pthread_t"
        <5>1. OwnerOf(q) = o
          BY <1>1, <1>2, <2>2, <2>3, OwnsItsOwn DEF Owned
        <5>2. ClassOf(o) = "C2SSocketListenerThread"
          BY <4>1, <5>1 DEF OwnerOf, The, Object, ClassOf
        <5>3. q \in Thread'
          BY <2>2, <5>2 DEF Owned, Owns
        <5>4. QED
          BY <1>14, <3>1, <5>3, ThreadStays
      <4>2. CASE ClassOf(q) # "pthread_t"
        BY <1>1, <2>1, <2>2, <3>1, <4>2, OwnsChange DEF Owned
      <4>3. QED
        BY <4>1, <4>2
    <3>3. q \in heap
      BY <1>3, <1>4, <1>14, <2>3, <3>1, <3>2
    <3>4. Passing(q)
      BY <1>14, <3>1, <3>3, GoesInUse DEF HeapInv
    <3>5. Unowned(q)
      BY <3>1, <3>2, <3>4 DEF Passing, PassingClasses, Unowned
    <3>6. QED
      BY <1>1, <1>2, <2>3, <3>2, <3>5, NobodyOwnsThese DEF Owned
  <2>4. CASE o \notin heap
    <3>1. CASE ClassOf(o) \in LeafClasses
      BY <2>2, <3>1, LeavesOwnNothing DEF Owned
    <3>2. CASE ClassOf(o) = "C2SHttpRequest"
      BY <2>2, <3>2 DEF Owned, Owns
    <3>3. ASSUME NEW a \in RunNames, o \in NewHandler(a, L), NewHandler(a, L) \subseteq heap'
          PROVE  q \in heap'
      <4>1. a # Shared
        BY RunNamesAreNotShared
      <4>2. L \in SUBSET Range(Resources)
        BY DEF HeapInv, ObjectsInv
      <4>3. q \in NewHandler(a, L) \cup heap'
        BY <2>1, <2>2, <3>3, <4>1, <4>2, HandlerClosed DEF Owned
      <4>4. QED
        BY <3>3, <4>3
    <3>4. QED
      BY <1>14, <2>2, <2>4, <3>1, <3>2, <3>3, ComesInUse DEF HeapInv
  <2>5. QED
    BY <2>3, <2>4
<1>15. CASE ~ProgramNext /\ ppc # "use"
  BY <1>13, <1>15, OnlyInUse, ServerStepKinds DEF HeapInv
<1>16. QED
  BY <1>6, <1>7, <1>8, <1>9, <1>10, <1>11, <1>12, <1>14, <1>15 DEF ProgramNext

-----------------------------------------------------------------------------
(* A program that has not begun to use the server satisfies all of it. *)
LEMMA ServerInitEstablishes ==
  ASSUME ServerInit
  PROVE  HeapInv
<1>1. /\ heap = createResources \cup Statics /\ ppc = "create" /\ handed = 0
      /\ m_listOfResourcePrototypes = {} /\ isDown = TRUE /\ runs = 0 /\ m_pthread = 0 /\ todo = <<>>
  BY DEF ServerInit
<1>2. /\ lpc = "none" /\ m_acceptHandlers = 0 /\ sockets = <<>>
      /\ \A c \in Callers : cpc[c] = "idle"
  BY DEF ServerInit, Init
<1>3. Range(todo) = {} /\ DOMAIN todo = {}
  BY <1>1 DEF Range
<1>4. ObjectsInv
  <2>1. heap \subseteq Objects
    BY <1>1 DEF Objects
  <2>2. Len(Resources) \in Nat
    BY HttpObjectsAssumption
  <2>3. todo \in Seq(OpKinds \X Objects)
    BY <1>1
  <2>4. QED
    BY <1>1, <2>1, <2>2, <2>3 DEF ObjectsInv, ProgramPCs
<1>5. RunsInv
  <2>1. Len(sockets) = 0
    BY <1>2
  <2>2. QED
    BY <1>1, <1>2, <2>1 DEF RunsInv, CallerIn, NotRunningPCs
<1>6. ProgramInv
  BY <1>1, <1>2 DEF ProgramInv
<1>7. PresentInv
  BY <1>1 DEF PresentInv
<1>8. EntityInv
  <2>1. SUFFICES ASSUME NEW a PROVE C2SHttpRequest(a).m_pEntity \notin heap
    BY DEF EntityInv
  <2>2. Passing(C2SHttpRequest(a).m_pEntity)
    BY DEF C2SHttpRequest, Of, Object, ClassOf, Passing, PassingClasses
  <2>3. QED
    BY <1>1, <2>2, ConstructedStays
<1>9. ForestInv
  BY <1>1 DEF ForestInv
<1>10. TodoInv
  BY <1>3 DEF TodoInv, TargetsOnce, ClearsThenDeletes, EntityFirst
<1>11. QED
  BY <1>4, <1>5, <1>6, <1>7, <1>8, <1>9, <1>10 DEF HeapInv

(* The inductive invariant of a program that owns a server. *)
THEOREM HeapInvariance ==
  ASSUME ~EarlyShutdown, ~SecondStart
  PROVE  ServerSpec => [](IInv /\ HeapInv)
<1>1. ServerSpec => []IInv
  BY ServerIsListener, Invariance, PTL
<1>2. ServerInit => HeapInv
  BY ServerInitEstablishes
<1>3. IInv /\ HeapInv /\ [ServerNext]_allVars => HeapInv'
  <2>1. SUFFICES ASSUME IInv, HeapInv, [ServerNext]_allVars
                 PROVE  HeapInv'
    OBVIOUS
  <2>2. ObjectsInv' /\ EntityInv' /\ ForestInv' /\ TodoInv'
    BY <2>1, ObjectsStep, EntityStep, ForestStep, TodoStep
  <2>3. RunsInv' /\ ProgramInv' /\ PresentInv'
    BY <2>1, RunsStep, ProgramStep, PresentStep DEF HeapInv
  <2>4. QED
    BY <2>2, <2>3 DEF HeapInv
<1>4. QED
  BY <1>1, <1>2, <1>3, PTL DEF ServerSpec

(* Every object is one that there can be, and a destructor does to it what  *)
(* destructors do.                                                          *)
THEOREM ServerTypeCorrect ==
  ASSUME ~EarlyShutdown, ~SecondStart
  PROVE  ServerSpec => []ServerTypeOK
<1>1. IInv /\ HeapInv => ServerTypeOK
  <2>1. SUFFICES ASSUME IInv, HeapInv PROVE ServerTypeOK
    OBVIOUS
  <2>2. TypeOK /\ Len(sockets) \in Nat /\ Len(sockets) <= MaxSockets
    BY <2>1 DEF IInv, TypeInv, TypeOK
  <2>3. runs \in 0..MaxSockets /\ m_pthread \in 0..NoThread
    BY <2>1, <2>2, SocketListenerAssumption DEF HeapInv, RunsInv, NoThread
  <2>4. \A i \in DOMAIN todo : todo[i] \in OpKinds \X Objects
    BY <2>1 DEF HeapInv, ObjectsInv
  <2>5. QED
    BY <2>1, <2>2, <2>3, <2>4 DEF ServerTypeOK, HeapInv, ObjectsInv, OpKinds
<1>2. QED
  BY <1>1, HeapInvariance, PTL

-----------------------------------------------------------------------------
(* Nothing is used after it is deleted. *)

(* A thread that is in the server keeps the program from deleting it. *)
LEMMA UsedInUse ==
  ASSUME IInv, HeapInv
  PROVE  /\ \A c \in Callers : cpc[c] \notin {"idle", "r_run"} => ppc = "use"
         /\ lpc # "none" => ppc = "use"
         /\ \A h \in Handlers : hpc[h] # "idle" => ppc = "use"
         /\ ppc = "use" => createResources \cup Statics \cup createServerRuntime \subseteq heap
<1>1. ppc \in ProgramPCs /\ ProgramInv /\ PresentInv /\ HandlerInv
  BY DEF HeapInv, ObjectsInv, IInv
<1>2. ppc # "use" => lpc = "none" /\ \A c \in Callers : cpc[c] \in {"idle", "r_run"}
  BY <1>1 DEF ProgramInv, ProgramPCs
<1>3. \A h \in Handlers : hpc[h] # "idle" => lpc # "none"
  BY <1>1 DEF HandlerInv, LoopPCs
<1>4. QED
  BY <1>1, <1>2, <1>3 DEF PresentInv

(* A caller uses the server, which is there, ... *)
LEMMA CallersFindTheirs ==
  ASSUME IInv, HeapInv, NEW c \in Callers
  PROVE  CallerUses(c) \subseteq heap
<1>1. CASE cpc[c] \in {"idle", "r_run"}
  BY <1>1 DEF CallerUses
<1>2. CASE cpc[c] \notin {"idle", "r_run"}
  <2>1. ppc = "use" /\ createResources \cup Statics \cup createServerRuntime \subseteq heap
    BY <1>2, UsedInUse
  <2>2. PICK U : U = Statics \cup createServerRuntime
    OBVIOUS
  <2>3. note \subseteq U
    BY <2>2 DEF note, publishMessageSynchronized, C2SSocketListener, C2SRuntime, C2SLogBase, Statics,
                createServerRuntime, NewServer, NewRuntime, createLogInstance
  <2>4. {The("C2SHttpServer"), The("C2SRuntime"), The("C2SSocketListener"), The("C2SSocketInfo"),
         The("C2SSocketListenerThread")} \subseteq U
    BY <2>2 DEF createServerRuntime, NewServer, NewRuntime, createSocketListener, C2SRuntime,
                C2SSocketListener
  <2>5. C2STestServerThread.m_pServiceRuntime = The("C2SHttpServer")
    BY DEF C2STestServerThread
  <2>6. \A h \in 1..m_acceptHandlers : Of("C2SSocketAcceptHandler", Current(h)) \in heap
    BY <2>1 DEF HeapInv, PresentInv, NewHandler
  <2>7. {Of("C2SSocketAcceptHandler", a) : a \in InterruptedNow(c)} \subseteq heap
    <3>1. CASE at[c] <= earlier
      <4>1. {Of("C2SSocketAcceptHandler", a) : a \in InterruptedNow(c)} = EarlierHandlers
        BY <3>1 DEF InterruptedNow, EarlierHandlers
      <4>2. QED
        BY <2>1, <4>1 DEF HeapInv, PresentInv
    <3>2. CASE ~(at[c] <= earlier)
      BY <2>6, <3>2 DEF InterruptedNow
    <3>3. QED
      BY <3>1, <3>2
  <2>8. U \subseteq heap
    BY <2>1, <2>2
  <2>9. CASE cpc[c] = "x_handlers"
    <3>1. CallerUses(c) = {The("C2SSocketListener")}
                          \cup {Of("C2SSocketAcceptHandler", a) : a \in InterruptedNow(c)}
      BY <2>9 DEF CallerUses
    <3>2. QED
      BY <2>4, <2>7, <2>8, <3>1
  <2>10. CASE cpc[c] # "x_handlers"
    <3>1. Thread \ {pthread(NoThread)} \subseteq heap
      BY <2>1, ThreadIsThere
    <3>2. QED
      BY <2>3, <2>4, <2>5, <2>8, <2>10, <3>1 DEF CallerUses
  <2>11. QED
    BY <2>9, <2>10
<1>3. QED
  BY <1>1, <1>2

(* ... the listener what it has created itself, and the program's resources, ... *)
LEMMA ListenerFindsItsOwn ==
  ASSUME IInv, HeapInv
  PROVE  ListenerUses \subseteq heap
<1>1. CASE lpc = "none"
  BY <1>1 DEF ListenerUses
<1>2. CASE lpc # "none"
  <2>1. ppc = "use" /\ createResources \cup Statics \cup createServerRuntime \subseteq heap
    BY <1>2, UsedInUse
  <2>2. {The("C2SSocketListenerThread"), C2SSocketListenerThread.m_pSocketListener,
         The("C2SSocketInfo"), C2SSocketListener.m_dataHandling,
         C2SHttpDataHandlingImpl.m_listOfResourcePrototypes} \subseteq createServerRuntime
    BY DEF createServerRuntime, NewServer, NewRuntime, createSocketListener, C2SRuntime,
           C2SSocketListener, C2SSocketListenerThread, C2SHttpDataHandlingImpl, C2SHttpServer
  <2>3. lpc \in ListenerPCs /\ m_listOfResourcePrototypes \subseteq Range(Resources)
    BY DEF IInv, TypeInv, TypeOK, HeapInv, ObjectsInv
  <2>4. lpc \notin {"begin", "keep", "end", "ended"} =>
          {AcceptMutex(runs), AcceptThreadQueue(runs)} \subseteq heap
    BY <1>2, <2>1, <2>3 DEF HeapInv, PresentInv, QueuePCs
  <2>5. UNION {NewResource(Shared, x) : x \in m_listOfResourcePrototypes} \subseteq heap
    <3>1. UNION {NewResource(Shared, x) : x \in m_listOfResourcePrototypes} \subseteq createResources
      BY <2>3 DEF createResources
    <3>2. QED
      BY <2>1, <3>1
  <2>6. QED
    BY <1>2, <2>1, <2>2, <2>4, <2>5 DEF ListenerUses
<1>3. QED
  BY <1>1, <1>2

(* ... a handler what its run() shares, its clones and its request, ... *)
LEMMA HandlersFindTheirs ==
  ASSUME IInv, HeapInv, NEW h \in Handlers
  PROVE  HandlerUses(h) \subseteq heap
<1>1. PICK a : a = Current(h)
  OBVIOUS
<1>2. PICK U : U = IF C2SHttpRequest(a).m_pEntity \in heap THEN {C2SHttpEntity(a).data} ELSE {}
  OBVIOUS
<1>3. U \subseteq heap
  <2>1. a \in (0..MaxSockets) \X Handlers
    <3>1. runs \in 0..MaxSockets
      BY SocketListenerAssumption DEF IInv, TypeInv, TypeOK, HeapInv, RunsInv
    <3>2. QED
      BY <1>1, <3>1 DEF Current
  <2>2. QED
    BY <1>2, <2>1 DEF HeapInv, EntityInv, C2SHttpEntity
<1>4. CASE hpc[h] = "idle"
  BY <1>1, <1>2, <1>3, <1>4 DEF HandlerUses
<1>5. CASE hpc[h] # "idle"
  <2>1. ppc = "use" /\ createResources \subseteq heap
    BY <1>5, UsedInUse
  <2>2. lpc \in LoopPCs \cup {"join"} /\ m_acceptHandlers = NumThreads
    BY <1>5 DEF IInv, HandlerInv, ListeningPCs
  <2>3. h \in QueuedHandlers /\ h \in 1..m_acceptHandlers
    <3>1. h \in 1..NumThreads /\ NumThreads \in Nat
      BY SocketListenerAssumption DEF Handlers
    <3>2. QED
      BY <2>2, <3>1 DEF QueuedHandlers, LoopPCs
  <2>4. NewHandler(a, m_listOfResourcePrototypes) \subseteq heap
    BY <1>1, <2>1, <2>3 DEF HeapInv, PresentInv
  <2>5. {AcceptMutex(runs), AcceptThreadQueue(runs), Of("C2SThreadQueueRunner", a)} \subseteq heap
    <3>1. lpc \in QueuePCs
      BY <2>2 DEF QueuePCs, LoopPCs, ListenerPCs
    <3>2. QED
      BY <1>1, <2>1, <2>3, <3>1 DEF HeapInv, PresentInv
  <2>6. /\ C2SThreadQueueRunner(a).m_runnable = Of("C2SSocketAcceptHandler", a)
        /\ C2SThreadQueueRunner(a).m_pQueue = AcceptThreadQueue(runs)
        /\ C2SSocketAcceptHandler(a).m_acceptMutex = AcceptMutex(runs)
        /\ C2SHttpResourceManagerResponseHandler(a).m_pDataPush = Of("C2SSocketAcceptHandler", a)
    BY <1>1 DEF C2SThreadQueueRunner, C2SSocketAcceptHandler, Current,
                C2SHttpResourceManagerResponseHandler, C2SDataPullInterface
  <2>7. hpc[h] \in {"receive", "flush"} => C2SHttpDataPull(a).m_pRequest \in heap
    BY <1>1, <2>1 DEF HeapInv, PresentInv
  <2>8. /\ Of("C2SSocketAcceptHandler", a) \in heap
        /\ NewDataPull(a, m_listOfResourcePrototypes) \subseteq heap
        /\ Of("C2SHttpDataPull", a) \in heap
        /\ C2SHttpResourceManager(a).m_pResponseHandler \in heap
    <3>1. /\ Of("C2SSocketAcceptHandler", a) \in heap
          /\ NewDataPull(a, m_listOfResourcePrototypes) \subseteq heap
      BY <2>4 DEF NewHandler, createDataPullForDataPush
    <3>2. QED
      BY <3>1 DEF NewDataPull, NewResourceManager
  <2>9. UNION {C2SHttpResourcePrototype(a, x).m_pResponseHandler : x \in m_listOfResourcePrototypes}
          \subseteq heap
    BY <2>8 DEF C2SHttpResourcePrototype
  <2>10. pGlobalMutex \in heap
    BY <2>1 DEF createResources
  <2>11. PICK V, W : /\ V = NewDataPull(a, m_listOfResourcePrototypes)
                     /\ W = UNION {C2SHttpResourcePrototype(a, x).m_pResponseHandler :
                                     x \in m_listOfResourcePrototypes}
    OBVIOUS
  <2>12. HandlerUses(h) =
           {Of("C2SThreadQueueRunner", a), Of("C2SSocketAcceptHandler", a), AcceptThreadQueue(runs)}
           \cup (IF hpc[h] \in {"lock", "check", "accept"} THEN {AcceptMutex(runs)} ELSE {})
           \cup (IF hpc[h] \in {"receive", "flush"}
                 THEN {Of("C2SHttpDataPull", a), C2SHttpDataPull(a).m_pRequest} ELSE {})
           \cup (IF hpc[h] = "flush"
                 THEN V \cup {Of("C2SSocketAcceptHandler", a), pGlobalMutex} \cup W ELSE {})
           \cup U
    BY <1>1, <1>2, <1>5, <2>6, <2>11 DEF HandlerUses
  <2>13. QED
    BY <1>3, <2>5, <2>7, <2>8, <2>9, <2>10, <2>11, <2>12
<1>6. QED
  BY <1>4, <1>5

(* ... and a destructor what no other has deleted. *)
LEMMA DestructorsFindTheirs ==
  ASSUME HeapInv
  PROVE  DestructorUses \subseteq heap
<1>1. \A i \in DOMAIN todo : Possible(todo[i], heap, m_listOfResourcePrototypes)
  BY DEF HeapInv, TodoInv, Range
<1>2. ASSUME NEW i \in DOMAIN todo
      PROVE  todo[i][2] \in heap \cup {pthread(NoThread)}
  <2>1. CASE todo[i][1] = "clear"
    <3>1. PICK j \in DOMAIN todo : todo[j] = Delete(todo[i][2])
      BY <2>1 DEF HeapInv, TodoInv, ClearsThenDeletes
    <3>2. Targets(todo[j], m_listOfResourcePrototypes) = {todo[i][2]} /\ todo[j][1] # "detach"
      BY <3>1 DEF Delete, Targets
    <3>3. QED
      BY <1>1, <3>2 DEF Possible
  <2>2. CASE todo[i][1] # "clear"
    BY <1>1, <2>2 DEF Possible, Targets
  <2>3. QED
    BY <2>1, <2>2
<1>3. todo # <<>> /\ Head(todo)[1] = "clear" => PrototypesIn(Head(todo)[2]) \subseteq heap
  <2>1. SUFFICES ASSUME todo # <<>>, Head(todo)[1] = "clear"
                 PROVE  PrototypesIn(Head(todo)[2]) \subseteq heap
    OBVIOUS
  <2>2. 1 \in DOMAIN todo /\ Head(todo) = todo[1]
    BY <2>1 DEF HeapInv, ObjectsInv
  <2>3. Targets(todo[1], m_listOfResourcePrototypes) = PrototypesIn(todo[1][2])
    BY <2>1, <2>2 DEF Targets, PrototypesIn
  <2>4. QED
    BY <1>1, <2>1, <2>2, <2>3 DEF Possible
<1>4. PICK U : U = {todo[i][2] : i \in DOMAIN todo} \ {pthread(NoThread)}
  OBVIOUS
<1>5. PICK V : V = IF todo # <<>> /\ Head(todo)[1] = "clear" THEN PrototypesIn(Head(todo)[2]) ELSE {}
  OBVIOUS
<1>6. U \subseteq heap
  BY <1>2, <1>4
<1>7. V \subseteq heap
  BY <1>3, <1>5
<1>8. DestructorUses = U \cup V
  BY <1>4, <1>5, Zenon DEF DestructorUses
<1>9. QED
  BY <1>6, <1>7, <1>8

(* No thread and no destructor uses an object that is deleted. *)
THEOREM NothingIsUsedAfterDelete ==
  ASSUME ~EarlyShutdown, ~SecondStart
  PROVE  ServerSpec => []NoUseAfterDelete
<1>1. IInv /\ HeapInv => NoUseAfterDelete
  BY CallersFindTheirs, ListenerFindsItsOwn, HandlersFindTheirs, DestructorsFindTheirs
     DEF NoUseAfterDelete
<1>2. QED
  BY <1>1, HeapInvariance, PTL

-----------------------------------------------------------------------------
(* Nothing leaks: every object that lives is kept by somebody. *)

(* What the program has from the start has an owner from the start, but for *)
(* the fixture and what the server has not been given.                      *)
LEMMA StartOwners ==
  ASSUME NEW o \in createResources \cup createServerRuntime, o # The("C2STestRestFixture"),
         NEW objects, NEW handlers, NEW threads, NEW S
  PROVE  \/ o \in UNION {NewResource(Shared, x) : x \in Range(Resources) \ S}
         \/ /\ OwnerOf(o) \in createResources \cup createServerRuntime
            /\ o \in Owns(OwnerOf(o), objects, handlers, threads, S)
<1>1. PICK R : R = UNION {NewResource(Shared, x) : x \in Range(Resources)}
  OBVIOUS
<1>2. createResources \cup createServerRuntime = Program \cup R
  BY <1>1, StartObjects
<1>3. CASE o \in Program
  BY <1>2, <1>3, ProgramOwners
<1>4. ASSUME NEW x \in Range(Resources), o \in NewResource(Shared, x), x \in S
      PROVE  /\ OwnerOf(o) \in Program \cup R
             /\ o \in Owns(OwnerOf(o), objects, handlers, threads, S)
  <2>1. CASE o = RestResource(Shared, x)
    <3>1. PICK s : s = The("C2SHttpServer")
      OBVIOUS
    <3>2. OwnerOf(o) = s
      BY <2>1, <3>1 DEF OwnerOf, RestResource, Object, ClassOf, HandlerOf
    <3>3. s \in Program
      BY <3>1 DEF Program, NewServer
    <3>4. C2SHttpResourcePrototypeList(C2SHttpServer.m_pHttpResourcePrototypes, S)
            = [m_listOfResourcePrototypes |-> {RestResource(Shared, y) : y \in S}]
      BY DEF C2SHttpResourcePrototypeList, C2SHttpServer, The, Object, HandlerOf
    <3>5. ClassOf(s) = "C2SHttpServer"
      BY <3>1 DEF The, Object, ClassOf
    <3>6. o \in Owns(s, objects, handlers, threads, S)
      BY <1>4, <2>1, <3>4, <3>5 DEF Owns
    <3>7. QED
      BY <3>2, <3>3, <3>6
  <2>2. CASE o # RestResource(Shared, x)
    <3>1. /\ OwnerOf(o) \in NewResource(Shared, x)
          /\ o \in Owns(OwnerOf(o), objects, handlers, threads, S)
      BY <1>4, <2>2, ResourceOwners
    <3>2. NewResource(Shared, x) \subseteq R
      BY <1>1
    <3>3. QED
      BY <3>1, <3>2
  <2>3. QED
    BY <2>1, <2>2
<1>5. CASE o \in R
  BY <1>1, <1>2, <1>4, <1>5
<1>6. QED
  BY <1>2, <1>3, <1>5

(* While no destructor is under way an object keeps its owner. *)
LEMMA StaysOwned ==
  ASSUME IInv, HeapInv, HeapInv', [ServerNext]_allVars, ~ProgramNext, ppc = "use", ppc' = "use",
         m_listOfResourcePrototypes' = m_listOfResourcePrototypes,
         NEW o \in heap, o \in heap', HasOwner(o)
  PROVE  HasOwner(o)'
<1>1. PICK q : q = OwnerOf(o)
  OBVIOUS
<1>2. q \in heap /\ o \in Owned(q)
  BY <1>1 DEF HasOwner
<1>3. q \in heap'
  <2>1. SUFFICES ASSUME q \notin heap' PROVE FALSE
    OBVIOUS
  <2>2. Passing(q)
    BY <1>2, <2>1, GoesInUse DEF HeapInv
  <2>3. ClassOf(q) \in LeafClasses
    BY <2>2 DEF Passing, LeafClasses
  <2>4. QED
    BY <1>2, <2>3, LeavesOwnNothing DEF Owned
<1>4. todo' = <<>>
  BY DEF HeapInv, ProgramInv
<1>5. ~Opened(q)'
  BY <1>4 DEF Opened, Range
<1>6. runs \in Nat /\ runs' \in Nat /\ runs <= runs'
  <2>1. runs \in Nat /\ (runs' = runs \/ runs' = runs + 1)
    BY ThreadStepFacts, QueueStepFacts, RequestStepFacts, ServerStepKinds
       DEF lifeVars, HeapInv, RunsInv
  <2>2. QED
    BY <2>1
<1>7. o \in AcceptHandlers => o \in AcceptHandlers'
  <2>1. SUFFICES ASSUME o \in AcceptHandlers PROVE o \in AcceptHandlers'
    OBVIOUS
  <2>2. PICK r \in 1..runs, h \in Handlers : o = Of("C2SSocketAcceptHandler", <<r, h>>)
    BY <2>1 DEF AcceptHandlers
  <2>3. r \in 1..runs'
    BY <1>6
  <2>4. QED
    BY <2>2, <2>3 DEF AcceptHandlers
<1>8. o \in Thread => o \in Thread'
  <2>1. SUFFICES ASSUME o \in Thread PROVE o \in Thread'
    OBVIOUS
  <2>2. CASE m_pthread' = m_pthread
    BY <2>1, <2>2 DEF Thread
  <2>3. CASE m_pthread' # m_pthread
    <3>1. PICK c \in Callers : ThreadSteps(c)
      BY <2>3, QueueStepFacts, RequestStepFacts, ServerStepKinds DEF lifeVars
    <3>2. cpc[c] = "s_test" /\ m_pthread' = Len(sockets)
      BY <2>1, <2>3, <3>1, ThreadStepFacts
    <3>3. o = pthread(m_pthread')
      BY <2>1, <3>1, <3>2, ThreadStepFacts
    <3>4. Len(sockets) # 0
      BY <3>2 DEF HeapInv, RunsInv, CallerIn
    <3>5. QED
      BY <3>2, <3>3, <3>4 DEF Thread
  <2>4. QED
    BY <2>2, <2>3
<1>9. o \in Owned(q)'
  BY <1>2, <1>7, <1>8, OwnsKept DEF Owned
<1>10. QED
  BY <1>1, <1>3, <1>5, <1>9 DEF HasOwner

(* What comes while the server is used has an owner, or is the run()'s. *)
LEMMA ComesOwned ==
  ASSUME IInv, HeapInv, HeapInv', [ServerNext]_allVars, ~ProgramNext, ppc = "use", ppc' = "use",
         m_listOfResourcePrototypes' = m_listOfResourcePrototypes,
         NEW o \in heap', o \notin heap
  PROVE  Kept(o)'
<1>1. todo' = <<>> /\ createServerRuntime \subseteq heap'
  BY DEF HeapInv, ProgramInv, PresentInv
<1>2. \A q : ~Opened(q)'
  BY <1>1 DEF Opened, Range
<1>3. {The("C2SSocketListener"), The("C2SSocketListenerThread")} \subseteq heap'
  BY <1>1 DEF createServerRuntime, NewServer, NewRuntime, createSocketListener, C2SRuntime
<1>4. runs \in Nat /\ NumThreads \in Nat /\ m_acceptHandlers \in 0..NumThreads
  BY SocketListenerAssumption DEF HeapInv, RunsInv, IInv, TypeInv, TypeOK
<1>5. ASSUME NEW c \in Callers, ThreadSteps(c) PROVE HasOwner(o)'
  <2>1. /\ o = pthread(Len(sockets)) /\ m_pthread' = Len(sockets)
        /\ cpc[c] = "s_test"
    BY <1>5, ThreadStepFacts
  <2>2. Len(sockets) # 0
    BY <2>1 DEF HeapInv, RunsInv, CallerIn
  <2>3. o \in Thread'
    BY <2>1, <2>2 DEF Thread
  <2>4. OwnerOf(o) = The("C2SSocketListenerThread")
    BY <2>1 DEF pthread, OwnerOf, Object, ClassOf
  <2>5. o \in Owned(The("C2SSocketListenerThread"))'
    BY <2>3 DEF Owned, Owns, The, Object, ClassOf
  <2>6. QED
    BY <1>2, <1>3, <2>4, <2>5 DEF HasOwner
<1>6. CASE QueueSteps
  <2>1. CASE /\ lpc' = "create" /\ runs' = runs + 1
             /\ heap' = heap \cup {AcceptMutex(runs + 1), AcceptThreadQueue(runs + 1)}
    <3>1. lpc' \in QueuePCs
      BY <2>1 DEF QueuePCs, ListenerPCs
    <3>2. o \in RunObjects'
      BY <2>1 DEF RunObjects
    <3>3. QED
      BY <3>1, <3>2 DEF Kept
  <2>2. CASE /\ lpc = "create" /\ runs' = runs
             /\ m_acceptHandlers + 1 \in Handlers
             /\ heap' = heap \cup NewHandler(<<runs, m_acceptHandlers + 1>>,
                                             m_listOfResourcePrototypes)
    <3>1. PICK a, S : a = <<runs, m_acceptHandlers + 1>> /\ S = m_listOfResourcePrototypes
      OBVIOUS
    <3>2. o \in NewHandler(a, S) /\ NewHandler(a, S) \subseteq heap'
      BY <2>2, <3>1
    <3>3. runs # 0
      BY <2>2 DEF HeapInv, RunsInv, NotRunningPCs
    <3>4. a # Shared /\ S \in SUBSET Range(Resources)
      BY <3>1, <3>3 DEF Shared, HeapInv, ObjectsInv
    <3>5. CASE o = Of("C2SSocketAcceptHandler", a)
      <4>1. OwnerOf(o) = The("C2SSocketListener")
        BY <3>5 DEF OwnerOf, Of, Object, ClassOf
      <4>2. o \in AcceptHandlers'
        <5>1. runs \in 1..runs'
          BY <1>4, <2>2, <3>3
        <5>2. QED
          BY <2>2, <3>1, <3>5, <5>1 DEF AcceptHandlers
      <4>3. o \in Owned(The("C2SSocketListener"))'
        BY <4>2 DEF Owned, Owns, The, Object, ClassOf
      <4>4. QED
        BY <1>2, <1>3, <4>1, <4>3 DEF HasOwner, Kept
    <3>6. CASE o # Of("C2SSocketAcceptHandler", a)
      <4>1. OwnerOf(o) \in NewHandler(a, S) /\ o \in Owned(OwnerOf(o))'
        BY <3>1, <3>2, <3>4, <3>6, HandlerOwners DEF Owned
      <4>2. QED
        BY <1>2, <3>2, <4>1 DEF HasOwner, Kept
    <3>7. QED
      BY <3>5, <3>6
  <2>3. CASE /\ lpc = "queue" /\ lpc' \in {"listen", "create"} /\ runs' = runs
             /\ heap' = heap \cup {Of("C2SThreadQueueRunner", <<runs, m_acceptHandlers>>)}
    <3>1. lpc' \in QueuePCs
      BY <2>3 DEF QueuePCs, ListenerPCs
    <3>2. m_acceptHandlers # 0
      BY <2>3 DEF IInv, TypeInv, TypeOK
    <3>3. m_acceptHandlers \in Handlers
      BY <1>4, <3>2 DEF Handlers
    <3>4. o \in RunObjects'
      BY <2>3, <3>3 DEF RunObjects, C2SThreadQueue
    <3>5. QED
      BY <3>1, <3>4 DEF Kept
  <2>4. QED
    BY <1>6, <2>1, <2>2, <2>3, QueueStepFacts
<1>7. ASSUME NEW h \in Handlers, RequestSteps(h) PROVE HasOwner(o)'
  <2>1. PICK a : a = <<runs, h>>
    OBVIOUS
  <2>2. runs' = runs /\ m_acceptHandlers' = m_acceptHandlers
    BY <1>7, RequestStepFacts
  <2>3. m_acceptHandlers = NumThreads
    <3>1. hpc[h] # "idle"
      BY <1>7, RequestStepFacts
    <3>2. QED
      BY <3>1 DEF IInv, HandlerInv, ListeningPCs
  <2>4. Of("C2SHttpDataPull", a) \in heap'
    <3>1. h \in 1..m_acceptHandlers'
      BY <2>2, <2>3 DEF Handlers
    <3>2. NewHandler(a, m_listOfResourcePrototypes) \subseteq heap'
      BY <2>1, <2>2, <3>1 DEF HeapInv, PresentInv, Current
    <3>3. QED
      BY <3>2 DEF NewHandler, createDataPullForDataPush, NewDataPull
  <2>5. \/ o = C2SHttpDataPull(a).m_pRequest
        \/ /\ o = C2SHttpParser(a).m_body \/ o = C2SHttpRequest(a).m_pEntity
           /\ hpc[h] \in {"receive", "flush"} /\ heap \subseteq heap'
    BY <1>7, <2>1, RequestStepFacts
  <2>6. CASE o = C2SHttpDataPull(a).m_pRequest
    <3>1. OwnerOf(o) = Of("C2SHttpDataPull", a)
      BY <2>6 DEF OwnerOf, C2SHttpDataPull, Of, Object, ClassOf, HandlerOf
    <3>2. o \in Owned(Of("C2SHttpDataPull", a))'
      BY <2>6 DEF Owned, Owns, C2SHttpDataPull, Of, Object, ClassOf, HandlerOf
    <3>3. QED
      BY <1>2, <2>4, <3>1, <3>2 DEF HasOwner
  <2>7. CASE /\ o = C2SHttpParser(a).m_body \/ o = C2SHttpRequest(a).m_pEntity
             /\ hpc[h] \in {"receive", "flush"} /\ heap \subseteq heap'
    <3>1. Of("C2SHttpRequest", a) \in heap'
      <4>1. C2SHttpDataPull(a).m_pRequest \in heap
        BY <2>1, <2>7 DEF HeapInv, PresentInv, Current
      <4>2. QED
        BY <2>7, <4>1 DEF C2SHttpDataPull
    <3>2. OwnerOf(o) = Of("C2SHttpRequest", a)
      BY <2>7 DEF OwnerOf, C2SHttpParser, C2SHttpRequest, Of, Object, ClassOf, HandlerOf
    <3>3. o \in Owned(Of("C2SHttpRequest", a))'
      BY <2>7 DEF Owned, Owns, C2SHttpParser, C2SHttpRequest, Of, Object, ClassOf, HandlerOf
    <3>4. QED
      BY <1>2, <3>1, <3>2, <3>3 DEF HasOwner
  <2>8. QED
    BY <2>5, <2>6, <2>7
<1>8. heap' # heap
  OBVIOUS
<1>9. QED
  BY <1>5, <1>6, <1>7, <1>8, ServerStepKinds DEF lifeVars, Kept

(* What `delete' adds to what is to be done ... *)
LEMMA DeleteChanges ==
  ASSUME ObjectsInv, TodoInv, ppc = "delete", todo # <<>>, NEW o, NEW ops, NEW rest,
         Head(todo) = Delete(o), rest = Tail(todo),
         Orderly(ops, Objects, Owned(o), Thread, heap, m_listOfResourcePrototypes),
         todo' = ops \o <<Free(o)>> \o rest,
         m_listOfResourcePrototypes' = m_listOfResourcePrototypes
  PROVE  /\ Doomed' = Owned(o) \cup {o} \cup AllTargets(rest, m_listOfResourcePrototypes)
         /\ Range(todo') = Range(ops) \cup {Free(o)} \cup Range(rest)
         /\ \A q : Free(q) \notin Range(ops)
<1> DEFINE L == m_listOfResourcePrototypes
<1>1. PICK T, f : T = OpKinds \X Objects /\ f = <<Free(o)>>
  OBVIOUS
<1>2. Head(todo) \in T /\ rest \in Seq(T)
  BY <1>1, FirstInTodo
<1>3. f \in Seq(T) /\ Range(f) = {Free(o)} /\ AllTargets(f, L) = {o}
  <2>1. o \in Objects
    BY <1>1, <1>2 DEF Delete
  <2>2. Free(o) \in T
    BY <1>1, <2>1 DEF Free, OpKinds
  <2>3. f \in Seq(T) /\ DOMAIN f = {1} /\ f[1] = Free(o)
    BY <1>1, <2>2
  <2>4. Targets(Free(o), L) = {o}
    BY DEF Targets, Free
  <2>5. QED
    BY <2>3, <2>4 DEF Range, AllTargets
<1>4. ops \in Seq(T) /\ AllTargets(ops, L) = Owned(o) /\ \A q : Free(q) \notin Range(ops)
  BY <1>1 DEF Orderly, Range, Free
<1>5. PICK s : s = ops \o f
  OBVIOUS
<1>6. /\ s \in Seq(T) /\ Range(s) = Range(ops) \cup {Free(o)}
      /\ AllTargets(s, L) = Owned(o) \cup {o}
  BY <1>3, <1>4, <1>5, ConcatFacts
<1>7. todo' = s \o rest
  BY <1>1, <1>5
<1>8. /\ Range(todo') = Range(ops) \cup {Free(o)} \cup Range(rest)
      /\ AllTargets(todo', L) = Owned(o) \cup {o} \cup AllTargets(rest, L)
  <2>1. /\ Range(s \o rest) = Range(s) \cup Range(rest)
        /\ AllTargets(s \o rest, L) = AllTargets(s, L) \cup AllTargets(rest, L)
    BY <1>2, <1>6, ConcatFacts
  <2>2. QED
    BY <1>6, <1>7, <2>1
<1>9. QED
  BY <1>4, <1>8 DEF Doomed

(* ... and the end of a list does not. *)
LEMMA ClearChanges ==
  ASSUME ObjectsInv, TodoInv, ClearList
  PROVE  /\ Doomed' = Doomed
         /\ \A q : Opened(q)' <=> Opened(q)
<1> DEFINE L == m_listOfResourcePrototypes
<1>1. PICK protos, rest : protos = PrototypesIn(Head(todo)[2]) /\ rest = Tail(todo)
  OBVIOUS
<1>2. /\ IsFiniteSet(protos) /\ protos \subseteq heap
      /\ Targets(Head(todo), L) = protos
      /\ Head(todo)[1] = "clear"
      /\ todo' = DeleteAll(protos) \o rest
      /\ ppc = "delete" /\ todo # <<>>
      /\ L' = L
  BY <1>1, ClearFacts
<1>3. PICK d, T : d = DeleteAll(protos) /\ T = OpKinds \X Objects
  OBVIOUS
<1>4. /\ rest \in Seq(T) /\ Range(todo) = {Head(todo)} \cup Range(rest)
      /\ Doomed = protos \cup AllTargets(rest, L)
  BY <1>1, <1>2, <1>3, FirstInTodo
<1>5. d \in Seq(T) /\ AllTargets(d, L) = protos /\ Range(d) = {Delete(o) : o \in protos}
  <2>1. /\ d \in Seq({Delete(o) : o \in protos}) /\ AllTargets(d, L) = protos
        /\ Range(d) = {Delete(o) : o \in protos}
    BY <1>2, <1>3, DeleteAllFacts
  <2>2. {Delete(o) : o \in protos} \subseteq T
    BY <1>2, <1>3 DEF Delete, OpKinds, ObjectsInv
  <2>3. QED
    BY <2>1, <2>2, SeqMonotonic
<1>6. /\ Range(todo') = Range(d) \cup Range(rest)
      /\ AllTargets(todo', L) = protos \cup AllTargets(rest, L)
  <2>1. todo' = d \o rest
    BY <1>2, <1>3
  <2>2. QED
    BY <1>4, <1>5, <2>1, ConcatFacts
<1>7. Doomed' = Doomed
  BY <1>2, <1>4, <1>6 DEF Doomed
<1>8. \A q : Free(q) # Head(todo) /\ \A o : Free(q) # Delete(o)
  BY <1>2 DEF Free, Delete
<1>9. \A q : Opened(q)' <=> Opened(q)
  BY <1>4, <1>5, <1>6, <1>8 DEF Opened
<1>10. QED
  BY <1>7, <1>9

(* A run() has the mutex, the queue and its runners until it deletes them. *)
LEMMA RunKeeps ==
  ASSUME IInv, HeapInv, [ServerNext]_allVars, ~ProgramNext,
         lpc \in QueuePCs, NEW o \in RunObjects, o \in heap'
  PROVE  lpc' \in QueuePCs /\ o \in RunObjects'
<1> USE DEF QueuePCs, ListenerPCs
<1>1. ASSUME NEW c \in Callers, ThreadSteps(c)
      PROVE  lpc' = lpc /\ runs' = runs
  <2>1. cpc[c] \notin {"s_test", "r_connect"}
    BY DEF IInv, PhaseInv, CallerIn
  <2>2. QED
    BY <1>1, <2>1, ThreadStepFacts
<1>2. CASE QueueSteps
  <2>1. lpc # "keep"
    OBVIOUS
  <2>2. lpc # "joined"
    <3>1. SUFFICES ASSUME lpc = "joined" PROVE FALSE
      OBVIOUS
    <3>2. heap' = heap \ ({AcceptThreadQueue(runs), AcceptMutex(runs)}
                          \cup {Of("C2SThreadQueueRunner", <<runs, h>>) : h \in Handlers})
      BY <1>2, <3>1, QueueStepFacts
    <3>3. QED
      BY <3>2 DEF RunObjects, C2SThreadQueue
  <2>3. runs' = runs /\ lpc' \in QueuePCs
    BY <1>2, <2>1, <2>2, QueueStepFacts
  <2>4. QED
    BY <2>3 DEF RunObjects
<1>3. ASSUME NEW h \in Handlers, RequestSteps(h)
      PROVE  lpc' = lpc /\ runs' = runs
  BY <1>3, RequestStepFacts
<1>4. CASE (QuietSteps \/ UNCHANGED vars) /\ UNCHANGED lifeVars
  <2>1. lpc' \in QueuePCs /\ runs' = runs
    BY <1>4, QuietFacts DEF IInv, TypeInv, lifeVars
  <2>2. QED
    BY <2>1 DEF RunObjects
<1>5. QED
  BY <1>1, <1>2, <1>3, <1>4, ServerStepKinds DEF RunObjects

(* What no destructor has deleted and nobody has refused has an owner. *)
LEMMA OwnedStep ==
  ASSUME IInv, HeapInv, HeapInv', OwnedInv, [ServerNext]_allVars
  PROVE  OwnedInv'
<1> DEFINE L == m_listOfResourcePrototypes
<1>1. SUFFICES ASSUME NEW p \in heap' PROVE Kept(p)'
  BY DEF OwnedInv
<1>2. p \in heap => Kept(p)
  BY DEF OwnedInv
<1>3. ppc' # "delete" => Doomed' = {} /\ \A q : ~Opened(q)'
  BY DEF HeapInv, ProgramInv, Doomed, AllTargets, Opened, Range
<1>4. ppc # "delete" => Doomed = {} /\ \A q : ~Opened(q)
  BY DEF HeapInv, ProgramInv, Doomed, AllTargets, Opened, Range
<1>5. CASE CreateServer \/ RegisterResource
  <2>1. ppc' = "register"
    BY <1>5 DEF CreateServer, RegisterResource
  <2>2. /\ heap' \subseteq createResources \cup Statics \cup createServerRuntime
        /\ createResources \cup createServerRuntime \subseteq heap'
    BY <2>1 DEF HeapInv, ProgramInv, PresentInv
  <2>3. CASE p \in Statics
    BY <2>3 DEF Kept, Left
  <2>4. CASE p = The("C2STestRestFixture")
    BY <2>1, <2>4 DEF Kept
  <2>5. CASE p \in createResources \cup createServerRuntime /\ p # The("C2STestRestFixture")
    <3>1. \/ p \in UNION {NewResource(Shared, x) : x \in Range(Resources) \ L'}
          \/ /\ OwnerOf(p) \in createResources \cup createServerRuntime
             /\ p \in Owned(OwnerOf(p))'
      BY <2>5, StartOwners DEF Owned
    <3>2. QED
      BY <1>3, <2>1, <2>2, <3>1 DEF Kept, Left, HasOwner
  <2>6. QED
    BY <2>2, <2>3, <2>4, <2>5
<1>6. CASE UseServer \/ ServerIsGone
  <2>1. /\ UNCHANGED <<heap, L, runs, m_pthread, todo, lpc>>
        /\ ppc' \in {"delete", "gone"} => ppc \in {"delete", "gone"}
        /\ ppc = "register" \/ ppc = "delete"
    BY <1>6 DEF UseServer, ServerIsGone, vars
  <2>2. Kept(p)
    BY <1>2, <2>1
  <2>3. ppc = "delete" => ppc' \in {"delete", "gone"}
    BY <1>6 DEF UseServer, ServerIsGone
  <2>4. UNCHANGED <<Left, Doomed, HasOwner(p), RunObjects>>
    BY <2>1 DEF Left, Doomed, HasOwner, RunObjects, Owned, Opened, AcceptHandlers, Thread
  <2>5. (ppc \notin {"delete", "gone"}) = (ppc' \notin {"delete", "gone"})
    BY <1>6 DEF UseServer, ServerIsGone
  <2>6. QED
    BY <2>1, <2>2, <2>4, <2>5 DEF Kept
<1>7. CASE DeleteServer
  <2>1. PICK f : f = The("C2STestRestFixture")
    OBVIOUS
  <2>2. /\ ppc = "use" /\ UNCHANGED <<heap, L, runs, m_pthread, lpc>>
        /\ todo' = <<Delete(f)>>
    BY <1>7, <2>1 DEF DeleteServer, vars
  <2>3. Doomed' = {f} /\ \A q : ~Opened(q)'
    <3>1. Range(todo') = {Delete(f)}
      BY <2>2 DEF Range
    <3>2. QED
      BY <2>2, <3>1 DEF Doomed, AllTargets, Targets, Delete, Free, Opened
  <2>4. Kept(p) /\ Doomed = {}
    BY <1>2, <1>4, <2>2
  <2>5. CASE p = f
    BY <2>3, <2>5 DEF Kept
  <2>6. CASE p # f
    <3>1. HasOwner(p) => HasOwner(p)'
      BY <2>2, <2>3 DEF HasOwner, Owned, AcceptHandlers, Thread
    <3>2. QED
      BY <2>1, <2>2, <2>4, <2>6, <3>1 DEF Kept, Left, RunObjects
  <2>7. QED
    BY <2>5, <2>6
<1>8. CASE DeleteObject
  <2>1. PICK o, ops, rest :
           /\ Head(todo) = Delete(o)
           /\ o \in Doomed
           /\ rest = Tail(todo)
           /\ Orderly(ops, Objects, Owned(o), Thread, heap, L)
           /\ todo' = ops \o <<Free(o)>> \o rest
           /\ ppc = "delete" /\ todo # <<>>
           /\ UNCHANGED <<vars, heap, ppc, handed, m_listOfResourcePrototypes, isDown, runs, m_pthread>>
    BY <1>8, DeleteFacts DEF HeapInv
  <2>2. /\ Doomed' = Owned(o) \cup {o} \cup AllTargets(rest, L)
        /\ Range(todo') = Range(ops) \cup {Free(o)} \cup Range(rest)
        /\ \A q : Free(q) \notin Range(ops)
    BY <1>8, <2>1, DeleteChanges DEF HeapInv
  <2>3. Doomed = {o} \cup AllTargets(rest, L) /\ Range(todo) = {Delete(o)} \cup Range(rest)
    <3>1. Targets(Delete(o), L) = {o}
      BY DEF Targets, Delete
    <3>2. QED
      BY <2>1, <3>1, FirstInTodo DEF HeapInv
  <2>4. \A q : Opened(q)' => q = o \/ Opened(q)
    BY <2>2, <2>3 DEF Opened, Free
  <2>5. Kept(p) /\ lpc' = lpc
    BY <1>2, <2>1 DEF vars
  <2>6. HasOwner(p) => HasOwner(p)' \/ p \in Doomed'
    BY <2>1, <2>2, <2>4 DEF HasOwner, Owned, AcceptHandlers, Thread
  <2>7. p \in Doomed => p \in Doomed'
    BY <2>2, <2>3
  <2>8. QED
    BY <2>1, <2>5, <2>6, <2>7 DEF Kept, Left, RunObjects
<1>9. CASE FreeObject
  <2>1. PICK o, rest : o = Head(todo)[2] /\ rest = Tail(todo)
    OBVIOUS
  <2>2. /\ Targets(Head(todo), L) = {o}
        /\ \/ Head(todo) = Detach(o) /\ ClassOf(o) = "pthread_t"
           \/ Head(todo) = Free(o)
           \/ Head(todo) = Delete(o) /\ Owned(o) = {}
        /\ heap' = heap \ {o} /\ todo' = rest
        /\ ppc = "delete" /\ todo # <<>>
        /\ UNCHANGED <<vars, ppc, handed, m_listOfResourcePrototypes, isDown, runs, m_pthread>>
    BY <1>9, <2>1, FreeFacts DEF HeapInv
  <2>3. Range(todo) = {Head(todo)} \cup Range(rest) /\ Doomed = {o} \cup AllTargets(rest, L)
    BY <2>1, <2>2, FirstInTodo DEF HeapInv
  <2>4. p \in heap /\ p # o /\ Kept(p) /\ lpc' = lpc
    BY <1>2, <2>2 DEF vars
  <2>5. p \in Doomed => p \in Doomed'
    BY <2>2, <2>3, <2>4 DEF Doomed
  <2>6. ASSUME HasOwner(p) PROVE HasOwner(p)'
    <3>1. PICK q : q = OwnerOf(p)
      OBVIOUS
    <3>2. q \in heap /\ ~Opened(q) /\ p \in Owned(q)
      BY <2>6, <3>1 DEF HasOwner
    <3>3. q # o
      <4>1. Head(todo) = Free(o) => Opened(o)
        BY <2>3 DEF Opened
      <4>2. ClassOf(o) = "pthread_t" => Owned(o) = {}
        BY LeavesOwnNothing DEF Owned, LeafClasses
      <4>3. QED
        BY <2>2, <3>2, <4>1, <4>2
    <3>4. q \in heap' /\ ~Opened(q)'
      BY <2>2, <2>3, <3>2, <3>3 DEF Opened
    <3>5. p \in AcceptHandlers => p \in AcceptHandlers'
      BY <2>2 DEF AcceptHandlers
    <3>6. Thread' = Thread
      BY <2>2 DEF Thread
    <3>7. p \in Owned(q)'
      BY <2>2, <3>2, <3>5, <3>6, OwnsKept DEF Owned
    <3>8. QED
      BY <3>1, <3>4, <3>7 DEF HasOwner
  <2>7. QED
    BY <2>2, <2>4, <2>5, <2>6 DEF Kept, Left, RunObjects
<1>10. CASE ClearList
  <2>1. PICK protos, rest : protos = PrototypesIn(Head(todo)[2]) /\ rest = Tail(todo)
    OBVIOUS
  <2>2. /\ ppc = "delete" /\ todo # <<>>
        /\ UNCHANGED <<vars, heap, ppc, handed, m_listOfResourcePrototypes, isDown, runs, m_pthread>>
    BY <1>10, <2>1, ClearFacts DEF HeapInv
  <2>3. Doomed' = Doomed /\ \A q : Opened(q)' => Opened(q)
    BY <1>10, ClearChanges DEF HeapInv
  <2>4. Kept(p) /\ lpc' = lpc
    BY <1>2, <2>2 DEF vars
  <2>5. HasOwner(p) => HasOwner(p)'
    BY <2>2, <2>3 DEF HasOwner, Owned, AcceptHandlers, Thread
  <2>6. QED
    BY <2>2, <2>3, <2>4, <2>5 DEF Kept, Left, RunObjects
<1>11. CASE ~ProgramNext /\ ppc = "use"
  <2>1. ppc' = ppc /\ L' = L
    BY <1>11, ThreadStepFacts, QueueStepFacts, RequestStepFacts, ServerStepKinds DEF lifeVars
  <2>2. CASE p \notin heap
    BY <1>11, <2>1, <2>2, ComesOwned
  <2>3. CASE p \in heap /\ HasOwner(p)
    BY <1>11, <2>1, <2>3, StaysOwned DEF Kept
  <2>4. CASE p \in heap /\ p \in RunObjects /\ lpc \in QueuePCs
    BY <1>11, <2>4, RunKeeps DEF Kept
  <2>5. CASE p \in heap /\ (p \in Left \/ p = The("C2STestRestFixture"))
    BY <1>11, <2>1, <2>5 DEF Kept, Left
  <2>6. QED
    BY <1>2, <1>4, <1>11, <2>2, <2>3, <2>4, <2>5 DEF Kept
<1>12. CASE ~ProgramNext /\ ppc # "use"
  <2>1. UNCHANGED lifeVars /\ lpc' = lpc
    BY <1>12, OnlyInUse, ServerStepKinds DEF HeapInv
  <2>2. QED
    BY <1>2, <2>1 DEF lifeVars, Kept, Left, Doomed, HasOwner, RunObjects, Owned, Opened,
                      AcceptHandlers, Thread
<1>13. QED
  BY <1>5, <1>6, <1>7, <1>8, <1>9, <1>10, <1>11, <1>12 DEF ProgramNext

(* What the server has refused stays the program's. *)
LEMMA LeftStep ==
  ASSUME IInv, HeapInv, HeapInv', LeftInv, [ServerNext]_allVars
  PROVE  LeftInv'
<1> DEFINE L == m_listOfResourcePrototypes
<1>1. /\ ppc' \in ProgramPCs /\ ppc \in ProgramPCs /\ L \subseteq Range(Resources)
      /\ \A o \in heap : Named(o)
      /\ \A h \in AcceptHandlers : ClassOf(h) = "C2SSocketAcceptHandler"
      /\ \A t \in Thread : ClassOf(t) = "pthread_t"
  BY ObjectsAreNamed, HandlersAndThread DEF HeapInv, ObjectsInv
<1>2. \A o \in Left : o \in Statics \/ \E x \in Range(Resources) \ L : o \in NewResource(Shared, x)
  BY DEF Left
<1>3. CASE ppc' \in {"create", "register", "use"}
  <2>1. createResources \cup Statics \subseteq heap'
    BY <1>3 DEF HeapInv, PresentInv
  <2>2. Left' \subseteq createResources \cup Statics
    BY DEF Left, createResources
  <2>3. Doomed' = {}
    BY <1>3 DEF HeapInv, ProgramInv, Doomed, AllTargets
  <2>4. QED
    BY <2>1, <2>2, <2>3 DEF LeftInv
<1>4. CASE DeleteServer
  <2>1. PICK f : f = The("C2STestRestFixture")
    OBVIOUS
  <2>2. UNCHANGED <<heap, L>> /\ todo' = <<Delete(f)>>
    BY <1>4, <2>1 DEF DeleteServer
  <2>3. Doomed' = {f}
    BY <2>2 DEF Doomed, AllTargets, Targets, Delete
  <2>4. f \notin Left
    <3>1. ClassOf(f) = "C2STestRestFixture"
      BY <2>1 DEF The, Object, ClassOf
    <3>2. f \notin Statics
      BY <3>1 DEF Statics, C2SLogBase, C2SLogSimpleMessageFactory, The, Object, ClassOf
    <3>3. \A x \in Range(Resources) : f \notin NewResource(Shared, x)
      BY <3>1, ResourceNames
    <3>4. QED
      BY <1>2, <3>2, <3>3
  <2>5. QED
    BY <2>2, <2>3, <2>4 DEF LeftInv, Left
<1>5. CASE DeleteObject
  <2>1. PICK o, ops, rest :
           /\ o \in heap /\ Head(todo) = Delete(o) /\ Named(o) /\ o \in Doomed
           /\ rest = Tail(todo)
           /\ Orderly(ops, Objects, Owned(o), Thread, heap, L)
           /\ todo' = ops \o <<Free(o)>> \o rest
           /\ ppc = "delete" /\ todo # <<>>
           /\ UNCHANGED <<vars, heap, ppc, handed, m_listOfResourcePrototypes, isDown, runs, m_pthread>>
    BY <1>5, DeleteFacts DEF HeapInv
  <2>2. Doomed' = Owned(o) \cup {o} \cup AllTargets(rest, L)
    BY <1>5, <2>1, DeleteChanges DEF HeapInv
  <2>3. AllTargets(rest, L) \subseteq Doomed
    BY <2>1, FirstInTodo DEF HeapInv
  <2>4. ASSUME NEW p \in Left, p \in Owned(o) PROVE FALSE
    <3>1. OwnerOf(p) = o /\ ~Unowned(p)
      BY <1>1, <2>1, <2>4, OwnsItsOwn, NobodyOwnsThese DEF Owned
    <3>2. p \notin Statics
      BY <3>1 DEF Statics, C2SLogBase, C2SLogSimpleMessageFactory, The, Object, ClassOf, Unowned
    <3>3. PICK x \in Range(Resources) \ L : p \in NewResource(Shared, x)
      BY <1>2, <2>4, <3>2
    <3>4. CASE p # RestResource(Shared, x)
      <4>1. o \in NewResource(Shared, x)
        BY <3>1, <3>3, <3>4, ResourceOwners
      <4>2. o \in Left
        BY <3>3, <4>1 DEF Left
      <4>3. QED
        BY <2>1, <4>2 DEF LeftInv
    <3>5. CASE p = RestResource(Shared, x)
      <4>1. o = The("C2SHttpServer")
        BY <3>1, <3>5 DEF OwnerOf, RestResource, Object, ClassOf, HandlerOf
      <4>2. p \in {RestResource(Shared, y) : y \in L}
        BY <2>4, <3>5, <4>1 DEF Owned, Owns, The, RestResource, Object, ClassOf, HandlerOf,
                                C2SHttpServer, C2SHttpResourcePrototypeList
      <4>3. x \in L
        BY <3>5, <4>2 DEF RestResource, Object
      <4>4. QED
        BY <3>3, <4>3
    <3>6. QED
      BY <3>4, <3>5
  <2>5. QED
    BY <2>1, <2>2, <2>3, <2>4 DEF LeftInv, Left
<1>6. CASE FreeObject
  <2>1. PICK o, rest : o = Head(todo)[2] /\ rest = Tail(todo)
    OBVIOUS
  <2>2. /\ o \in Doomed /\ todo # <<>>
        /\ heap' = heap \ {o} /\ todo' = rest
        /\ UNCHANGED <<vars, ppc, handed, m_listOfResourcePrototypes, isDown, runs, m_pthread>>
    BY <1>6, <2>1, FreeFacts DEF HeapInv
  <2>3. AllTargets(rest, L) \subseteq Doomed
    BY <2>1, <2>2, FirstInTodo DEF HeapInv
  <2>4. Doomed' \subseteq Doomed
    BY <2>2, <2>3 DEF Doomed
  <2>5. Left' = Left
    BY <2>2 DEF Left
  <2>6. QED
    BY <2>2, <2>4, <2>5 DEF LeftInv
<1>7. CASE ClearList
  <2>1. UNCHANGED <<heap, L>>
    BY <1>7 DEF ClearList
  <2>2. Doomed' = Doomed
    BY <1>7, ClearChanges DEF HeapInv
  <2>3. QED
    BY <2>1, <2>2 DEF LeftInv, Left
<1>8. CASE ServerIsGone \/ UNCHANGED lifeVars
  BY <1>8 DEF ServerIsGone, lifeVars, LeftInv, Left, Doomed
<1>9. CASE ~ProgramNext /\ ppc' \in {"delete", "gone"}
  <2>1. CASE ppc = "use"
    <3>1. ppc' = ppc
      BY <1>9, ThreadStepFacts, QueueStepFacts, RequestStepFacts, ServerStepKinds DEF lifeVars
    <3>2. QED
      BY <1>9, <2>1, <3>1
  <2>2. CASE ppc # "use"
    BY <1>8, <1>9, <2>2, OnlyInUse, ServerStepKinds DEF HeapInv
  <2>3. QED
    BY <2>1, <2>2
<1>10. CASE CreateServer \/ RegisterResource \/ UseServer
  BY <1>3, <1>10 DEF CreateServer, RegisterResource, UseServer
<1>11. QED
  BY <1>1, <1>3, <1>4, <1>5, <1>6, <1>7, <1>8, <1>9, <1>10 DEF ProgramNext, ProgramPCs

(* The server has the first resource of each context root. *)
LEMMA RegisteredStep ==
  ASSUME IInv, HeapInv, RegisteredInv, [ServerNext]_allVars
  PROVE  RegisteredInv'
<1> DEFINE L == m_listOfResourcePrototypes
           root(k) == ContextRoot[Resources[k]]
           First(j) == ~\E i \in 1..j - 1 : root(i) = root(j)
<1>1. /\ L = {Resources[k] : k \in {j \in 1..handed : First(j)}}
      /\ \A k \in 1..handed : \E x \in L : ContextRoot[x] = root(k)
  BY DEF RegisteredInv
<1>2. handed \in Nat
  <2>1. Len(Resources) \in Nat
    BY HttpObjectsAssumption
  <2>2. QED
    BY <2>1 DEF HeapInv, ObjectsInv
<1>3. CASE RegisterResource
  <2>1. PICK n, y : n = handed + 1 /\ y = Resources[n]
    OBVIOUS
  <2>2. /\ handed' = n
        /\ L' = IF \E x \in L : ContextRoot[x] = ContextRoot[y] THEN L ELSE L \cup {y}
    BY <1>3, <2>1 DEF RegisterResource, addResourcePrototype, existsResourcePrototypeForContextRoot
  <2>3. \A j : j \in 1..n <=> j \in 1..handed \/ j = n
    BY <1>2, <2>1
  <2>4. 1..n - 1 = 1..handed
    BY <1>2, <2>1
  <2>5. First(n) <=> ~\E x \in L : ContextRoot[x] = ContextRoot[y]
    <3>1. ASSUME NEW i \in 1..n - 1, root(i) = root(n)
          PROVE  \E x \in L : ContextRoot[x] = ContextRoot[y]
      BY <1>1, <2>1, <2>4, <3>1
    <3>2. ASSUME NEW x \in L, ContextRoot[x] = ContextRoot[y]
          PROVE  \E i \in 1..n - 1 : root(i) = root(n)
      <4>1. PICK k \in 1..handed : x = Resources[k]
        BY <1>1, <3>2
      <4>2. QED
        BY <2>1, <2>4, <3>2, <4>1
    <3>3. QED
      BY <3>1, <3>2
  <2>6. L' = {Resources[k] : k \in {j \in 1..n : First(j)}}
    <3> HIDE DEF First
    <3>1. CASE First(n)
      BY <1>1, <2>1, <2>2, <2>3, <2>5, <3>1
    <3>2. CASE ~First(n)
      BY <1>1, <2>1, <2>2, <2>3, <2>5, <3>2
    <3>3. QED
      BY <3>1, <3>2
  <2>7. \A k \in 1..n : \E x \in L' : ContextRoot[x] = root(k)
    BY <1>1, <2>1, <2>2, <2>3
  <2>8. QED
    BY <2>2, <2>6, <2>7 DEF RegisteredInv
<1>4. CASE ~RegisterResource
  <2>1. UNCHANGED <<handed, L>>
    BY <1>4, ThreadStepFacts, QueueStepFacts, RequestStepFacts, ServerStepKinds
       DEF ProgramNext, CreateServer, UseServer, DeleteServer, DeleteObject, FreeObject, ClearList,
           ServerIsGone, lifeVars
  <2>2. QED
    BY <2>1 DEF RegisteredInv
<1>5. QED
  BY <1>3, <1>4

(* A program that has not begun to use the server keeps everything. *)
LEMMA ServerInitKeeps ==
  ASSUME ServerInit
  PROVE  LeakInv
<1>1. /\ heap = createResources \cup Statics /\ ppc = "create" /\ handed = 0
      /\ m_listOfResourcePrototypes = {} /\ todo = <<>>
  BY DEF ServerInit
<1>2. PICK R : R = UNION {NewResource(Shared, x) : x \in Range(Resources)}
  OBVIOUS
<1>3. PICK f, m : f = The("C2STestRestFixture") /\ m = C2STestRestFixture.pGlobalMutex
  OBVIOUS
<1>4. Left = Statics \cup R /\ heap = {f, m} \cup R \cup Statics
  BY <1>1, <1>2, <1>3 DEF Left, createResources, pGlobalMutex
<1>5. Doomed = {} /\ \A o : ~Opened(o)
  BY <1>1 DEF Doomed, AllTargets, Opened, Range
<1>6. Kept(f)
  BY <1>1, <1>3 DEF Kept
<1>7. HasOwner(m)
  <2>1. OwnerOf(m) = f /\ m \in Owned(f)
    BY <1>3 DEF C2STestRestFixture, OwnerOf, Owned, Owns, The, Object, ClassOf
  <2>2. QED
    BY <1>4, <1>5, <2>1 DEF HasOwner
<1>8. OwnedInv
  BY <1>4, <1>6, <1>7 DEF OwnedInv, Kept
<1>9. LeftInv
  BY <1>4, <1>5 DEF LeftInv
<1>10. RegisteredInv
  BY <1>1 DEF RegisteredInv
<1>11. QED
  BY <1>8, <1>9, <1>10 DEF LeakInv

(* Owners have owners up to the fixture: of objects that all have theirs      *)
(* among them there are none.                                               *)
LEMMA OwnersEnd ==
  ASSUME NEW X, \A o \in X : Named(o) /\ OwnerOf(o) \in X /\ ~Unowned(o)
  PROVE  X = {}
<1> DEFINE No(classes) == \A o \in X : ClassOf(o) \notin classes
<1> USE DEF OwnerOf, The, Of, RestResource, Object, ClassOf
<1>1. No({"C2STestRestFixture", "C2SThreadQueue", "C2SThreadQueueRunner",
          "C2SLogPublicationImplStandardOutput"})
  BY DEF Unowned
<1>2. No({"C2STestServerRunner", "C2SMutex"})
  BY <1>1
<1>3. No({"C2SHttpServer"})
  BY <1>2
<1>4. No({"C2SRuntime", "C2SHttpDataHandlingImpl"})
  BY <1>3
<1>5. No({"C2SSocketListener", "C2SLogSimpleMessageFactory", "C2SLogImplSimpleMessage",
          "C2SSocketListenerThread"})
  BY <1>4
<1>6. No({"C2SLogMutex", "C2SSocketAcceptHandler", "C2SSocketInfo", "pthread_t"})
  BY <1>5
<1>7. No({"C2SHttpDataPull"})
  BY <1>6
<1>8. No({"C2SHttpRequest", "C2SHttpResourceManager"})
  BY <1>7
<1>9. No({"C2SHttpEntity", "char[]", "C2SHttpResourceManagerResponseHandler",
          "C2SHttpResourcePrototypeList", "C2SRestResourcePrototype"})
  BY <1>3, <1>8
<1>10. No({"C2SRestMethodPrototype"})
  BY <1>9
<1>11. No({"C2SRestPathSegment", "C2SRestPathParameter", "C2SRestQueryParameter",
           "C2SHttpEntityStreamer", "C2SHttpEntityUnstreamer"})
  BY <1>10
<1>12. No({"C2SRestParameter"})
  BY <1>11
<1>13. \A o \in X : OwnerOf(o) = <<>>
  BY <1>1, <1>2, <1>3, <1>4, <1>5, <1>6, <1>7, <1>8, <1>9, <1>10, <1>11, <1>12
<1>14. ~Named(<<>>)
  BY DEF Named
<1>15. QED
  BY <1>13, <1>14

(* The resources that the server has not accepted are those that an earlier *)
(* one has kept out.                                                        *)
LEMMA RefusedIsLeft ==
  ASSUME RegisteredInv, handed = Len(Resources)
  PROVE  Refused = Range(Resources) \ m_listOfResourcePrototypes
<1> DEFINE L == m_listOfResourcePrototypes
           First(j) == ~\E i \in 1..j - 1 : ContextRoot[Resources[i]] = ContextRoot[Resources[j]]
<1>1. L = {Resources[k] : k \in {j \in 1..handed : First(j)}}
  BY DEF RegisteredInv
<1>2. DOMAIN Resources = 1..handed
  BY HttpObjectsAssumption
<1>3. Refused = {Resources[k] : k \in {j \in 1..handed : ~First(j)}}
  BY <1>2 DEF Refused
<1>4. Range(Resources) = {Resources[k] : k \in 1..handed}
  BY <1>2 DEF Range
<1>5. \A j, k \in 1..handed : Resources[j] = Resources[k] => j = k
  BY <1>2, HttpObjectsAssumption DEF IsInjective
<1> HIDE DEF First
<1>6. QED
  BY <1>1, <1>3, <1>4, <1>5

(* The inductive invariant of what is kept. *)
THEOREM LeakInvariance ==
  ASSUME ~EarlyShutdown, ~SecondStart
  PROVE  ServerSpec => [](IInv /\ HeapInv /\ LeakInv)
<1>1. ServerSpec => [](IInv /\ HeapInv)
  BY HeapInvariance
<1>2. ServerInit => LeakInv
  BY ServerInitKeeps
<1>3. IInv /\ HeapInv /\ HeapInv' /\ LeakInv /\ [ServerNext]_allVars => LeakInv'
  BY OwnedStep, LeftStep, RegisteredStep DEF LeakInv
<1>4. QED
  BY <1>1, <1>2, <1>3, PTL DEF ServerSpec

(* When the program has deleted the server, nothing that it or the server has *)
(* created is left but the resources that the server has refused.            *)
THEOREM ServerLeaksNothing ==
  ASSUME ~EarlyShutdown, ~SecondStart
  PROVE  ServerSpec => []NothingLeaks
<1>1. IInv /\ HeapInv /\ LeakInv => NothingLeaks
  <2>1. SUFFICES ASSUME IInv, HeapInv, LeakInv, ppc = "gone" PROVE heap = Left
    <3>1. ppc = "gone" /\ HeapInv => handed = Len(Resources)
      BY DEF HeapInv, ProgramInv
    <3>2. QED
      BY <3>1, RefusedIsLeft DEF NothingLeaks, LeakInv, Left
  <2>2. todo = <<>> /\ lpc = "none"
    BY <2>1 DEF HeapInv, ProgramInv
  <2>3. Doomed = {} /\ lpc \notin QueuePCs
    BY <2>2 DEF Doomed, AllTargets, QueuePCs
  <2>4. PICK X : X = heap \ Left
    OBVIOUS
  <2>5. \A h \in AcceptHandlers : ClassOf(h) = "C2SSocketAcceptHandler"
    BY DEF AcceptHandlers, Of, Object, ClassOf
  <2>6. \A t \in Thread : ClassOf(t) = "pthread_t"
    BY DEF Thread, pthread, Object, ClassOf
  <2>7. ASSUME NEW o \in X PROVE Named(o) /\ OwnerOf(o) \in X /\ ~Unowned(o)
    <3>1. HasOwner(o)
      BY <2>1, <2>3, <2>4, <2>7 DEF LeakInv, OwnedInv, Kept
    <3>2. PICK q : q = OwnerOf(o)
      OBVIOUS
    <3>3. q \in heap /\ o \in Owned(q)
      BY <3>1, <3>2 DEF HasOwner
    <3>4. Named(o) /\ Named(q)
      BY <2>1, <2>4, <2>7, <3>3, ObjectsAreNamed DEF HeapInv, ObjectsInv
    <3>5. ~Unowned(o)
      BY <2>5, <2>6, <3>3, <3>4, NobodyOwnsThese DEF Owned
    <3>6. q \notin Statics
      <4>1. SUFFICES ASSUME q \in Statics PROVE ClassOf(q) \in LeafClasses
        BY <3>3, LeavesOwnNothing DEF Owned
      <4>2. QED
        BY <4>1 DEF Statics, C2SLogBase, C2SLogSimpleMessageFactory, The, Object, ClassOf, LeafClasses
    <3>7. ASSUME NEW x \in Range(Resources) \ m_listOfResourcePrototypes,
                 q \in NewResource(Shared, x)
          PROVE  FALSE
      <4>1. o \in NewResource(Shared, x)
        BY <3>3, <3>7, ResourceClosed DEF Owned
      <4>2. QED
        BY <2>4, <2>7, <3>7, <4>1 DEF Left
    <3>8. q \notin Left
      BY <3>6, <3>7 DEF Left
    <3>9. QED
      BY <2>4, <3>2, <3>3, <3>4, <3>5, <3>8
  <2>8. X = {}
    BY <2>7, OwnersEnd
  <2>9. Left \subseteq heap
    BY <2>1 DEF LeakInv, LeftInv
  <2>10. QED
    BY <2>4, <2>8, <2>9
<1>2. QED
  BY <1>1, LeakInvariance, PTL

=============================================================================

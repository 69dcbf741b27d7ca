----------------------------- MODULE RestServer -----------------------------
(***************************************************************************)
(* Accept handlers that serve REST requests at the same time:              *)
(* C2SHttpResourceManager::handleRequest(), C2SRestResourcePrototype and   *)
(* the methods of the fixture, of which each handler has clones of its     *)
(* own.  What a request leaves in a clone, the next one finds there.       *)
(***************************************************************************)
EXTENDS RestFixture

CONSTANTS Handlers,    \* the accept handlers
          RequestsTo   \* the checks whose requests each handler gets

AnyStatus == 0         \* of a request for which no test expects a response

NoCheck == check(build("GET", <<>>), AnyStatus)

ASSUME RestServerAssumption ==
  \A h \in Handlers : NoCheck \notin RequestsTo[h]

VARIABLES
  pc,        \* where a handler is in handleRequest()
  serving,   \* the check whose request it has got last
  clones,    \* its resources, each with its methods
  method,    \* the context root and the position of the method that it calls
  streamer,  \* what its response will be streamed with
  reply,     \* the response to it
  refused    \* history: entities that were unstreamed but never processed

vars == <<pc, serving, clones, method, streamer, reply, refused>>

request(h) == serving[h].request

NoMethod == <<NoResource, 0>>
NoReply == ErrorResponse(0)

(* Seeded fault: the list is copied without clone(), so that all handlers  *)
(* have the methods that were registered.                                  *)
cloneOf_Registered(h) == CHOOSE g \in Handlers : TRUE

(* The handler whose clones h uses. *)
cloneOf(h) == h

Method(h) == clones[cloneOf(h)][method[h][1]][method[h][2]]

Init ==
  /\ pc = [h \in Handlers |-> "receive"]
  /\ serving = [h \in Handlers |-> NoCheck]
  /\ clones = [h \in Handlers |-> Resources]
  /\ method = [h \in Handlers |-> NoMethod]
  /\ streamer = [h \in Handlers |-> Wildcard]
  /\ reply = [h \in Handlers |-> NoReply]
  /\ refused = [h \in Handlers |-> {}]

-----------------------------------------------------------------------------
GoTo(h, label) == pc' = [pc EXCEPT ![h] = label]

MethodBecomes(h, m) == clones' = [clones EXCEPT ![cloneOf(h)][method[h][1]][method[h][2]] = m]

(* sendResponse(), of a response or for an exception. *)
Respond(h, response) ==
  /\ GoTo(h, "receive")
  /\ reply' = [reply EXCEPT ![h] = response]

Receive(h) ==
  /\ pc[h] = "receive"
  /\ \E c \in RequestsTo[h] : serving' = [serving EXCEPT ![h] = c]
  /\ GoTo(h, "handleRequest")
  /\ method' = [method EXCEPT ![h] = NoMethod]
  /\ streamer' = [streamer EXCEPT ![h] = Wildcard]
  /\ reply' = [reply EXCEPT ![h] = NoReply]
  /\ UNCHANGED <<clones, refused>>

(* processRequest() of the entities and of the query parameters, each step  *)
(* unless the one before threw: what may become of the method, the type    *)
(* that its response is streamed as, and the status it is refused with.    *)
processRequest(matched, header, body) ==
  LET type == header.Fields.contentType.Type
      unstreamRefuses == unstreamRequestEntity(matched, type, body)
      unstreamed == IF matched.methodType = "POST" THEN unstream(matched, type, body) ELSE matched
      detected == entityStreamer(matched, header.Fields)
      processed == processQueryFields(unstreamed, header.QueryFields)
      Done(status, m) == [status |-> status, method |-> m, type |-> detected.type]
  IN  IF unstreamRefuses # 0 THEN {Done(unstreamRefuses, matched)}
      ELSE IF detected.status # 0 THEN {Done(detected.status, unstreamed)}
      ELSE {Done(processed.status, m) : m \in processed.methods}

(* The method is prepared for process() with what it needs of the request. *)
CallMethod(h, root, i) ==
  LET header == request(h).header
      matched == processPathIDs(clones[cloneOf(h)][root][i], pathIDList(header.URI, root))
      Entities(m) == Range(m.received) \ {<<>>}
  IN  \E done \in processRequest(matched, header, request(h).entity) :
        /\ method' = [method EXCEPT ![h] = <<root, i>>]
        /\ clones' = [clones EXCEPT ![cloneOf(h)][root][i] = done.method]
        /\ streamer' = [streamer EXCEPT ![h] = done.type]
        /\ IF done.status = 0 THEN GoTo(h, "process") /\ UNCHANGED <<reply, refused>>
           ELSE /\ Respond(h, ErrorResponse(done.status))
                /\ refused' = [refused EXCEPT ![h] = @ \cup Entities(done.method)]

(* The resource that the URI leads to answers with its description or has  *)
(* a method called.                                                        *)
Answers(h, response) == Respond(h, response) /\ UNCHANGED <<method, clones, streamer, refused>>

RequestResource(h, root) ==
  LET header == request(h).header
  IN  IF isAccessToContextRoot(header.URI, root)
      THEN Answers(h, resourceDescription(header.Method, root))
      ELSE \E match \in {getPrototypeWithBestMatch(root, clones[cloneOf(h)][root], header.URI, header.Method)} :
             IF match.status # 0 THEN Answers(h, ErrorResponse(match.status))
             ELSE CallMethod(h, root, match.method)

HandleRequest(h) ==
  LET header == request(h).header
  IN  /\ pc[h] = "handleRequest"
      /\ \E root \in {findLongestMatchString(header.URI, DOMAIN clones[cloneOf(h)])} :
           IF header.URI = <<>> THEN Answers(h, ErrorResponse(BadRequest))
           ELSE IF root = NoResource THEN Answers(h, ErrorResponse(NotFound))
           ELSE RequestResource(h, root)
      /\ UNCHANGED serving

Process(h) ==
  /\ pc[h] = "process" /\ Method(h).name # "Threading"
  /\ Respond(h, process(Method(h), streamer[h]))
  /\ MethodBecomes(h, afterProcess(Method(h)))
  /\ UNCHANGED <<serving, method, streamer, refused>>

(* Under the global mutex until m_bIsRunning is set, then without it. *)
Sleep(h) ==
  /\ pc[h] = "process" /\ Method(h).name = "Threading"
  /\ MethodBecomes(h, [Method(h) EXCEPT !.isRunning = TRUE])
  /\ GoTo(h, "sleep")
  /\ UNCHANGED <<serving, method, streamer, reply, refused>>

Wake(h) ==
  /\ pc[h] = "sleep"
  /\ MethodBecomes(h, [Method(h) EXCEPT !.isRunning = FALSE])
  /\ Respond(h, Response(OK, Wildcard, <<>>))
  /\ UNCHANGED <<serving, method, streamer, refused>>

Next ==
  \E h \in Handlers :
    \/ Receive(h) \/ HandleRequest(h) \/ Process(h) \/ Sleep(h) \/ Wake(h)

Spec == Init /\ [][Next]_vars

-----------------------------------------------------------------------------
Answered(h) == pc[h] = "receive" /\ serving[h] # NoCheck

(* Every check of the tests passes: in any order, after any requests that  *)
(* the handler served before, refused ones included, and beside any others.*)
(* The one exception is the converter of media types once an entity was    *)
(* unstreamed for a request that was then refused: it may answer with that.*)
ChecksPass ==
  \A h \in Handlers :
    Answered(h) /\ serving[h].status # AnyStatus =>
      \/ passes(serving[h], reply[h])
      \/ /\ method[h] # NoMethod /\ Method(h).name = "MediaTypeConverter"
         /\ reply[h].entity \in {Streamed(streamer[h], content) : content \in refused[h]}

(* What a server answers a request with that has served none before: its   *)
(* methods are as they were registered.                                    *)
AnswersTo(r) ==
  LET header == r.header
      root == findLongestMatchString(header.URI, DOMAIN Resources)
      match == getPrototypeWithBestMatch(root, Resources[root], header.URI, header.Method)
      matched == processPathIDs(Resources[root][match.method], pathIDList(header.URI, root))
      answer(done) == IF done.status # 0 THEN ErrorResponse(done.status)
                      ELSE process(done.method, done.type)
  IN  IF header.URI = <<>> THEN {ErrorResponse(BadRequest)}
      ELSE IF root = NoResource THEN {ErrorResponse(NotFound)}
      ELSE IF isAccessToContextRoot(header.URI, root) THEN {resourceDescription(header.Method, root)}
      ELSE IF match.status # 0 THEN {ErrorResponse(match.status)}
      ELSE {answer(done) : done \in processRequest(matched, header, r.entity)}

(* Of the requests of a run: the checks pass if nothing was served before, *)
(* and an entity has something between its tags or brackets.               *)
ChecksPassAlone ==
  \A h \in Handlers : \A c \in RequestsTo[h] :
    c.status # AnyStatus => \A response \in AnswersTo(c.request) : passes(c, response)

EntitiesHaveContent ==
  \A h \in Handlers : \A c \in RequestsTo[h] :
    c.request.entity # <<>> => Between(c.request.header.Fields.contentType.Type, c.request.entity) # <<>>

(* An answer that a server would give that has served nothing else, or an  *)
(* entity that the converter was left with.                                *)
AnswersAsAlone(h, response) ==
  \/ response \in AnswersTo(request(h))
  \/ /\ method[h] # NoMethod /\ Method(h).name = "MediaTypeConverter"
     /\ response.entity \in {Streamed(streamer[h], content) : content \in refused[h]}

HistoryIsForgotten == \A h \in Handlers : Answered(h) => AnswersAsAlone(h, reply[h])

(* A method has what r asks for in its members: the values of its path and *)
(* query parameters, or their defaults, and runs for no other request.     *)
ReadsRequest(m, r, root) ==
  LET fields == r.header.QueryFields
      pathIDs == pathIDList(r.header.URI, root)
  IN  /\ \A i \in PathParameters(m) :
           m.values[m.path[i].id] = convert(m.path[i].valueType, pathIDs[i])
      /\ \A p \in Range(m.queryParameters) :
           m.values[p.id] =
             IF p.id \in DOMAIN fields THEN convert(p.valueType, fields[p.id]) ELSE p.default
      /\ ~m.isRunning

(* What a method finds in its members when process() is called comes from  *)
(* its own request, whatever requests of this or another handler set them  *)
(* before.                                                                 *)
OwnRequest ==
  \A h \in Handlers :
    pc[h] = "process" => ReadsRequest(Method(h), request(h), method[h][1])

NamedTypes(m, fields) == {type \in Range(m.streamers) : isAccept(fields, type)}

TypeAccepted(m, fields, response) ==
  LET named == NamedTypes(m, fields)
  IN  IF response.entity # <<>>
      THEN IF named # {} THEN response.type \in named ELSE isAccept(fields, Wildcard)
      ELSE response.status = NotAcceptable => named = {} /\ ~isAccept(fields, Wildcard)

(* An entity that a method answers with has a media type that the request  *)
(* accepts: one that it names itself whenever the method can produce one,  *)
(* whatever else it accepts.  If it accepts none it gets no entity.        *)
NegotiatedTypeAccepted ==
  \A h \in Handlers :
    Answered(h) /\ method[h] # NoMethod =>
      TypeAccepted(Method(h), request(h).header.Fields, reply[h])

=============================================================================

---------------------------- MODULE HttpExchange ----------------------------
(***************************************************************************)
(* One request after the other on one accept handler: C2SHttpClient::send()*)
(* or another client, the connection, C2SSocketAcceptHandler::accept(),    *)
(* C2SHttpDataPull with the parser, and C2SHttpResourceManager.  Writes    *)
(* and reads may be short, the client may leave and the connection break.  *)
(***************************************************************************)
EXTENDS HttpMessages, Matching

CONSTANTS Messages,     \* what clients send, with what is to be read from it
          Roots,        \* the context roots that have a resource
          Answers,      \* what a resource may answer with
          BUFFERSIZE    \* most words that one recv() or read() returns

ASSUME HttpExchangeAssumption ==
  /\ BUFFERSIZE \in Nat \ {0}
  /\ \A m \in Messages : m # <<>> /\ m.bytes # <<>> /\ m.shuts \in BOOLEAN
  /\ <<"/">> \notin Roots

VARIABLES
  cpc,             \* where the client is in send()
  request,         \* the message it sends
  iBytesWritten,   \* how much of it is written
  response,        \* header and parser of its C2SHttpResponse
  outcome,         \* how the last send() ended
  line,            \* the connection: words under way, which ends are open
  hpc,             \* where the handler is in accept()
  pull,            \* header and parser of its C2SHttpRequest
  called,          \* history: what handleRequest() was called with
  reply,           \* its response
  pushed           \* history: how much of it was written

clientVars == <<cpc, request, iBytesWritten, response, outcome>>
handlerVars == <<hpc, pull, called, reply, pushed>>
vars == <<clientVars, line, handlerVars>>

Nothing == [kind |-> "none", status |-> 0, entity |-> <<>>]
Threw == [kind |-> "threw", status |-> 0, entity |-> <<>>]
Returned(status, entity) == [kind |-> "returned", status |-> status, entity |-> entity]

NoRequest == <<>>
NoCall == [method |-> "none"]
NoReply == [status |-> 500, phrase |-> <<>>, type |-> Wildcard, entity |-> <<>>]

Closed == [toServer |-> <<>>, toClient |-> <<>>, clientEnd |-> "closed", serverEnd |-> "closed",
           broken |-> FALSE]

NewResponse == [header |-> ResponseHeader(500, <<>>), parser |-> NewParser]
NewRequest == [header |-> RequestHeader, parser |-> NewParser]

Init ==
  /\ cpc = "idle" /\ request = NoRequest /\ iBytesWritten = 0
  /\ response = NewResponse /\ outcome = Nothing
  /\ line = Closed
  /\ hpc = "accept" /\ pull = NewRequest
  /\ called = NoCall /\ reply = NoReply /\ pushed = 0

-----------------------------------------------------------------------------
(* The client.  A message of C2SHttpClient is what send() makes of a       *)
(* header and an entity.                                                   *)
QualityOf(fields) == [t \in DOMAIN fields.accept.byType |-> fields.accept.byType[t].fQ]

ClientMessage(method, uri, query, accept, type, entity) ==
  LET fields == FoldLeft(addAccept, HeaderFields, accept)
      typed == IF type = Wildcard THEN fields ELSE setContentType(fields, MediaType(type))
      sized == IF entity = <<>> THEN typed ELSE setContentLength(typed, Len(entity))
      header == [RequestHeader EXCEPT !.Method = method, !.URI = uri, !.QueryFields = query, !.Fields = sized]
  IN  Message(requestToString(header) \o entity, method, uri, query, QualityOf(fields), type, entity)

Leaves(end) ==
  /\ cpc' = "idle" /\ outcome' = end
  /\ UNCHANGED <<request, iBytesWritten, response, handlerVars>>

(* Bound: the handler has closed the connection before. *)
Connect ==
  /\ cpc = "idle" /\ hpc = "accept" /\ line.serverEnd = "closed"
  /\ cpc' = "write" /\ request' \in Messages
  /\ iBytesWritten' = 0 /\ response' = NewResponse /\ outcome' = Nothing
  /\ line' = [Closed EXCEPT !.clientEnd = "open", !.serverEnd = "open"]
  /\ called' = NoCall /\ reply' = NoReply /\ pushed' = 0
  /\ UNCHANGED <<hpc, pull>>

ConnectThrows == cpc = "idle" /\ hpc = "ended" /\ Leaves(Threw) /\ UNCHANGED line

Write ==
  /\ cpc = "write" /\ ~line.broken
  /\ \E n \in 1..(Len(request.bytes) - iBytesWritten) :
       /\ iBytesWritten' = iBytesWritten + n
       /\ line' = [line EXCEPT !.toServer = @ \o SubSeq(request.bytes, iBytesWritten + 1, iBytesWritten + n)]
  /\ cpc' = IF iBytesWritten' = Len(request.bytes) THEN "shutdown" ELSE "write"
  /\ UNCHANGED <<request, response, outcome, handlerVars>>

(* -1 is added to what is written, and only less than nothing throws. *)
WriteFails ==
  /\ cpc = "write" /\ line.broken
  /\ iBytesWritten' = iBytesWritten - 1
  /\ IF iBytesWritten' < 0 THEN cpc' = "idle" /\ outcome' = Threw ELSE UNCHANGED <<cpc, outcome>>
  /\ UNCHANGED <<request, response, line, handlerVars>>

Shutdown ==
  /\ cpc = "shutdown" /\ ~line.broken
  /\ cpc' = "read"
  /\ line' = IF request.shuts THEN [line EXCEPT !.clientEnd = "shut"] ELSE line
  /\ UNCHANGED <<request, iBytesWritten, response, outcome, handlerVars>>

ShutdownThrows == cpc = "shutdown" /\ line.broken /\ Leaves(Threw) /\ UNCHANGED line

(* finished(), once the socket is closed. *)
Finish(r) ==
  LET length == r.header.Fields.contentLength
  IN  IF r.header.threw # 0 \/ (length # 0 /\ ~hasEntity(r.parser, length)) THEN Threw
      ELSE Returned(r.header.Status, r.parser.body)

(* Seeded fault: send() returns what it has of an entity. *)
Read_Partial ==
  /\ cpc = "read" /\ ~line.broken
  /\ \E n \in 0..BUFFERSIZE :
       /\ n <= Len(line.toClient)
       /\ n = 0 => line.toClient = <<>> /\ line.serverEnd = "closed"
       /\ response' = parse(response.parser, response.header, SubSeq(line.toClient, 1, n))
       /\ LET rest == [line EXCEPT !.toClient = From(@, n + 1)]
          IN  IF n = BUFFERSIZE /\ response'.header.threw = 0 THEN line' = rest /\ UNCHANGED <<cpc, outcome>>
              ELSE /\ line' = [rest EXCEPT !.clientEnd = "closed"]
                   /\ cpc' = "idle" /\ outcome' = Returned(response'.header.Status, response'.parser.body)
  /\ UNCHANGED <<request, iBytesWritten, handlerVars>>

(* A read that does not fill the buffer is the last. *)
Read ==
  /\ cpc = "read" /\ ~line.broken
  /\ \E n \in 0..BUFFERSIZE :
       /\ n <= Len(line.toClient)
       /\ n = 0 => line.toClient = <<>> /\ line.serverEnd = "closed"
       /\ response' = parse(response.parser, response.header, SubSeq(line.toClient, 1, n))
       /\ LET rest == [line EXCEPT !.toClient = From(@, n + 1)]
          IN  IF n = BUFFERSIZE /\ response'.header.threw = 0 THEN line' = rest /\ UNCHANGED <<cpc, outcome>>
              ELSE /\ line' = [rest EXCEPT !.clientEnd = "closed"]
                   /\ cpc' = "idle" /\ outcome' = Finish(response')
  /\ UNCHANGED <<request, iBytesWritten, handlerVars>>

ReadThrows == cpc = "read" /\ line.broken /\ Leaves(Threw) /\ UNCHANGED line

(* The client's process ends. *)
ClientDies ==
  /\ cpc # "idle" /\ Leaves(Threw)
  /\ line' = [line EXCEPT !.clientEnd = "closed"]

(* Neither end gets anything from the other any more. *)
Break ==
  /\ line.serverEnd = "open" /\ ~line.broken
  /\ line' = [line EXCEPT !.broken = TRUE, !.toServer = <<>>, !.toClient = <<>>]
  /\ UNCHANGED <<clientVars, handlerVars>>

-----------------------------------------------------------------------------
(* The handler. *)

(* Seeded fault: the request of the connection before is continued. *)
Accept_NoReset ==
  /\ hpc = "accept" /\ line.serverEnd = "open"
  /\ hpc' = "receive"
  /\ UNCHANGED <<pull, clientVars, line, called, reply, pushed>>

Accept ==
  /\ hpc = "accept" /\ line.serverEnd = "open"
  /\ hpc' = "receive" /\ pull' = NewRequest
  /\ UNCHANGED <<clientVars, line, called, reply, pushed>>

(* An exception that leaves the handler's thread ends the process. *)
Ends ==
  /\ hpc' = "ended"
  /\ line' = [line EXCEPT !.serverEnd = "closed"]

(* Seeded fault: only the end of the stream ends the loop. *)
Receive_UntilEnd ==
  /\ hpc = "receive" /\ ~line.broken
  /\ \E n \in 0..BUFFERSIZE :
       /\ n <= Len(line.toServer)
       /\ n = 0 => line.toServer = <<>> /\ line.clientEnd # "open"
       /\ pull' = parse(pull.parser, pull.header, SubSeq(line.toServer, 1, n))
       /\ hpc' = IF n = 0 THEN "flush" ELSE "receive"
       /\ line' = [line EXCEPT !.toServer = From(@, n + 1)]
  /\ UNCHANGED <<clientVars, called, reply, pushed>>

Receive ==
  /\ hpc = "receive" /\ ~line.broken
  /\ \E n \in 0..BUFFERSIZE :
       /\ n <= Len(line.toServer)
       /\ n = 0 => line.toServer = <<>> /\ line.clientEnd # "open"
       /\ pull' = parse(pull.parser, pull.header, SubSeq(line.toServer, 1, n))
       /\ IF pull'.header.threw # 0 \/ pull'.parser.failed THEN Ends
          ELSE /\ hpc' = IF n = 0 \/ isAllRequestDataReceived(pull'.parser) THEN "flush" ELSE "receive"
               /\ line' = [line EXCEPT !.toServer = From(@, n + 1)]
  /\ UNCHANGED <<clientVars, called, reply, pushed>>

ReceiveThrows ==
  /\ hpc = "receive" /\ line.broken
  /\ Ends
  /\ UNCHANGED <<clientVars, pull, called, reply, pushed>>

(* C2SHttpResourceManager::bestMatch() and the two cases before it: the    *)
(* resource that is called, or the status it throws.                       *)
ErrorReply(status, phrase) ==
  [status |-> status, phrase |-> phrase, type |-> Wildcard, entity |-> <<>>]

bestMatch(uri) == findLongestMatchString(uri, Roots) # NoResource

NoURI == ErrorReply(400, <<"No", " ", "URI", " ", "specified">>)
NoRootResource == ErrorReply(404, <<"No", " ", "root", " ", "resource", " ", "available">>)

repliesTo(header) ==
  CASE header.URI = <<>> -> {NoURI}
    [] header.URI # <<>> /\ bestMatch(header.URI) -> Answers
    [] OTHER -> {NoRootResource}

(* The request as handleRequest() and the resources see it. *)
handled(p) ==
  [method |-> p.header.Method, uri |-> p.header.URI, query |-> p.header.QueryFields,
   accept |-> QualityOf(p.header.Fields), contentType |-> p.header.Fields.contentType.Type,
   entity |-> p.parser.body]

(* What finished() checks before it: that an announced entity has arrived. *)
isFinished(p) ==
  LET length == p.header.Fields.contentLength IN length = 0 \/ hasEntity(p.parser, length)

(* Seeded fault: a request whose entity has not arrived is handled.        *)
Flush_Unfinished ==
  /\ hpc = "flush"
  /\ hpc' = "push" /\ called' = handled(pull) /\ reply' \in repliesTo(pull.header)
  /\ UNCHANGED <<clientVars, line, pull, pushed>>

(* finished() and handleRequest(), whose exceptions accept() catches. *)
Flush ==
  /\ hpc = "flush"
  /\ IF isFinished(pull)
     THEN hpc' = "push" /\ called' = handled(pull) /\ reply' \in repliesTo(pull.header)
     ELSE hpc' = "close" /\ UNCHANGED <<called, reply>>
  /\ UNCHANGED <<clientVars, line, pull, pushed>>

sendResponse(r) ==
  LET header == ResponseHeader(r.status, r.phrase)
      typed == IF r.type = Wildcard THEN header.Fields ELSE setContentType(header.Fields, MediaType(r.type))
      sized == IF r.entity = <<>> THEN typed ELSE setContentLength(typed, Len(r.entity))
  IN  responseToString([header EXCEPT !.Fields = sized]) \o r.entity

(* One write, whose result is only compared with zero.  It may succeed for *)
(* a client that has gone or cannot be reached: what it writes is lost.    *)
Push ==
  /\ hpc = "push"
  /\ hpc' = "close"
  /\ LET data == sendResponse(reply)
     IN  \E n \in 1..Len(data) :
           /\ pushed' = n
           /\ line' = IF line.broken THEN line ELSE [line EXCEPT !.toClient = SubSeq(data, 1, n)]
  /\ UNCHANGED <<clientVars, pull, called, reply>>

(* Seeded fault: a response that cannot be written is asked for again. *)
PushFails_Retries ==
  /\ hpc = "push" /\ (line.broken \/ line.clientEnd = "closed")
  /\ hpc' = "flush"
  /\ UNCHANGED <<clientVars, line, pull, called, reply, pushed>>

(* An exception that accept() catches, or the signal SIGPIPE. *)
PushFails ==
  /\ hpc = "push" /\ (line.broken \/ line.clientEnd = "closed")
  /\ (hpc' = "close" /\ UNCHANGED line) \/ Ends
  /\ UNCHANGED <<clientVars, pull, called, reply, pushed>>

Close ==
  /\ hpc = "close"
  /\ hpc' = "accept"
  /\ line' = [line EXCEPT !.serverEnd = "closed"]
  /\ UNCHANGED <<clientVars, pull, called, reply, pushed>>

-----------------------------------------------------------------------------
SendNext ==
  Write \/ WriteFails \/ Shutdown \/ ShutdownThrows \/ Read \/ ReadThrows

HandlerNext == Accept \/ Receive \/ ReceiveThrows \/ Flush \/ Push \/ PushFails \/ Close

Next == Connect \/ ConnectThrows \/ SendNext \/ ClientDies \/ Break \/ HandlerNext

Spec == Init /\ [][Next]_vars

(* A client that has called send() and the handler keep running: weak      *)
(* fairness of SendNext and of HandlerNext, with the condition under which *)
(* each of them can take a step written out.                               *)
ClientReady ==
  \/ cpc \in {"write", "shutdown"}
  \/ cpc = "read" /\ (line.broken \/ line.toClient # <<>> \/ line.serverEnd = "closed")

HandlerReady ==
  \/ hpc = "accept" /\ line.serverEnd = "open"
  \/ hpc = "receive" /\ (line.broken \/ line.toServer # <<>> \/ line.clientEnd # "open")
  \/ hpc \in {"flush", "push", "close"}

ClientMoves == <<cpc, iBytesWritten, response>>' # <<cpc, iBytesWritten, response>>

HandlerMoves == <<hpc, pull>>' # <<hpc, pull>>

FairSpec ==
  /\ Spec
  /\ []<>~ClientReady \/ []<><<ClientMoves>>_vars
  /\ []<>~HandlerReady \/ []<><<HandlerMoves>>_vars

-----------------------------------------------------------------------------
(* A call that has everything that was sent, and one that lacks header     *)
(* fields or the entity, but has no part of any of them.                   *)
Whole(call, message) == \A field \in DOMAIN call : call[field] = message[field]

Cut(call, message) ==
  /\ call.uri = <<>> \/ \A field \in {"method", "uri", "query"} : call[field] = message[field]
  /\ call.accept \in {message.accept, NoFields}
  /\ call.contentType \in {message.contentType, Wildcard}
  /\ call.entity \in {message.entity, <<>>}

(* What handleRequest() is called with is what was sent, however the       *)
(* stream was cut.  Of a client that left early it may lack header fields  *)
(* and the entity, never a part of the entity: a method is then called     *)
(* for a request without an entity, of which Content-Length was not read.  *)
RequestIntact ==
  called # NoCall =>
    IF iBytesWritten = Len(request.bytes) THEN Whole(called, request) ELSE Cut(called, request)

(* No assertion of parse() fails and no line is refused, on either side,   *)
(* so that nothing but a broken connection or SIGPIPE ends the process.    *)
ParsersAccept ==
  \A side \in {pull, response} : ~side.parser.failed /\ side.header.threw = 0

IsTakenFrom(result, r) == result.status \in {r.status, 500} /\ result.entity \in {r.entity, <<>>}

(* A response that send() returns has the status of the reply, or, of a    *)
(* reply that was cut in its first line, the default; and its entity as a  *)
(* whole or none.  If all of it was read it is the reply.                  *)
ResponseIntact ==
  outcome.kind = "returned" =>
    /\ IsTakenFrom(outcome, reply)
    /\ hpc # "push" /\ pushed = Len(sendResponse(reply)) /\ line.toClient = <<>> /\ ~line.broken =>
         outcome.status = reply.status /\ outcome.entity = reply.entity

(* Every send() ends, and the handler serves every connection it accepts,  *)
(* or the process ends: also if the client waits for its answer without a  *)
(* shutdown() of its own.                                                  *)
ExchangeEnds ==
  /\ (cpc # "idle") ~> (cpc = "idle")
  /\ (hpc # "accept") ~> (hpc \in {"accept", "ended"})

(* The exchange does what RequestResponse says of it. *)
Abstract ==
  INSTANCE RequestResponse WITH
    Requests <- Messages,
    Replies <- Answers \cup {ErrorReply(400, <<>>), ErrorReply(404, <<>>)},
    sending <- cpc # "idle",
    reply <- [status |-> reply.status, entity |-> reply.entity, handled |-> called # NoCall]

ImplementsRequestResponse == Abstract!Spec

-----------------------------------------------------------------------------
(* What the proofs take from the functions of the parser; TLC evaluates it *)
(* for the messages and replies of an instance.                            *)
Parsed(state, words) == parse(state.parser, state.header, words)

Accepts(s) == ~s.parser.failed /\ s.header.threw = 0

SizeKnown(s) == s.parser.headerFinished => s.header.Fields.contentLength \in Nat

(* No line of a message is refused; when it is complete all of it is read, *)
(* and before that no part of its entity is taken for an entity.           *)
ReadsMessages ==
  \A m \in Messages :
    /\ m.bytes \in Seq(Range(m.bytes))
    /\ Accepts(Parsed(NewRequest, m.bytes)) /\ SizeKnown(Parsed(NewRequest, m.bytes))
    /\ \A k \in 0..Len(m.bytes) :
         LET s == Parsed(NewRequest, SubSeq(m.bytes, 1, k))
         IN  isFinished(s) =>
               IF k = Len(m.bytes) \/ isAllRequestDataReceived(s.parser)
               THEN Whole(handled(s), m) ELSE Cut(handled(s), m)

PossibleReplies == {NoReply, NoURI, NoRootResource} \cup Answers

(* No line of a response is refused; what finished() makes of a part of it *)
(* is taken from it, and of the whole it makes what was sent.              *)
ReadsReplies ==
  \A r \in PossibleReplies :
    LET data == sendResponse(r)
    IN  /\ data \in Seq(Range(data))
        /\ Accepts(Parsed(NewResponse, data)) /\ SizeKnown(Parsed(NewResponse, data))
        /\ \A k \in 0..Len(data) :
             LET s == Parsed(NewResponse, SubSeq(data, 1, k))
             IN  Finish(s).kind = "returned" =>
                   /\ IsTakenFrom(Finish(s), r)
                   /\ k = Len(data) => Finish(s).status = r.status /\ Finish(s).entity = r.entity

=============================================================================

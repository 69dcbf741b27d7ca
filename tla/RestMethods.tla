---------------------------- MODULE RestMethods ----------------------------
(***************************************************************************)
(* c2s-rest: how a method is put together from segments, parameters,       *)
(* streamers and unstreamers, and what it does with a request before       *)
(* process() is called.  What the request sets stays in the method until   *)
(* another request sets it.                                                *)
(***************************************************************************)
EXTENDS Matching, HttpHeader

BadRequest == 400
NotAcceptable == 406
UnsupportedMediaType == 415

-----------------------------------------------------------------------------
(* Construction.  "threw" stands for the exception that is thrown for an   *)
(* empty segment and for a second query parameter, streamer or unstreamer  *)
(* of the same name or type.                                               *)
(* The members that parameters and unstreamers write to are "values" and   *)
(* "received".                                                             *)
SegmentsOf(ids) == [i \in DOMAIN ids |-> PathSegment(ids[i])]

Segments(sPath) == SegmentsOf(SelectSeq(splitString(sPath, "/", FALSE), LAMBDA id : id # <<>>))

prototype(name, methodType, sPath) ==
  [name |-> name, methodType |-> methodType, path |-> Segments(sPath), queryParameters |-> <<>>,
   streamers |-> <<>>, unstreamers |-> <<>>, entityType |-> "valid", threw |-> FALSE,
   values |-> NoFields, received |-> NoFields, isRunning |-> FALSE]

GET(name, sPath) == prototype(name, "GET", sPath)
POST(name, sPath) == prototype(name, "POST", sPath)
DELETE(name, sPath) == prototype(name, "DELETE", sPath)

(* A method whose responses have no entity: C2SHttpInvalidEntityType. *)
withoutEntity(m) == [m EXCEPT !.entityType = "invalid"]

Unset(valueType) == IF valueType = "number" THEN 0 ELSE <<>>

addPathSegment(m, sPathSegment) ==
  [m EXCEPT !.path = @ \o Segments(sPathSegment),
            !.threw = @ \/ <<>> \in Range(splitString(sPathSegment, "/", FALSE))]

addPathParameter(m, id, valueType) ==
  LET parameter == PathParameter(id, valueType)
  IN  [m EXCEPT !.path = Append(@, parameter), !.values = (parameter.id :> Unset(valueType)) @@ @]

QueryParameter(id, valueType, isDefaultAllowed, default) ==
  [id |-> id, valueType |-> valueType, isDefaultAllowed |-> isDefaultAllowed, default |-> default]

(* The parameters are kept in a map; callers add them by name here. *)
addQueryParameter(m, parameter) ==
  [m EXCEPT !.queryParameters = Append(@, parameter),
            !.values = (parameter.id :> Unset(parameter.valueType)) @@ @,
            !.threw = @ \/ \E p \in Range(m.queryParameters) : p.id = parameter.id]

installEntityStreamer(m, type) ==
  [m EXCEPT !.streamers = Append(@, type), !.threw = @ \/ type \in Range(m.streamers)]

installRequestEntityUnstreamer(m, type) ==
  [m EXCEPT !.unstreamers = Append(@, type), !.received = (type :> <<>>) @@ @,
            !.threw = @ \/ type \in Range(m.unstreamers)]

-----------------------------------------------------------------------------
(* What the constructions above make of a method that is not refused:      *)
(* parameters write to members of their own.                               *)
PathParameters(m) == {i \in DOMAIN m.path : m.path[i].segmentType = "Parameter"}

MethodFields ==
  {"name", "methodType", "path", "queryParameters", "streamers", "unstreamers", "entityType", "threw",
   "values", "received", "isRunning"}

WellFormed(m) ==
  /\ DOMAIN m = MethodFields
  /\ m.path \in Seq(Range(m.path))
  /\ m.queryParameters \in Seq(Range(m.queryParameters))
  /\ m.streamers \in Seq(Range(m.streamers))
  /\ \A i \in PathParameters(m) :
       /\ m.path[i].id \in DOMAIN m.values
       /\ \A j \in PathParameters(m) : m.path[i].id = m.path[j].id => i = j
       /\ \A q \in Range(m.queryParameters) : m.path[i].id # q.id
  /\ \A p \in Range(m.queryParameters) :
       /\ p.id \in DOMAIN m.values
       /\ \A q \in Range(m.queryParameters) : p.id = q.id => p = q
  /\ ~m.isRunning

-----------------------------------------------------------------------------
(* Parameters. *)
convert(valueType, text) ==
  IF valueType = "number" THEN toNumber(LeadingNumber(text)) ELSE text

(* Of path IDs that the method matches, which can be converted.  The last  *)
(* of several parameters with one ID is the one that stays.                *)
processPathIDs(m, pathIDs) ==
  LET lastOf(id) == CHOOSE i \in PathParameters(m) :
                      /\ m.path[i].id = id
                      /\ \A j \in PathParameters(m) : m.path[j].id = id => j <= i
      bound(i) == convert(m.path[i].valueType, pathIDs[i])
  IN  [m EXCEPT !.values =
         [id \in DOMAIN @ |-> IF \E i \in PathParameters(m) : m.path[i].id = id
                              THEN bound(lastOf(id)) ELSE @[id]]]

(* Seeded fault: a parameter that the request does not name is left alone. *)
setParameter_KeepsValue(p, queryFields, old) ==
  IF p.id \in DOMAIN queryFields THEN convert(p.valueType, queryFields[p.id]) ELSE old

(* What becomes of the old value of the member that a parameter writes to. *)
setParameter(p, queryFields, old) ==
  IF p.id \in DOMAIN queryFields THEN convert(p.valueType, queryFields[p.id]) ELSE p.default

setQueryParameters(m, parameters, queryFields) ==
  [m EXCEPT !.values =
     [id \in DOMAIN @ |-> IF \E p \in parameters : p.id = id
                          THEN setParameter(CHOOSE p \in parameters : p.id = id, queryFields, @[id])
                          ELSE @[id]]]

QueryParameterFails(p, queryFields) ==
  IF p.id \in DOMAIN queryFields THEN ~isPossibleToConvert(p.valueType, queryFields[p.id])
  ELSE ~p.isDefaultAllowed

(* The parameters before the first that fails are set.  What a number that *)
(* cannot be read leaves depends on the library: the value or zero.        *)
processQueryFields(m, queryFields) ==
  LET ps == m.queryParameters
      failing == SelectInSeq(ps, LAMBDA p : QueryParameterFails(p, queryFields))
      before == IF failing = 0 THEN ps ELSE SubSeq(ps, 1, failing - 1)
      done == setQueryParameters(m, Range(before), queryFields)
  IN  IF failing = 0 THEN [status |-> 0, methods |-> {done}]
      ELSE IF ps[failing].id \notin DOMAIN queryFields THEN [status |-> BadRequest, methods |-> {done}]
      ELSE [status |-> BadRequest, methods |-> {done, [done EXCEPT !.values[ps[failing].id] = 0]}]

-----------------------------------------------------------------------------
(* The unstreamer for the entity of a request: the status it is refused    *)
(* with, or 0.                                                             *)
unstreamRequestEntity(m, type, entity) ==
  IF m.methodType # "POST" \/ (m.unstreamers = <<>> /\ type = Wildcard) THEN 0
  ELSE IF type \notin Range(m.unstreamers) THEN UnsupportedMediaType
  ELSE IF entity = <<>> THEN InternalServerError ELSE 0

Streamer(type) == [status |-> 0, type |-> type]
NoStreamer(status) == [status |-> status, type |-> Wildcard]

(* Seeded fault: a wildcard is as good as the type itself. *)
detectEntityStreamerToUseForRequest_Wildcard(m, fields) ==
  LET first == SelectInSeq(m.streamers, LAMBDA type : isAccept(fields, type) \/ isAccept(fields, Wildcard))
  IN  IF m.streamers = <<>> THEN NoStreamer(InternalServerError)
      ELSE IF first # 0 THEN Streamer(m.streamers[first])
      ELSE NoStreamer(NotAcceptable)

detectEntityStreamerToUseForRequest(m, fields) ==
  LET first == SelectInSeq(m.streamers, LAMBDA type : isAccept(fields, type))
  IN  IF m.streamers = <<>> THEN NoStreamer(InternalServerError)
      ELSE IF first # 0 THEN Streamer(m.streamers[first])
      ELSE IF isAccept(fields, Wildcard) THEN Streamer(Head(m.streamers))
      ELSE NoStreamer(NotAcceptable)

(* What is kept for the next response; responses without entity skip it. *)
entityStreamer(m, fields) ==
  IF m.entityType = "invalid" THEN Streamer(Wildcard)
  ELSE detectEntityStreamerToUseForRequest(m, fields)

-----------------------------------------------------------------------------
(* Responses. *)
Response(status, type, entity) == [status |-> status, type |-> type, entity |-> entity]

ErrorResponse(status) == Response(status, Wildcard, <<>>)

isAccessToContextRoot(sResourceContext, sContextRoot) == uriEquals(sResourceContext, sContextRoot, FALSE)

resourceDescription(methodType, sContextRoot) ==
  IF methodType = "GET" THEN Response(200, <<"text/html">>, <<"<html>">> \o sContextRoot \o <<"</html>">>)
  ELSE ErrorResponse(MethodNotAllowed)

=============================================================================

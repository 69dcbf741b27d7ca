---------------------------- MODULE RestFixture ----------------------------
(***************************************************************************)
(* The server of the tests under c2s-test/rest: its resources, what their  *)
(* methods do, and the checks with the responses they expect.  A check is  *)
(* named as its function.                                                  *)
(***************************************************************************)
EXTENDS RestMethods, HttpParser

OK == 200
Created == 201

XML == <<"application/xml">>
JSON == <<"application/json">>
HTML == <<"text/html">>
XHTML == <<"application/xhtml+xml">>

sContextRootOfTestResource ==
  <<"g", "/", "forrest", "/", "test", "/", "rest-check", "/", "resource-1">>
sContextRootOfEmptyResource ==
  <<"g", "/", "forrest", "/", "test", "/", "rest-check", "/", "resource-2">>

-----------------------------------------------------------------------------
(* The methods. *)
AddPath == <<"math", "/", "add">>

arg1 == <<"arg1">>
arg2 == <<"arg2">>
multiplier == <<"multiplier">>
Argument(id) == <<"{">> \o id \o <<"}">>

WithArguments(m, id1, id2) == addPathParameter(addPathParameter(m, id1, "number"), id2, "number")

WithStreamers(m) == installEntityStreamer(installEntityStreamer(m, XML), JSON)

MethodAdd ==
  WithStreamers(addQueryParameter(WithArguments(GET("Add", AddPath), arg1, arg2),
                                  QueryParameter(multiplier, "number", TRUE, 0)))

MethodAddDuplicate ==
  addQueryParameter(WithArguments(GET("AddDuplicate", AddPath), <<"arg11">>, <<"arg22">>),
                    QueryParameter(<<"arg33">>, "string", TRUE, <<"arg33_default">>))

MethodAddDuplicatePOST ==
  WithStreamers(WithArguments(POST("AddDuplicatePOST", AddPath), arg1, arg2))

QueryFieldsPath == <<"check-query-fields", "/">>
sQueryField1Name == <<"uri">>
sQueryField2Name == <<"cfg">>
sQueryField1ValueExpected == <<"12arg", ":", ",", "478859", "'", "*", "#", "#", "*">>
sQueryField2ValueExpected == <<"field2Received">>
sQueryField2ValueDefault == <<"field2default">>

(* "cfg" comes before "uri" in the map of the parameters. *)
MethodQueryFields ==
  LET withCfg == addQueryParameter(withoutEntity(GET("QueryFields", QueryFieldsPath)),
                                   QueryParameter(sQueryField2Name, "string", TRUE, sQueryField2ValueDefault))
  IN  addQueryParameter(withCfg, QueryParameter(sQueryField1Name, "string", FALSE, <<>>))

sPathToMethod == <<"media-type">>
sPathSegment == <<"/", "convert", "/", "xml-or-json", "/">>

MethodMediaTypeConverter ==
  LET withPath == addPathSegment(POST("MediaTypeConverter", sPathToMethod), sPathSegment)
  IN  WithStreamers(installRequestEntityUnstreamer(installRequestEntityUnstreamer(withPath, XML), JSON))

MethodInvalidEntity ==
  withoutEntity(GET("InvalidEntity", <<"invalid", "/", "entity">>))

sleep == <<"sleep">>

MethodThreading ==
  addPathParameter(withoutEntity(GET("Threading", <<"threading">>)), sleep, "number")

MethodDELETE == withoutEntity(DELETE("DELETE", <<"delete">>))

(* A resource refuses a method that it has. *)
registerMethodPrototype(methods, m) ==
  IF existsMethodPrototype(methods, m) THEN methods ELSE Append(methods, m)

Methods ==
  FoldLeft(registerMethodPrototype, <<>>,
           <<MethodAdd, MethodAddDuplicatePOST, MethodQueryFields, MethodMediaTypeConverter,
             MethodInvalidEntity, MethodThreading, MethodDELETE>>)

Resources ==
  [root \in {sContextRootOfTestResource, <<"/">> \o sContextRootOfEmptyResource} |->
     IF root = sContextRootOfTestResource THEN Methods ELSE <<>>]

checkExceptionForRegistration(methods, m) == registerMethodPrototype(methods, m) = methods

(* The methods are what the constructions of RestMethods promise, those    *)
(* that answer with an entity have declared its type, what they read are   *)
(* parameters or entities of their own, and the roots are strings with a   *)
(* length.                                                                 *)
AnswersWithEntity(name) == name \in {"Add", "AddDuplicatePOST", "MediaTypeConverter"}

ReadBy(name) ==
  IF name = "Add" THEN {Argument(arg1), Argument(arg2), multiplier}
  ELSE IF name = "AddDuplicatePOST" THEN {Argument(arg1), Argument(arg2)} ELSE {}

ReceivesXMLOrJSON(m) ==
  /\ m.methodType = "POST" /\ m.unstreamers # <<>>
  /\ Range(m.unstreamers) = {XML, JSON} /\ m.received = [type \in {XML, JSON} |-> <<>>]

ASSUME FixtureAssumption ==
  \A root \in DOMAIN Resources :
    /\ Len(Stripped(root)) \in Nat
    /\ Resources[root] \in Seq(Range(Resources[root]))
    /\ \A i \in DOMAIN Resources[root] :
         LET m == Resources[root][i]
         IN  /\ WellFormed(m)
             /\ AnswersWithEntity(m.name) => m.entityType = "valid"
             /\ ReadBy(m.name) \subseteq
                  {m.path[k].id : k \in PathParameters(m)} \cup {q.id : q \in Range(m.queryParameters)}
             /\ m.name = "MediaTypeConverter" => ReceivesXMLOrJSON(m)

(* C2STestRestServerInitialization, and that the fixture is constructed.   *)
ASSUME InitializationTest ==
  /\ checkExceptionForRegistration(<<MethodAdd>>, MethodAdd)
  /\ checkExceptionForRegistration(<<MethodAdd>>, MethodAddDuplicate)
  /\ Len(Methods) = 7 /\ \A i \in DOMAIN Methods : ~Methods[i].threw

-----------------------------------------------------------------------------
(* Entities, and what process() answers. *)
StreamedXML(content) == <<"<xml>">> \o content \o <<"</xml>">>
StreamedJSON(content) == <<"{">> \o content \o <<"}">>

Streamed(type, content) == IF type = XML THEN StreamedXML(content) ELSE StreamedJSON(content)

(* unstream() of an entity between its tags or brackets, by the unstreamer *)
(* for its type.                                                           *)
BetweenTags(data) == SubSeq(data, Len(<<"<xml>">>) + 1, Len(data) - Len(<<"</xml>">>))
BetweenBrackets(data) == SubSeq(data, 2, Len(data) - 1)

Between(type, data) == IF type = XML THEN BetweenTags(data) ELSE BetweenBrackets(data)

unstream(m, type, data) ==
  IF type \notin DOMAIN m.received THEN m ELSE [m EXCEPT !.received[type] = Between(type, data)]

(* The converter looks for an entity in XML first. *)
Source(m) == IF m.received[XML] # <<>> THEN XML ELSE JSON

buildResponse(status, streamer, content) == Response(status, streamer, Streamed(streamer, content))

processAdd(v, streamer) ==
  buildResponse(OK, streamer, toString((v[Argument(arg1)] + v[Argument(arg2)]) * v[multiplier]))

processAddDuplicatePOST(v, streamer) ==
  buildResponse(Created, streamer, toString(v[Argument(arg1)] + v[Argument(arg2)]))

processMediaTypeConverter(m, streamer) == buildResponse(Created, streamer, m.received[Source(m)])

process(m, streamer) ==
  CASE m.name = "Add" -> processAdd(m.values, streamer)
    [] m.name = "AddDuplicatePOST" -> processAddDuplicatePOST(m.values, streamer)
    [] m.name = "MediaTypeConverter" -> processMediaTypeConverter(m, streamer)
    [] m.name = "InvalidEntity" -> ErrorResponse(InternalServerError)
    [] m.name = "DELETE" -> Response(Created, Wildcard, <<>>)
    [] OTHER -> Response(OK, Wildcard, <<>>)

(* processXML() and processJSON() clear the flag of what they read. *)
afterProcess(m) ==
  IF m.name # "MediaTypeConverter" THEN m ELSE [m EXCEPT !.received[Source(m)] = <<>>]

-----------------------------------------------------------------------------
(* C2STestRestRequest and C2STestRestResponse. *)
build(method, sURI) ==
  [header |-> [RequestHeader EXCEPT !.Method = method, !.URI = sURI], entity |-> <<>>]

query_field(r, name, value) == [r EXCEPT !.header = addField(@, name, value)]

accept(r, mediatype) == [r EXCEPT !.header.Fields = addAccept(@, MediaType(mediatype))]

entity(r, mediaType, sEntityData) ==
  [r EXCEPT !.header.Fields = setContentLength(setContentType(@, MediaType(mediaType)), Len(sEntityData)),
            !.entity = sEntityData]

check(request, status) == [request |-> request, status |-> status, entity |-> <<>>, type |-> Wildcard]

checkEntity(request, status, type, content) ==
  [request |-> request, status |-> status, entity |-> Streamed(type, content), type |-> type]

(* Content-Length is what setEntity() makes it: the size of the entity.    *)
passes(expected, response) ==
  /\ response.status = expected.status
  /\ expected.entity # <<>> => response.entity = expected.entity /\ response.type = expected.type

TestURI == <<"/">> \o sContextRootOfTestResource
EmptyURI == <<"/">> \o sContextRootOfEmptyResource
Slash(s) == <<"/">> \o s

ContextRootChecks ==
  [checkContextRootForGET |-> check(build("GET", sContextRootOfTestResource), OK),
   checkContextRootForGETWithLeadingSlash |-> check(build("GET", TestURI), OK),
   checkContextRootForPOST |-> check(build("POST", TestURI), MethodNotAllowed),
   checkContextRootForPUT |-> check(build("PUT", TestURI), MethodNotAllowed),
   checkContextRootForDELETE |-> check(build("DELETE", TestURI), MethodNotAllowed)]

AddURI(arguments) == TestURI \o Slash(AddPath) \o arguments
TwoAndFour == <<"/", "2", "/", "4">>

NotFoundChecks ==
  [checkResourceNotFound |-> check(build("GET", TestURI \o <<"/", "not-a-method">>), NotFound),
   checkResourceNotFoundDueToMissingSlash |-> check(build("GET", TestURI \o QueryFieldsPath), NotFound),
   checkResourceNotFoundDueToMissingPathParameters |-> check(build("GET", AddURI(<<>>)), NotFound),
   checkResourceNotFoundDueToForbiddenPathParameters |->
     check(build("GET", AddURI(TwoAndFour \o <<"/", "invalid">>)), NotFound)]

QueryFieldsURI == TestURI \o Slash(QueryFieldsPath)

QueryFieldChecks ==
  [checkEncodingAndDecodingOfQueryFields |->
     check(query_field(query_field(build("GET", QueryFieldsURI), sQueryField1Name, sQueryField1ValueExpected),
                       sQueryField2Name, sQueryField2ValueExpected), OK),
   checkEncodingAndDecodingOfQueryFieldsMissingQueryParameter |->
     check(build("GET", QueryFieldsURI), BadRequest),
   checkInvalidEntityType |->
     check(build("GET", TestURI \o <<"/", "invalid", "/", "entity">>), InternalServerError)]

Add(method) == build(method, AddURI(TwoAndFour))

StreamerChecks ==
  [checkPathParametersWithXMLResponseEntity |-> checkEntity(accept(Add("GET"), XML), OK, XML, <<"0">>),
   checkPathParametersWithJSONResponseEntity |-> checkEntity(accept(Add("GET"), JSON), OK, JSON, <<"0">>),
   checkPathParametersWithXMLResponseEntityAsDefault |->
     checkEntity(accept(Add("GET"), Wildcard), OK, XML, <<"0">>),
   checkForUndefinedContentType |-> check(Add("GET"), NotAcceptable),
   checkForWrongContentType |-> check(accept(Add("GET"), XHTML), NotAcceptable)]

MethodTypeChecks ==
  [checkForMethodTypePOSTWithDuplicateGET |-> checkEntity(accept(Add("POST"), JSON), Created, JSON, <<"6">>),
   checkForWrongMethodTypePUT |-> check(accept(Add("PUT"), XML), MethodNotAllowed),
   checkForMethodTypeDELETE |-> check(build("DELETE", TestURI \o <<"/", "delete">>), Created),
   checkForWrongMethodTypeDELETE |-> check(accept(Add("DELETE"), XML), MethodNotAllowed)]

Multiplied(r, factor) == query_field(r, multiplier, factor)

QueryParameterChecks ==
  [checkPathParametersAndQueryParametersWithXMLResponseEntity |->
     checkEntity(Multiplied(accept(Add("GET"), XML), <<"2">>), OK, XML, <<"12">>),
   checkPathParametersAndQueryParametersWithJSONResponseEntity |->
     checkEntity(Multiplied(accept(Add("GET"), JSON), <<"2">>), OK, JSON, <<"12">>),
   checkPathParametersAndQueryParametersWithWrongQueryParameterType |->
     check(Multiplied(accept(Add("GET"), JSON), <<"k", "2">>), BadRequest),
   checkPathParametersAndQueryParametersWithWrongPathParameterType |->
     check(Multiplied(accept(build("GET", AddURI(<<"/", "string", "/", "4">>)), JSON), <<"2">>), NotFound)]

EmptyResourceChecks ==
  [checkEmptyResourceContextRoot |-> check(build("GET", sContextRootOfEmptyResource), OK),
   checkEmptyResourceContextRootWithLeadingSlash |-> check(build("GET", EmptyURI), OK),
   checkEmptyResourceMethodNotFound |-> check(build("GET", EmptyURI \o <<"/", "not-a-method">>), NotFound)]

Convert(type, data, accepted) ==
  entity(accept(build("POST", TestURI \o Slash(sPathToMethod) \o Slash(sPathSegment)), accepted), type, data)

Content == <<"my content">>

ConverterChecks ==
  [checkXMLRequestEntityToJSONResponseEntity |->
     checkEntity(Convert(XML, Streamed(XML, Content), JSON), Created, JSON, Content),
   checkJSONRequestEntityToXMLResponseEntity |->
     checkEntity(Convert(JSON, Streamed(JSON, Content), XML), Created, XML, Content),
   checkHTMLRequestEntityToJSONResponseEntityUnsupportedMediaTypeResponse |->
     check(Convert(HTML, <<"<html>", "my content", "</html>">>, XML), UnsupportedMediaType)]

ThreadingChecks ==
  [checkMultiThreading |-> check(build("GET", TestURI \o <<"/", "threading", "/", "5">>), OK)]

Checks ==
  ContextRootChecks @@ NotFoundChecks @@ QueryFieldChecks @@ StreamerChecks @@ MethodTypeChecks
    @@ QueryParameterChecks @@ EmptyResourceChecks @@ ConverterChecks @@ ThreadingChecks

(* What the client sends for a check is parsed as the request of the check. *)
ASSUME RequestsArrive ==
  \A name \in DOMAIN Checks :
    LET sent == Checks[name].request
        arrived == parse(NewParser, RequestHeader, requestToString(sent.header) \o sent.entity)
    IN  /\ \A field \in {"Method", "URI", "QueryFields", "threw"} : arrived.header[field] = sent.header[field]
        /\ DOMAIN arrived.header.Fields.accept.byType = DOMAIN sent.header.Fields.accept.byType
        /\ arrived.header.Fields.contentType.Type = sent.header.Fields.contentType.Type
        /\ arrived.parser.body = sent.entity

=============================================================================

---------------------------- MODULE HttpMessages ----------------------------
(***************************************************************************)
(* The messages of C2STestHttpBasic.cpp, and what its tests expect the     *)
(* parser to make of them.  The tests cut each in one way; ParserTests     *)
(* tries every way to cut three of them in three, and HttpExchange sends   *)
(* the others.  Content-Length counts the words of the body.               *)
(***************************************************************************)
EXTENDS HttpParser

TestBody == <<"ThisIsMyContent", "LF", "LF", "LF", "This is my content part II">>

TestLength == toString(Len(TestBody))

Quality(q) == <<";", "q", "=", q>>

AcceptLine(xhtmlCharset) ==
  <<"Accept", ":", " ", "text/html", ",", "application/xhtml+xml">> \o xhtmlCharset
    \o <<",", "application/xml">> \o Quality("0.9") \o <<",", "*/*">> \o Quality("0.834") \o CRLF

Charset(name) == <<";", "charset", "=", name>>

(* Content-Length ends with a LF alone. *)
EntityLines(type) ==
  <<"Content-Length", ":", " ">> \o TestLength \o <<"LF", "Content-Type", ":", " ">> \o type \o CRLF \o CRLF

Accepted == [type \in {<<"text/html">>, <<"application/xhtml+xml">>, <<"application/xml">>, Wildcard} |->
               CASE type = Wildcard -> 834 [] type = <<"application/xml">> -> 900 [] OTHER -> 1000]

RequestLine(method, resource) ==
  <<"LF", "LF", method, " ">> \o resource \o <<" ", "HTTP/", "1.1">> \o CRLF

TestURI == <<"/", "c2s", "/", "test", "/", "http-parser">>

(* bytes: what is sent; the rest: what is to be read from it. *)
Message(bytes, method, uri, query, accept, type, entity) ==
  [bytes |-> bytes, method |-> method, uri |-> uri, query |-> query, accept |-> accept,
   contentType |-> type, entity |-> entity]

HttpRequestPOST1 ==
  Message(RequestLine("POST", TestURI) \o AcceptLine(<<>>)
            \o EntityLines(<<"application/json", ";", " ", "charset", "=", "UTF-8">>) \o TestBody,
          "POST", TestURI, NoFields, Accepted, <<"application/json">>, TestBody)

HttpRequestPOST2 ==
  Message(RequestLine("POST", TestURI \o <<"/">>) \o AcceptLine(Charset("UTF-8"))
            \o EntityLines(<<"application/x-www-form-urlencoded">>) \o TestBody,
          "POST", TestURI \o <<"/">>, NoFields, Accepted, <<"application/x-www-form-urlencoded">>, TestBody)

HttpRequestPOST3 ==
  Message(RequestLine("POST", TestURI \o <<"?", "fieldname1", "=", "value1", "&", "fieldname2", "=", "value2",
                                           "&", "fieldname3", "=", "value3">>)
            \o AcceptLine(<<>>) \o EntityLines(<<"application/x-www-form-urlencoded">>) \o TestBody,
          "POST", TestURI,
          <<"fieldname1">> :> <<"value1">> @@ <<"fieldname2">> :> <<"value2">> @@ <<"fieldname3">> :> <<"value3">>,
          Accepted, <<"application/x-www-form-urlencoded">>, TestBody)

(* Without the empty line that ends a header. *)
HttpRequestGET ==
  Message(RequestLine("GET", TestURI \o <<"/">>) \o AcceptLine(<<>>),
          "GET", TestURI \o <<"/">>, NoFields, Accepted, Wildcard, <<>>)

HttpResponseOK ==
  <<"LF", "LF", "HTTP/", "1.1", " ", "200">> \o CRLF
    \o <<"Content-Length", ":", " ">> \o TestLength \o CRLF
    \o <<"Content-Type", ":", " ", "text/html">> \o CRLF \o CRLF \o TestBody

HttpResponseNotFound ==
  <<"LF", "LF", "HTTP/", "1.1", " ", "404", " ", "Not", " ", "Found">> \o CRLF \o CRLF

(* What three chunks are parsed as, wherever they are cut. *)
ParsedAs(bytes, newHeader, Expected(_, _)) ==
  \A i \in 0..Len(bytes) : \A j \in i..Len(bytes) :
    \A one \in {parse(NewParser, newHeader, SubSeq(bytes, 1, i))} :
    \A two \in {parse(one.parser, one.header, SubSeq(bytes, i + 1, j))} :
    \A all \in {parse(two.parser, two.header, From(bytes, j + 1))} :
      all.header.threw = 0 /\ ~all.parser.failed /\ Expected(all.header, all.parser.body)

ASSUME ParserTests ==
  /\ ParsedAs(HttpResponseOK, ResponseHeader(500, <<>>), LAMBDA h, body :
       /\ h.Status = 200 /\ h.ReasonPhrase = <<>> /\ body = TestBody
       /\ h.Fields.contentType.Type = <<"text/html">> /\ h.Fields.contentType.fQ = 1000)
  /\ ParsedAs(HttpResponseNotFound, ResponseHeader(500, <<>>), LAMBDA h, body :
       h.Status = 404 /\ h.ReasonPhrase = <<"Not", " ", "Found">>)
  /\ ParsedAs(HttpRequestPOST2.bytes, RequestHeader, LAMBDA h, body :
       /\ h.Method = "POST" /\ h.URI = HttpRequestPOST2.uri /\ body = TestBody
       /\ h.Fields.contentType.Type = HttpRequestPOST2.contentType
       /\ [t \in DOMAIN h.Fields.accept.byType |-> h.Fields.accept.byType[t].fQ] = Accepted
       /\ h.Fields.accept.byType[<<"text/html">>].Charset = <<"ISO-8859-1">>
       /\ h.Fields.accept.byType[<<"application/xhtml+xml">>].Charset = <<"UTF-8">>)

=============================================================================

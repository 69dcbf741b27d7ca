----------------------------- MODULE HttpHeader -----------------------------
(***************************************************************************)
(* What a line of a header means: media types, header fields, query        *)
(* fields, the request line and the status line.  Strings are sequences of *)
(* words and separators.  A handler of splitNhandle() that throws sets     *)
(* "threw" to the status of its exception.  Qualities are in thousandths.  *)
(***************************************************************************)
EXTENDS StringUtils, TLC

CRLF == <<"CR", "LF">>

NoFields == <<>>

MediaType(type) ==
  [Type |-> type, Charset |-> <<"ISO-8859-1">>, fQ |-> 1000, iArgIdx |-> 0]

Wildcard == <<"*/*">>

isCharSet(data) == startsWith(From(data, NextIn(data, 1, LAMBDA c : c # " ")), <<"charset">>)

detectCharset(data) ==
  LET parts == splitNhandle(data, "=") IN IF Len(parts) > 1 THEN Last(parts) ELSE <<>>

detectQualityValue(data) ==
  LET parts == splitNhandle(data, "=") IN IF Len(parts) > 1 THEN toNumber(Last(parts)) ELSE 1000

MaximumArguments == 2

(* More than two arguments throw: iArgIdx then exceeds the maximum. *)
detect(type, data) ==
  LET next == [type EXCEPT !.iArgIdx = @ + 1]
  IN  CASE type.iArgIdx = 0 -> [next EXCEPT !.Type = data]
        [] type.iArgIdx = 1 /\ isCharSet(data) -> [next EXCEPT !.Charset = detectCharset(data)]
        [] type.iArgIdx = 1 /\ ~isCharSet(data) -> [next EXCEPT !.fQ = detectQualityValue(data)]
        [] OTHER -> next

mediaTypeToString(type) ==
  type.Type \o IF type.fQ = 1000 THEN <<>> ELSE <<";", "q", "=">> \o toString(type.fQ)

-----------------------------------------------------------------------------
(* C2SHttpMediaTypeList.  byQuality is in the order of its iterators:      *)
(* backwards through a multiset, so that of equal types the last is first. *)
EmptyMediaTypeList == [byQuality |-> <<>>, byType |-> NoFields]

addDetected(list, data) ==
  LET type == FoldLeft(detect, MediaType(Wildcard), splitNhandle(data, ";"))
      at == SelectInSeq(list.byQuality, LAMBDA t : t.fQ <= type.fQ)
  IN  [byQuality |-> InsertAt(list.byQuality, IF at = 0 THEN Len(list.byQuality) + 1 ELSE at, type),
       byType |-> list.byType @@ (type.Type :> type)]

detectList(value) == FoldLeft(addDetected, EmptyMediaTypeList, splitNhandle(value, ","))

-----------------------------------------------------------------------------
(* C2SHttpHeaderFields. *)
HeaderFields ==
  [fields |-> NoFields, accept |-> EmptyMediaTypeList, contentType |-> MediaType(Wildcard),
   contentLength |-> 0]

set(this, name, value) ==
  LET new == [this EXCEPT !.fields = (name :> value) @@ @]
  IN  CASE name = <<"Accept">> -> [new EXCEPT !.accept = detectList(value)]
        [] name = <<"Content-Type">> ->
             [new EXCEPT !.contentType = FoldLeft(detect, @, splitNhandle(value, ";"))]
        [] name = <<"Content-Length">> -> [new EXCEPT !.contentLength = toNumber(value)]
        [] OTHER -> new

isAccept(this, type) == type \in DOMAIN this.accept.byType

addAccept(this, type) ==
  LET old == IF <<"Accept">> \in DOMAIN this.fields THEN this.fields[<<"Accept">>] \o <<",">> ELSE <<>>
  IN  [this EXCEPT !.accept.byType = (type.Type :> type) @@ @,
                   !.fields = (<<"Accept">> :> old \o mediaTypeToString(type)) @@ @]

setContentType(this, type) ==
  [this EXCEPT !.fields = (<<"Content-Type">> :> type.Type) @@ @, !.contentType = type]

setContentLength(this, n) ==
  [this EXCEPT !.fields = (<<"Content-Length">> :> toString(n)) @@ @, !.contentLength = n]

(* In the order of the names. *)
FieldOrder == << <<"Accept">>, <<"Content-Length">>, <<"Content-Type">> >>

fieldsToString(this) ==
  LET names == SelectSeq(FieldOrder, LAMBDA n : n \in DOMAIN this.fields)
  IN  FlattenSeq([i \in DOMAIN names |-> names[i] \o <<":", " ">> \o this.fields[names[i]] \o CRLF])
        \o CRLF

-----------------------------------------------------------------------------
(* Headers, and what the handlers of their lines do to them. *)
RequestHeader ==
  [Method |-> "GET", URI |-> <<>>, Version |-> <<"1.1">>, QueryFields |-> NoFields,
   Fields |-> HeaderFields, threw |-> 0]

ResponseHeader(status, phrase) ==
  [Status |-> status, ReasonPhrase |-> phrase, Version |-> <<"1.1">>, Fields |-> HeaderFields,
   threw |-> 0]

Throws(header, status) == [header EXCEPT !.threw = status]

(* A value that holds another '=' comes back for the same name and throws. *)
addField(header, name, value) ==
  IF name \in DOMAIN header.QueryFields THEN Throws(header, 400)
  ELSE [header EXCEPT !.QueryFields = @ @@ (name :> value)]

parseQueryField(header, data) ==
  LET parts == splitNhandle(data, "=")
  IN  FoldLeft(LAMBDA h, value : addField(h, parts[1], urlDecode(value)), header, Tail(parts))

parseURI(header, data) ==
  LET parts == splitNhandle(data, "?")
      located == [header EXCEPT !.URI = parts[1]]
  IN  CASE Len(parts) = 1 -> located
        [] Len(parts) = 2 -> FoldLeft(parseQueryField, located, splitNhandle(parts[2], "&"))
        [] OTHER -> Throws(located, 400)

parseResource(header, data) ==
  LET parts == splitNhandle(data, " ")
      located == parseURI(header, parts[1])
  IN  CASE Len(parts) = 1 -> located
        [] parts[Min({2, Len(parts)})] = <<>> -> Throws(located, 400)
        [] OTHER -> [located EXCEPT !.Version = Tail(parts[2])]

handleRequestLine(header, line) ==
  IF \E m \in {"POST", "GET", "PUT", "DELETE"} : startsWith(line, <<m, " ">>)
  THEN parseResource([header EXCEPT !.Method = line[1]], From(line, 3))
  ELSE Throws(header, 400)

HttpStatus ==
  200..206 \cup 300..305 \cup {307} \cup 400..417 \cup 500..505

fromString(header, status) ==
  IF status \in DOMAIN NumberOf /\ toNumber(status) \in HttpStatus
  THEN [header EXCEPT !.Status = toNumber(status)]
  ELSE Throws(header, 500)

(* C2SHttpParseResponse: the words of the reason phrase are joined again.   *)
C2SHttpParseResponse(line) ==
  LET parts == splitNhandle(line, " ")
  IN  [fHttpVersion |-> Tail(parts[1]),
       Status |-> parts[2],
       sReasonPhrase |-> FoldLeft(LAMBDA s, part : IF s = <<>> THEN part ELSE s \o <<" ">> \o part,
                                  <<>>, From(parts, 3))]

handleStatusLine(header, line) ==
  LET rp == C2SHttpParseResponse(line)
  IN  fromString([header EXCEPT !.Version = rp.fHttpVersion, !.ReasonPhrase = rp.sReasonPhrase], rp.Status)

(* The colons that follow the first one are not put back. *)
parseHeaderField(line) ==
  LET parts == splitNhandle(line, ":")
      stripped == From(parts, 2)
      value == FlattenSeq(stripped)
  IN  [name |-> parts[1],
       value |-> IF stripped # <<>> /\ stripped[1] # <<>> /\ stripped[1][1] = " " THEN Tail(value) ELSE value]

TooManyArguments(header) ==
  \E t \in Range(header.Fields.accept.byQuality) \cup {header.Fields.contentType} :
    t.iArgIdx > MaximumArguments

ThrowsIfTooMany(header) == IF TooManyArguments(header) THEN Throws(header, 400) ELSE header

setField(fields, field) == set(fields, field.name, field.value)

handleField(header, line) ==
  ThrowsIfTooMany([header EXCEPT !.Fields = setField(@, parseHeaderField(line))])

-----------------------------------------------------------------------------
queryFieldsToString(q) ==
  LET names == SetToSeq(DOMAIN q)
  IN  FlattenSeq([i \in DOMAIN names |->
        (IF i = 1 THEN <<"?">> ELSE <<"&">>) \o names[i] \o <<"=">> \o urlEncode(q[names[i]])])

requestToString(header) ==
  <<header.Method, " ">> \o header.URI \o queryFieldsToString(header.QueryFields)
    \o <<" ", "HTTP/">> \o header.Version \o CRLF \o fieldsToString(header.Fields)

responseToString(header) ==
  <<"HTTP/", "1.1", " ">> \o toString(header.Status)
    \o (IF header.ReasonPhrase = <<>> THEN <<>> ELSE <<" ">> \o header.ReasonPhrase)
    \o CRLF \o fieldsToString(header.Fields)

=============================================================================

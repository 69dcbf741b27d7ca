---------------------------- MODULE MCRestServer ----------------------------
(* One handler gets all requests of the tests and some more; the other one *)
(* a second client of the threading test, which sleeps for another time.   *)
EXTENDS RestServer

CONSTANTS h1, h2

MCNumberOf ==
  LET text == (0 :> "0" @@ 2 :> "2" @@ 3 :> "3" @@ 4 :> "4" @@ 5 :> "5" @@ 6 :> "6" @@ 7 :> "7" @@ 12 :> "12"
               @@ 24 :> "24")
  IN  [s \in {<<text[n]>> : n \in DOMAIN text} |-> CHOOSE n \in DOMAIN text : text[n] = s[1]]

(* No URI, the root resource that the server does not have, an entity that *)
(* will be refused, one that is announced but missing, a number that is    *)
(* followed by something else, a list of types.                            *)
Others ==
  { accept(build("GET", <<>>), XML), build("GET", <<"/">>),
    Convert(XML, Streamed(XML, <<"old content">>), XHTML),
    [Convert(JSON, <<>>, XML) EXCEPT !.header.Fields.contentType = MediaType(JSON)],
    Multiplied(accept(Add("GET"), XML), <<"2", "k">>),
    accept(accept(Add("POST"), Wildcard), JSON) }

MCRequestsTo ==
  LET checks == Checks
  IN  h1 :> Range(checks) \cup {check(r, AnyStatus) : r \in Others}
        @@ h2 :> {check(build("GET", TestURI \o <<"/", "threading", "/", "3">>), OK)}

(* What the theorem on ChecksPass assumes of the requests. *)
ASSUME RequestsAreChecked == ChecksPassAlone /\ EntitiesHaveContent
=============================================================================

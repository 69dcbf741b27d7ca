--------------------------- MODULE MCHttpExchange ---------------------------
(* The requests of the tests, from clients that do or do not end their     *)
(* stream, and requests of C2SHttpClient: one with a query field that has  *)
(* to be encoded, one with an entity, one for which there is no resource.  *)
EXTENDS HttpExchange

MCNumberOf ==
  LET text == (2 :> "2" @@ 3 :> "3" @@ 5 :> "5" @@ 200 :> "200" @@ 201 :> "201" @@ 400 :> "400"
               @@ 404 :> "404" @@ 500 :> "500" @@ 834 :> "0.834" @@ 900 :> "0.9")
  IN  [s \in {<<text[n]>> : n \in DOMAIN text} |-> CHOOSE n \in DOMAIN text : text[n] = s[1]]

Shuts(message, shuts) == message @@ [shuts |-> shuts]

Query ==
  ClientMessage("GET", <<"/", "a", "/", "x">>, <<"q">> :> <<"v", "&", " ", "w">>,
                << [MediaType(<<"application/json">>) EXCEPT !.fQ = 900] >>, Wildcard, <<>>)
Entity ==
  ClientMessage("POST", <<"/", "c2s">>, NoFields, <<>>, <<"application/json">>, <<"LF", "CR">>)
NoResourceFor == ClientMessage("DELETE", <<"/", "b">>, NoFields, <<>>, Wildcard, <<>>)

MCMessages ==
  {Shuts(m, FALSE) : m \in {HttpRequestPOST1, HttpRequestPOST3}}
    \cup {Shuts(m, TRUE) : m \in {HttpRequestGET, Query, Entity, NoResourceFor}}

MCRoots == {<<"/", "a">>, <<"/", "c2s">>, <<"/", "c2s", "/", "test">>}

MCAnswers ==
  { [status |-> 200, phrase |-> <<>>, type |-> <<"text/html">>, entity |-> <<"x", "LF", "y">>],
    [status |-> 201, phrase |-> <<>>, type |-> Wildcard, entity |-> <<>>] }

(* What the proofs assume of the parser holds here. *)
ASSUME ParserReadsAll == ReadsMessages /\ ReadsReplies
=============================================================================

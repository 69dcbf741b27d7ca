---------------------------- MODULE MCHttpServer ----------------------------
(* An instance of HttpServer for TLC: of two resources with one context     *)
(* root, the second is refused; a method has a part of each kind.           *)
EXTENDS HttpServer

MCResources == <<"resource", "duplicate">>
MCContextRoot == [x \in {"resource", "duplicate"} |-> "root"]
MCMethodsOf == [x \in {"resource", "duplicate"} |-> {"method"}]
MCPartsOf == [m \in {"method"} |-> [k \in PartKinds |-> 1]]
MCHasBody == {TRUE}
=============================================================================

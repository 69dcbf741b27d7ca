------------------------------ MODULE Matching ------------------------------
(***************************************************************************)
(* Which resource and which of its methods a request is for:               *)
(* findLongestMatchString() over the context roots, and the distance of a  *)
(* method's path segments from the path IDs of the request.                *)
(***************************************************************************)
EXTENDS StringUtils, FiniteSets

NoResource == "NULL"
InternalServerError == 500
MethodNotAllowed == 405
NotFound == 404

-----------------------------------------------------------------------------
(* C2SHttpMatching.cpp. *)
Stripped(s) == From(s, SkipSlashes(s, 1))

(* Seeded fault: a root that ends inside a segment of the URI matches.     *)
MatchesRoot_AnyPrefix(sURI, root) ==
  /\ root \notin {<<>>, <<"/">>}
  /\ startsWith(Stripped(sURI), Stripped(root))

MatchesRoot(sURI, root) ==
  LET req == Stripped(sURI)
      res == Stripped(root)
  IN  /\ root \notin {<<>>, <<"/">>}
      /\ startsWith(req, res)
      /\ Len(req) = Len(res) \/ req[Len(res) + 1] = "/"

(* The assertion that no two matches have the same size. *)
UniqueMatches(sURI, roots) ==
  \A r, q \in {m \in roots : MatchesRoot(sURI, m)} :
    Len(Stripped(r)) = Len(Stripped(q)) => r = q

findLongestMatchString(sURI, roots) ==
  LET matches == {r \in roots : MatchesRoot(sURI, r)}
  IN  IF matches = {} THEN NoResource
      ELSE CHOOSE r \in matches : \A q \in matches : Len(Stripped(q)) <= Len(Stripped(r))

-----------------------------------------------------------------------------
(* Path segments.  The type a parameter is read as is "number" or "string". *)
PathSegment(id) == [segmentType |-> "ID", id |-> id, valueType |-> "string"]

PathParameter(id, valueType) ==
  [segmentType |-> "Parameter", id |-> <<"{">> \o id \o <<"}">>, valueType |-> valueType]

(* A number is read from a value that begins with one, whatever follows.   *)
LeadingNumber(value) == SubSeq(value, 1, 1)

isPossibleToConvert(valueType, value) ==
  valueType = "string" \/ LeadingNumber(value) \in DOMAIN NumberOf

isValidPathID(segment, pathID) ==
  IF segment.segmentType = "ID" THEN segment.id = pathID
  ELSE isPossibleToConvert(segment.valueType, pathID)

SameSegment(this, their) ==
  IF this.segmentType = "ID" THEN this.id = their.id ELSE their.segmentType = "Parameter"

SamePath(this, their) ==
  Len(this) = Len(their) /\ \A i \in DOMAIN this : SameSegment(this[i], their[i])

(* Seeded fault: a parameter counts once, wherever it is. *)
getDistanceToPathIDs_Count(segments, pathIDs) ==
  IF Len(pathIDs) # Len(segments) \/ \E i \in DOMAIN segments : ~isValidPathID(segments[i], pathIDs[i])
  THEN -1
  ELSE Cardinality({i \in DOMAIN segments : segments[i].segmentType = "ID"})

(* A parameter adds one to the distance for its own segment and for each   *)
(* that follows it.                                                        *)
getDistanceToPathIDs(segments, pathIDs) ==
  IF \/ Len(pathIDs) # Len(segments)
     \/ \E i \in DOMAIN segments : ~isValidPathID(segments[i], pathIDs[i])
  THEN -1
  ELSE Cardinality({pair \in (1..Len(segments)) \X (1..Len(segments)) :
                      segments[pair[1]].segmentType = "Parameter" /\ pair[1] <= pair[2]})

(* p names every segment that q names, and more. *)
MoreSpecific(p, q) ==
  /\ Len(p) = Len(q)
  /\ \A i \in DOMAIN p : q[i] = p[i] \/ q[i].segmentType = "Parameter"
  /\ \E i \in DOMAIN p : p[i].segmentType = "ID" /\ q[i].segmentType = "Parameter"

-----------------------------------------------------------------------------
(* C2SRestMethodPrototype::operator==() and the registration that uses it. *)
SameMethod(m, n) == SamePath(m.path, n.path) /\ m.methodType = n.methodType

existsMethodPrototype(methods, m) == \E i \in DOMAIN methods : SameMethod(methods[i], m)

(* C2SRestMatchMethodToRequest: the position of a method, or a status that *)
(* its caller or the resource manager answers with.                        *)
MatchFound(i) == [method |-> i, status |-> 0]
MatchFails(status) == [method |-> 0, status |-> status]

pathIDList(sURI, sContextRoot) ==
  splitString(From(sURI, uriSkip(sURI, sContextRoot, FALSE) + 1), "/", TRUE)

getPrototypeClosestToRequest(distance, candidates) ==
  CHOOSE i \in candidates : \A j \in candidates : distance[i] <= distance[j]

distances(methods, pathIDs) ==
  [i \in DOMAIN methods |-> getDistanceToPathIDs(methods[i].path, pathIDs)]

closestOf(methods, distance, methodType) ==
  LET matching == {i \in DOMAIN methods : distance[i] >= 0}
      candidates == {i \in matching : methods[i].methodType = methodType}
  IN  IF \E i, j \in candidates : i # j /\ distance[i] = distance[j]
      THEN MatchFails(InternalServerError)
      ELSE IF candidates # {} THEN MatchFound(getPrototypeClosestToRequest(distance, candidates))
      ELSE MatchFails(IF matching # {} THEN MethodNotAllowed ELSE NotFound)

getPrototypeWithBestMatch(sContextRoot, methods, sURI, methodType) ==
  IF methods = <<>> THEN MatchFails(NotFound)
  ELSE IF uriSkip(sURI, sContextRoot, FALSE) < 0 THEN MatchFails(InternalServerError)
  ELSE closestOf(methods, distances(methods, pathIDList(sURI, sContextRoot)), methodType)

=============================================================================

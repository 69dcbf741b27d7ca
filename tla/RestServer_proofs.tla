------------------------- MODULE RestServer_proofs -------------------------
(***************************************************************************)
(* Proofs about RestServer: for every number of handlers, all requests and *)
(* every reading of numbers, process() finds in a method what its own      *)
(* request asks for, it is answered with a media type that it accepts, and *)
(* as if nothing had been served before.                                   *)
(***************************************************************************)
EXTENDS RestServer, SequenceFacts, FiniteSetTheorems, TLAPS

-----------------------------------------------------------------------------
(* Least elements, for the choices that the code makes by comparing.       *)

(* The element that Min() chooses is one of the set. *)
LEMMA MinIsElement ==
  ASSUME NEW S \in SUBSET Nat, S # {}
  PROVE  Min(S) \in S
BY LeastExists DEF Min

-----------------------------------------------------------------------------
(* Negotiation.                                                            *)

(* The first streamer whose type the request names, the first of all if it *)
(* names none and accepts anything, or none.                               *)
LEMMA DetectedStreamer ==
  ASSUME NEW m, m.streamers \in Seq(Range(m.streamers)), NEW fields,
         NEW detected, detected = detectEntityStreamerToUseForRequest(m, fields)
  PROVE  /\ detected.status \in {0, InternalServerError, NotAcceptable}
         /\ detected.status = 0 =>
              IF NamedTypes(m, fields) # {} THEN detected.type \in NamedTypes(m, fields)
              ELSE isAccept(fields, Wildcard)
         /\ detected.status = NotAcceptable =>
              NamedTypes(m, fields) = {} /\ ~isAccept(fields, Wildcard)
<1> DEFINE I == {i \in 1..Len(m.streamers) : isAccept(fields, m.streamers[i])}
           first == IF I # {} THEN Min(I) ELSE 0
<1>1. detected = IF m.streamers = <<>> THEN NoStreamer(InternalServerError)
                 ELSE IF first # 0 THEN Streamer(m.streamers[first])
                 ELSE IF isAccept(fields, Wildcard) THEN Streamer(Head(m.streamers))
                 ELSE NoStreamer(NotAcceptable)
  BY DEF detectEntityStreamerToUseForRequest, SelectInSeq
<1>2. IF first # 0 THEN m.streamers[first] \in NamedTypes(m, fields) ELSE NamedTypes(m, fields) = {}
  <2>1. CASE I # {}
    <3>1. I \in SUBSET Nat
      OBVIOUS
    <3>2. first \in I
      BY <2>1, <3>1, MinIsElement
    <3>3. first \in 1..Len(m.streamers) /\ isAccept(fields, m.streamers[first])
      BY <3>2
    <3> HIDE DEF first
    <3>4. first # 0 /\ first \in DOMAIN m.streamers
      BY <3>3
    <3>. QED
      BY <3>3, <3>4 DEF NamedTypes, Range
  <2>2. CASE I = {}
    BY <2>2 DEF NamedTypes, Range
  <2>. QED
    BY <2>1, <2>2
<1> HIDE DEF first
<1>3. CASE m.streamers = <<>>
  BY <1>1, <1>3 DEF NoStreamer, InternalServerError, NotAcceptable
<1>4. CASE m.streamers # <<>> /\ first # 0
  BY <1>1, <1>2, <1>4 DEF Streamer, NotAcceptable
<1>5. CASE m.streamers # <<>> /\ first = 0 /\ isAccept(fields, Wildcard)
  BY <1>1, <1>2, <1>5 DEF Streamer, NotAcceptable
<1>6. CASE m.streamers # <<>> /\ first = 0 /\ ~isAccept(fields, Wildcard)
  BY <1>1, <1>2, <1>6 DEF NoStreamer, NotAcceptable
<1>. QED
  BY <1>3, <1>4, <1>5, <1>6

-----------------------------------------------------------------------------
(* Matching.                                                               *)

(* The fixture registers two resources. *)
LEMMA TwoRoots == DOMAIN Resources = {sContextRootOfTestResource, <<"/">> \o sContextRootOfEmptyResource}
BY DEF Resources

(* A resource that is found is one of those that are registered. *)
LEMMA FoundIsRegistered ==
  ASSUME NEW uri, findLongestMatchString(uri, DOMAIN Resources) # NoResource
  PROVE  findLongestMatchString(uri, DOMAIN Resources) \in DOMAIN Resources
<1> DEFINE matches == {r \in DOMAIN Resources : MatchesRoot(uri, r)}
           Longest(r) == \A q \in matches : Len(Stripped(q)) <= Len(Stripped(r))
<1>1. matches # {}
  BY DEF findLongestMatchString
<1>2. \A r \in DOMAIN Resources : Len(Stripped(r)) \in Nat
  BY FixtureAssumption
<1> HIDE DEF matches
<1>3. \E r \in matches : Longest(r)
  <2>1. matches \subseteq {sContextRootOfTestResource, <<"/">> \o sContextRootOfEmptyResource}
    BY TwoRoots DEF matches
  <2>2. \A r \in matches : Len(Stripped(r)) \in Nat
    BY <1>2 DEF matches
  <2>3. PICK a, b : matches \subseteq {a, b}
    BY <2>1
  <2>4. \A r, q \in matches : Len(Stripped(r)) <= Len(Stripped(q)) \/ Len(Stripped(q)) <= Len(Stripped(r))
    BY <2>2
  <2>. QED
    BY <1>1, <2>3, <2>4
<1>4. findLongestMatchString(uri, DOMAIN Resources) = CHOOSE r \in matches : Longest(r)
  BY <1>1 DEF findLongestMatchString, matches
<1>5. (CHOOSE r \in matches : Longest(r)) \in matches
  BY <1>3
<1>. QED
  BY <1>4, <1>5 DEF matches

(* Without its leading slashes a string is a string still. *)
LEMMA StrippedType ==
  ASSUME NEW S, NEW s \in Seq(S)
  PROVE  Stripped(s) \in Seq(S) /\ Len(Stripped(s)) \in Nat
<1> DEFINE positions == {k \in 1..Len(s) : s[k] # "/"} \cup {Len(s) + 1}
           first == Min(positions)
<1>1. SkipSlashes(s, 1) = first
  BY Zenon DEF SkipSlashes, NextIn
<1>2. first \in 1..(Len(s) + 1)
  <2>1. positions \in SUBSET Nat /\ positions # {} /\ positions \subseteq 1..(Len(s) + 1)
    OBVIOUS
  <2> HIDE DEF positions
  <2>. QED
    BY <2>1, MinIsElement
<1> HIDE DEF first
<1>3. first \in Nat /\ first >= 1
  BY <1>2
<1>4. Stripped(s) = SubSeq(s, first, Len(s))
  BY <1>1 DEF Stripped, From
<1>5. \A k \in first..Len(s) : s[k] \in S
  BY <1>3
<1>6. Stripped(s) \in Seq(S)
  BY <1>3, <1>4, <1>5
<1>. QED
  BY <1>6

(* Of two prefixes of one string the one that is not longer is a prefix of *)
(* the other.                                                              *)
LEMMA PrefixesAreNested ==
  ASSUME NEW S, NEW p \in Seq(S), NEW q \in Seq(S), NEW t \in Seq(S),
         IsPrefix(p, t), IsPrefix(q, t), Len(p) <= Len(q)
  PROVE  IsPrefix(p, q)
<1>1. \A i \in 1..Len(p) : p[i] = t[i]
  <2>1. SubSeq(p, 1, Len(p)) = SubSeq(t, 1, Len(p)) /\ Len(p) <= Len(t)
    BY DEF IsPrefix
  <2>2. \A i \in 1..Len(p) : SubSeq(p, 1, Len(p))[i] = p[i] /\ SubSeq(t, 1, Len(p))[i] = t[i]
    BY <2>1
  <2>. QED
    BY <2>1, <2>2
<1>2. \A i \in 1..Len(q) : q[i] = t[i]
  <2>1. SubSeq(q, 1, Len(q)) = SubSeq(t, 1, Len(q)) /\ Len(q) <= Len(t)
    BY DEF IsPrefix
  <2>2. \A i \in 1..Len(q) : SubSeq(q, 1, Len(q))[i] = q[i] /\ SubSeq(t, 1, Len(q))[i] = t[i]
    BY <2>1
  <2>. QED
    BY <2>1, <2>2
<1>3. \A i \in 1..Len(p) : p[i] = q[i]
  BY <1>1, <1>2
<1>4. SubSeq(p, 1, Len(p)) = SubSeq(q, 1, Len(p))
  BY <1>3
<1>. QED
  BY <1>4 DEF IsPrefix

(* The assertion that no two matches have one length never fails for roots *)
(* that differ after their leading slashes, and the resource that is found *)
(* is the nearest: the roots of all others that match are parts of its.    *)
THEOREM LongestMatchIsFound ==
  ASSUME NEW S, NEW sURI \in Seq(S), NEW roots \in SUBSET Seq(S),
         \A r, q \in roots : Stripped(r) = Stripped(q) => r = q
  PROVE  /\ UniqueMatches(sURI, roots)
         /\ \A r \in roots : MatchesRoot(sURI, r) =>
              LET found == findLongestMatchString(sURI, roots)
              IN  /\ found \in roots /\ MatchesRoot(sURI, found)
                  /\ r # found => IsStrictPrefix(Stripped(r), Stripped(found))
<1> DEFINE matches == {r \in roots : MatchesRoot(sURI, r)}
           Longest(r) == \A q \in matches : Len(Stripped(q)) <= Len(Stripped(r))
           found == CHOOSE r \in matches : Longest(r)
<1>1. Stripped(sURI) \in Seq(S)
  BY StrippedType
<1>2. \A r \in matches : /\ r \in roots /\ MatchesRoot(sURI, r)
                         /\ Stripped(r) \in Seq(S) /\ Len(Stripped(r)) \in Nat
  BY StrippedType
<1>3. \A r \in matches : IsPrefix(Stripped(r), Stripped(sURI))
  BY DEF MatchesRoot, startsWith
<1>4. \A r, q \in matches : Len(Stripped(r)) <= Len(Stripped(q)) => IsPrefix(Stripped(r), Stripped(q))
  <2> HIDE DEF matches
  <2>. QED
    BY <1>1, <1>2, <1>3, PrefixesAreNested
<1>5. \A r, q \in matches : Len(Stripped(r)) = Len(Stripped(q)) => r = q
  <2>1. \A r, q \in matches : Len(Stripped(r)) = Len(Stripped(q)) => Stripped(r) = Stripped(q)
    <3> HIDE DEF matches
    <3>1. SUFFICES ASSUME NEW r \in matches, NEW q \in matches, Len(Stripped(r)) = Len(Stripped(q))
                   PROVE  Stripped(r) = Stripped(q)
      OBVIOUS
    <3>2. SubSeq(Stripped(r), 1, Len(Stripped(r))) = SubSeq(Stripped(q), 1, Len(Stripped(q)))
      BY <1>2, <1>4, <3>1 DEF IsPrefix
    <3>3. \A t \in Seq(S) : SubSeq(t, 1, Len(t)) = t
      OBVIOUS
    <3>. QED
      BY <1>2, <3>1, <3>2, <3>3
  <2>. QED
    BY <2>1
<1>6. UniqueMatches(sURI, roots)
  BY <1>5 DEF UniqueMatches
<1>7. ASSUME NEW r \in matches
      PROVE  /\ findLongestMatchString(sURI, roots) = found
             /\ found \in matches /\ Longest(found)
  <2>1. \E n \in matches : Longest(n)
    <3> DEFINE above == {Len(Stripped(sURI)) - Len(Stripped(q)) : q \in matches}
    <3>0. Len(Stripped(sURI)) \in Nat
      BY StrippedType
    <3>1. \A q \in matches : Len(Stripped(sURI)) - Len(Stripped(q)) \in Nat
      <4> HIDE DEF matches
      <4>. QED
        BY <1>2, <1>3, <3>0 DEF IsPrefix
    <3>2. above \in SUBSET Nat /\ above # {}
      <4> HIDE DEF matches
      <4>. QED
        BY <1>7, <3>1
    <3>3. PICK n \in above : \A k \in above : n <= k
      BY <3>2, LeastExists
    <3>4. PICK q \in matches : n = Len(Stripped(sURI)) - Len(Stripped(q))
      BY <3>3
    <3> HIDE DEF matches
    <3>5. \A k \in matches : Len(Stripped(sURI)) - Len(Stripped(q)) <= Len(Stripped(sURI)) - Len(Stripped(k))
      BY <3>3, <3>4
    <3> HIDE DEF above
    <3>. QED
      BY <1>2, <3>0, <3>4, <3>5
  <2>2. matches # {}
    BY <1>7
  <2>3. findLongestMatchString(sURI, roots) = found
    BY <2>2 DEF findLongestMatchString
  <2> HIDE DEF matches
  <2>. QED
    BY <2>1, <2>3
<1>8. ASSUME NEW r \in matches, r # found
      PROVE  IsStrictPrefix(Stripped(r), Stripped(found))
  <2>1. found \in matches /\ Longest(found)
    BY <1>7
  <2> HIDE DEF matches, found
  <2>2. IsPrefix(Stripped(r), Stripped(found))
    BY <1>4, <2>1
  <2>3. Stripped(r) # Stripped(found)
    BY <1>2, <1>8, <2>1
  <2>. QED
    BY <2>2, <2>3 DEF IsStrictPrefix
<1>. QED
  BY <1>6, <1>7, <1>8

(* A distance is -1 for a path that does not match, or counts. *)
LEMMA DistanceType ==
  ASSUME NEW path, path \in Seq(Range(path)), NEW pathIDs
  PROVE  getDistanceToPathIDs(path, pathIDs) \in Nat \cup {-1}
<1> DEFINE D == 1..Len(path)
           P == {pair \in D \X D : path[pair[1]].segmentType = "Parameter" /\ pair[1] <= pair[2]}
<1>1. IsFiniteSet(D)
  BY FS_Interval
<1>2. IsFiniteSet(D \X D)
  BY <1>1, FS_Product
<1>3. P \in SUBSET (D \X D)
  OBVIOUS
<1>4. Cardinality(P) \in Nat
  BY <1>2, <1>3, FS_Subset, FS_CardinalityType
<1>. QED
  BY <1>4 DEF getDistanceToPathIDs

(* A method that is found is one of the resource. *)
LEMMA FoundIsMethod ==
  ASSUME NEW methods, \A i \in DOMAIN methods : methods[i].path \in Seq(Range(methods[i].path)),
         NEW root, NEW uri, NEW type,
         NEW match, match = getPrototypeWithBestMatch(root, methods, uri, type), match.status = 0
  PROVE  match.method \in DOMAIN methods
<1> DEFINE distance == distances(methods, pathIDList(uri, root))
           matching == {i \in DOMAIN methods : distance[i] >= 0}
           candidates == {i \in matching : methods[i].methodType = type}
           Closest(i) == \A j \in candidates : distance[i] <= distance[j]
<1>1. match = closestOf(methods, distance, type)
  <2> HIDE DEF distance
  <2>1. match = IF methods = <<>> THEN MatchFails(NotFound)
                ELSE IF uriSkip(uri, root, FALSE) < 0 THEN MatchFails(InternalServerError)
                ELSE closestOf(methods, distance, type)
    BY DEF getPrototypeWithBestMatch, distance
  <2>2. MatchFails(NotFound).status # 0 /\ MatchFails(InternalServerError).status # 0
    BY DEF MatchFails, NotFound, InternalServerError
  <2>. QED
    BY <2>1, <2>2
<1>2. match = MatchFound(getPrototypeClosestToRequest(distance, candidates)) /\ candidates # {}
  BY <1>1 DEF closestOf, MatchFails, NotFound, InternalServerError, MethodNotAllowed
<1>3. \A i \in DOMAIN methods : distance[i] \in Nat \cup {-1}
  BY DistanceType DEF distances
<1> HIDE DEF distance
<1>4. \E i \in candidates : Closest(i)
  <2> DEFINE lengths == {distance[i] : i \in candidates}
  <2>1. lengths \in SUBSET Nat /\ lengths # {}
    BY <1>2, <1>3
  <2>2. PICK n \in lengths : \A k \in lengths : n <= k
    BY <2>1, LeastExists
  <2>. QED
    BY <2>2
<1>5. getPrototypeClosestToRequest(distance, candidates) \in candidates
  BY <1>4 DEF getPrototypeClosestToRequest
<1>. QED
  BY <1>2, <1>5 DEF MatchFound

(* The more segments of a path are named rather than parameters, the       *)
(* closer it is to a request that both match.                              *)
LEMMA MoreSpecificIsCloser ==
  ASSUME NEW p, p \in Seq(Range(p)), NEW q, q \in Seq(Range(q)), MoreSpecific(p, q), NEW pathIDs,
         getDistanceToPathIDs(p, pathIDs) >= 0, getDistanceToPathIDs(q, pathIDs) >= 0
  PROVE  getDistanceToPathIDs(p, pathIDs) < getDistanceToPathIDs(q, pathIDs)
<1> DEFINE D == 1..Len(p)
           Counted(path) == {pair \in D \X D : path[pair[1]].segmentType = "Parameter" /\ pair[1] <= pair[2]}
<1>1. Len(q) = Len(p) /\ DOMAIN p = D
  BY DEF MoreSpecific
<1>2. /\ getDistanceToPathIDs(p, pathIDs) \in {-1, Cardinality(Counted(p))}
      /\ getDistanceToPathIDs(q, pathIDs) \in {-1, Cardinality(Counted(q))}
  BY <1>1 DEF getDistanceToPathIDs
<1>3. IsFiniteSet(D \X D)
  <2>1. IsFiniteSet(D)
    BY FS_Interval
  <2>. QED
    BY <2>1, FS_Product
<1>4. IsFiniteSet(Counted(p)) /\ IsFiniteSet(Counted(q))
  BY <1>3, FS_Subset
<1>5. Counted(p) \subseteq Counted(q)
  BY <1>1 DEF MoreSpecific
<1>6. Counted(p) # Counted(q)
  <2>1. PICK i \in D : p[i].segmentType = "ID" /\ q[i].segmentType = "Parameter"
    BY <1>1 DEF MoreSpecific
  <2>2. <<i, i>> \in Counted(q) /\ <<i, i>> \notin Counted(p)
    BY <2>1
  <2>. QED
    BY <2>2
<1> HIDE DEF Counted
<1>7. /\ Cardinality(Counted(p)) \in Nat /\ Cardinality(Counted(q)) \in Nat
      /\ Cardinality(Counted(p)) < Cardinality(Counted(q))
  <2>1. Cardinality(Counted(p)) \in Nat /\ Cardinality(Counted(q)) \in Nat
    BY <1>4, FS_CardinalityType
  <2>2. /\ Cardinality(Counted(p)) <= Cardinality(Counted(q))
        /\ Cardinality(Counted(p)) # Cardinality(Counted(q))
    BY <1>4, <1>5, <1>6, FS_Subset
  <2>. QED
    BY <2>1, <2>2
<1>8. getDistanceToPathIDs(p, pathIDs) = Cardinality(Counted(p))
      /\ getDistanceToPathIDs(q, pathIDs) = Cardinality(Counted(q))
  BY <1>2
<1>. QED
  BY <1>7, <1>8

(* Of the methods of a resource that match a request, none is called while *)
(* a more specific one of the same type matches too, in whatever order     *)
(* they were registered.                                                   *)
THEOREM MoreSpecificIsCalled ==
  ASSUME NEW methods, \A i \in DOMAIN methods : methods[i].path \in Seq(Range(methods[i].path)),
         NEW pathIDs, NEW i \in DOMAIN methods, NEW j \in DOMAIN methods,
         methods[i].methodType = methods[j].methodType,
         MoreSpecific(methods[i].path, methods[j].path),
         getDistanceToPathIDs(methods[i].path, pathIDs) >= 0
  PROVE  closestOf(methods, distances(methods, pathIDs), methods[i].methodType) # MatchFound(j)
<1> DEFINE distance == distances(methods, pathIDs)
           type == methods[i].methodType
           candidates == {k \in {n \in DOMAIN methods : distance[n] >= 0} : methods[k].methodType = type}
<1>1. \A k \in DOMAIN methods : distance[k] = getDistanceToPathIDs(methods[k].path, pathIDs)
  BY DEF distances
<1>2. \A k \in DOMAIN methods : distance[k] \in Nat \cup {-1}
  BY <1>1, DistanceType
<1> HIDE DEF distance
<1>3. i \in candidates
  BY <1>1
<1>4. SUFFICES ASSUME closestOf(methods, distance, type) = MatchFound(j)
               PROVE  FALSE
  BY DEF distance
<1>5. j = getPrototypeClosestToRequest(distance, candidates)
  <2>1. closestOf(methods, distance, type) = MatchFails(InternalServerError)
        \/ closestOf(methods, distance, type) = MatchFound(getPrototypeClosestToRequest(distance, candidates))
    BY <1>3 DEF closestOf
  <2> HIDE DEF candidates
  <2>. QED
    BY <1>4, <2>1 DEF MatchFound, MatchFails, InternalServerError
<1>6. j \in candidates /\ \A k \in candidates : distance[j] <= distance[k]
  <2>1. \E n \in candidates : \A k \in candidates : distance[n] <= distance[k]
    <3> DEFINE lengths == {distance[k] : k \in candidates}
    <3>0. \A k \in candidates : distance[k] \in Nat
      BY <1>2
    <3>1. lengths \in SUBSET Nat /\ lengths # {}
      <4> HIDE DEF candidates
      <4>. QED
        BY <1>3, <3>0
    <3>2. PICK n \in lengths : \A k \in lengths : n <= k
      BY <3>1, LeastExists
    <3>. QED
      BY <3>2
  <2> HIDE DEF candidates
  <2>. QED
    BY <1>5, <2>1 DEF getPrototypeClosestToRequest
<1>7. distance[i] < distance[j]
  <2>1. distance[i] >= 0 /\ distance[j] >= 0
    BY <1>3, <1>6
  <2>. QED
    BY <1>1, <2>1, MoreSpecificIsCloser
<1>. QED
  BY <1>2, <1>3, <1>6, <1>7

-----------------------------------------------------------------------------
(* Clones.  A request changes the values, what was received and whether    *)
(* the method runs, and nothing else of it.                                *)
IsCloneOf(m, p) ==
  /\ DOMAIN m = MethodFields
  /\ m.name = p.name /\ m.methodType = p.methodType /\ m.path = p.path
  /\ m.queryParameters = p.queryParameters /\ m.streamers = p.streamers
  /\ m.unstreamers = p.unstreamers /\ m.entityType = p.entityType
  /\ DOMAIN m.values = DOMAIN p.values

(* The path parameters of a clone have the values of path IDs. *)
HasPathIDs(m, p, pathIDs) ==
  \A i \in PathParameters(p) : m.values[p.path[i].id] = convert(p.path[i].valueType, pathIDs[i])

(* Path parameters are set from the request's path IDs. *)
LEMMA PathParametersSet ==
  ASSUME NEW p, WellFormed(p), NEW m, IsCloneOf(m, p), NEW pathIDs,
         NEW n, n = processPathIDs(m, pathIDs)
  PROVE  IsCloneOf(n, p) /\ n.isRunning = m.isRunning /\ HasPathIDs(n, p, pathIDs)
<1> DEFINE lastOf(id) == CHOOSE i \in PathParameters(m) :
                            /\ m.path[i].id = id
                            /\ \A j \in PathParameters(m) : m.path[j].id = id => j <= i
           bound(i) == convert(m.path[i].valueType, pathIDs[i])
           new == [id \in DOMAIN m.values |-> IF \E i \in PathParameters(m) : m.path[i].id = id
                                             THEN bound(lastOf(id)) ELSE m.values[id]]
<1>1. n = [m EXCEPT !.values = new]
  BY DEF processPathIDs
<1>2. DOMAIN new = DOMAIN m.values
  OBVIOUS
<1>3. PathParameters(m) = PathParameters(p) /\ m.path = p.path
  BY DEF IsCloneOf, PathParameters
<1>4. ASSUME NEW i \in PathParameters(p)
      PROVE  new[p.path[i].id] = convert(p.path[i].valueType, pathIDs[i])
  <2>1. p.path[i].id \in DOMAIN m.values
    BY DEF WellFormed, IsCloneOf
  <2>2. i \in Nat
    BY DEF WellFormed, PathParameters
  <2>3. \A j \in PathParameters(p) : p.path[j].id = p.path[i].id => j = i
    BY DEF WellFormed
  <2>4. lastOf(p.path[i].id) = i
    <3> DEFINE IsLast(k) == /\ m.path[k].id = p.path[i].id
                            /\ \A j \in PathParameters(m) : m.path[j].id = p.path[i].id => j <= k
    <3>1. i \in PathParameters(m) /\ IsLast(i)
      BY <1>3, <2>2, <2>3
    <3>2. \A k \in PathParameters(m) : IsLast(k) => k = i
      BY <1>3, <2>3
    <3>3. lastOf(p.path[i].id) = CHOOSE k \in PathParameters(m) : IsLast(k)
      OBVIOUS
    <3> HIDE DEF IsLast, lastOf
    <3>. QED
      BY <3>1, <3>2, <3>3
  <2> HIDE DEF lastOf
  <2>. QED
    BY <1>3, <2>1, <2>4
<1> HIDE DEF new
<1>5. DOMAIN n = DOMAIN m /\ n.values = new
      /\ \A f \in MethodFields \ {"values"} : n[f] = m[f]
  BY <1>1 DEF IsCloneOf, MethodFields
<1>6. IsCloneOf(n, p) /\ n.isRunning = m.isRunning
  BY <1>2, <1>5 DEF IsCloneOf, MethodFields
<1>. QED
  BY <1>4, <1>5, <1>6 DEF HasPathIDs

(* Query parameters are set, and other members left alone. *)
LEMMA QueryParametersSet ==
  ASSUME NEW p, WellFormed(p), NEW m, IsCloneOf(m, p), NEW fields, NEW parameters,
         NEW n, n = setQueryParameters(m, parameters, fields)
  PROVE  /\ IsCloneOf(n, p) /\ n.isRunning = m.isRunning
         /\ parameters = Range(p.queryParameters) =>
              /\ \A q \in parameters :
                   n.values[q.id] = IF q.id \in DOMAIN fields THEN convert(q.valueType, fields[q.id])
                                    ELSE q.default
              /\ \A i \in PathParameters(p) : n.values[p.path[i].id] = m.values[p.path[i].id]
<1> DEFINE new == [id \in DOMAIN m.values |->
                     IF \E q \in parameters : q.id = id
                     THEN setParameter(CHOOSE q \in parameters : q.id = id, fields, m.values[id])
                     ELSE m.values[id]]
<1>1. n = [m EXCEPT !.values = new]
  BY DEF setQueryParameters
<1>2. DOMAIN new = DOMAIN m.values
  OBVIOUS
<1>3. ASSUME parameters = Range(p.queryParameters), NEW q \in parameters
      PROVE  new[q.id] = IF q.id \in DOMAIN fields THEN convert(q.valueType, fields[q.id]) ELSE q.default
  <2>1. q.id \in DOMAIN m.values /\ \A r \in parameters : r.id = q.id => r = q
    BY <1>3 DEF WellFormed, IsCloneOf
  <2>2. (CHOOSE r \in parameters : r.id = q.id) = q
    BY <2>1
  <2>. QED
    BY <2>1, <2>2 DEF setParameter
<1>4. ASSUME parameters = Range(p.queryParameters), NEW i \in PathParameters(p)
      PROVE  new[p.path[i].id] = m.values[p.path[i].id]
  <2>1. /\ p.path[i].id \in DOMAIN m.values
        /\ ~\E q \in parameters : q.id = p.path[i].id
    BY <1>4 DEF WellFormed, IsCloneOf
  <2>. QED
    BY <2>1
<1> HIDE DEF new
<1>5. DOMAIN n = DOMAIN m /\ n.values = new
      /\ \A f \in MethodFields \ {"values"} : n[f] = m[f]
  BY <1>1 DEF IsCloneOf, MethodFields
<1>6. IsCloneOf(n, p) /\ n.isRunning = m.isRunning
  BY <1>2, <1>5 DEF IsCloneOf, MethodFields
<1>. QED
  BY <1>3, <1>4, <1>5, <1>6

(* A request whose query fields are refused leaves a clone of the method;  *)
(* one that is not sets all query parameters.                              *)
LEMMA QueryFieldsProcessed ==
  ASSUME NEW p, WellFormed(p), NEW m, IsCloneOf(m, p), NEW fields,
         NEW done, done = processQueryFields(m, fields)
  PROVE  /\ done.status \in {0, BadRequest}
         /\ \A n \in done.methods : IsCloneOf(n, p) /\ n.isRunning = m.isRunning
         /\ done.status = 0 =>
              done.methods = {setQueryParameters(m, Range(p.queryParameters), fields)}
<1>1. PICK failing, before :
        LET ps == m.queryParameters
            n == setQueryParameters(m, Range(before), fields)
        IN  /\ failing = 0 => before = ps
            /\ done = IF failing = 0 THEN [status |-> 0, methods |-> {n}]
                      ELSE IF ps[failing].id \notin DOMAIN fields
                      THEN [status |-> BadRequest, methods |-> {n}]
                      ELSE [status |-> BadRequest, methods |-> {n, [n EXCEPT !.values[ps[failing].id] = 0]}]
  BY DEF processQueryFields
<1> DEFINE n == setQueryParameters(m, Range(before), fields)
<1>2. IsCloneOf(n, p) /\ n.isRunning = m.isRunning
  BY QueryParametersSet
<1> HIDE DEF n
<1>3. ASSUME NEW id
      PROVE  LET zero == [n EXCEPT !.values[id] = 0]
             IN  IsCloneOf(zero, p) /\ zero.isRunning = m.isRunning
  BY <1>2 DEF IsCloneOf, MethodFields
<1>4. CASE failing = 0
  <2>1. done = [status |-> 0, methods |-> {n}] /\ before = p.queryParameters
    BY <1>1, <1>4 DEF n, IsCloneOf
  <2>. QED
    BY <1>2, <2>1 DEF n
<1>5. CASE failing # 0
  <2> DEFINE zero == [n EXCEPT !.values[m.queryParameters[failing].id] = 0]
  <2>1. done.status = BadRequest /\ done.methods \subseteq {n, zero}
    BY <1>1, <1>5 DEF n
  <2>2. IsCloneOf(zero, p) /\ zero.isRunning = m.isRunning
    BY <1>3
  <2> HIDE DEF zero
  <2>. QED
    BY <1>2, <2>1, <2>2 DEF BadRequest
<1>. QED
  BY <1>4, <1>5

(* An entity is received by a clone of the method. *)
LEMMA EntityUnstreamed ==
  ASSUME NEW p, NEW m, IsCloneOf(m, p), NEW type, NEW body,
         NEW n, n = unstream(m, type, body)
  PROVE  IsCloneOf(n, p) /\ n.isRunning = m.isRunning /\ n.values = m.values
BY DEF unstream, IsCloneOf, MethodFields

(* A clone chooses the streamer that its prototype chooses. *)
LEMMA SameStreamer ==
  ASSUME NEW p, NEW m, IsCloneOf(m, p), NEW fields
  PROVE  entityStreamer(m, fields) = entityStreamer(p, fields)
BY DEF entityStreamer, detectEntityStreamerToUseForRequest, SelectInSeq, IsCloneOf

(* A streamer is chosen or the request is refused. *)
LEMMA StreamerChosen ==
  ASSUME NEW p, WellFormed(p), NEW fields, NEW chosen, chosen = entityStreamer(p, fields)
  PROVE  /\ chosen.status \in {0, InternalServerError, NotAcceptable}
         /\ chosen.status = 0 => chosen = Streamer(chosen.type)
         /\ chosen.status = 0 /\ p.entityType # "invalid" =>
              IF NamedTypes(p, fields) # {} THEN chosen.type \in NamedTypes(p, fields)
              ELSE isAccept(fields, Wildcard)
         /\ chosen.status = NotAcceptable =>
              NamedTypes(p, fields) = {} /\ ~isAccept(fields, Wildcard)
<1>1. CASE p.entityType = "invalid"
  BY <1>1 DEF entityStreamer, Streamer, NotAcceptable
<1>2. CASE p.entityType # "invalid"
  <2> DEFINE detected == detectEntityStreamerToUseForRequest(p, fields)
  <2>1. chosen = detected
    BY <1>2 DEF entityStreamer
  <2>2. detected.status = 0 => detected = Streamer(detected.type)
    <3>1. PICK first :
            detected = IF p.streamers = <<>> THEN NoStreamer(InternalServerError)
                       ELSE IF first # 0 THEN Streamer(p.streamers[first])
                       ELSE IF isAccept(fields, Wildcard) THEN Streamer(Head(p.streamers))
                       ELSE NoStreamer(NotAcceptable)
      BY DEF detectEntityStreamerToUseForRequest
    <3> HIDE DEF detected
    <3>2. \E type : detected \in {Streamer(type), NoStreamer(InternalServerError), NoStreamer(NotAcceptable)}
      BY <3>1
    <3>. QED
      BY <3>2 DEF Streamer, NoStreamer, InternalServerError, NotAcceptable
  <2>3. p.streamers \in Seq(Range(p.streamers))
    BY DEF WellFormed
  <2> HIDE DEF detected
  <2>4. /\ detected.status \in {0, InternalServerError, NotAcceptable}
        /\ detected.status = 0 =>
             IF NamedTypes(p, fields) # {} THEN detected.type \in NamedTypes(p, fields)
             ELSE isAccept(fields, Wildcard)
        /\ detected.status = NotAcceptable =>
             NamedTypes(p, fields) = {} /\ ~isAccept(fields, Wildcard)
    BY <2>3, DetectedStreamer DEF detected
  <2>. QED
    BY <2>1, <2>2, <2>4
<1>. QED
  BY <1>1, <1>2

(* What processRequest() makes of a method that has the path IDs: it is    *)
(* ready for process(), or refuses the request.                            *)
LEMMA RequestProcessed ==
  ASSUME NEW p, WellFormed(p), NEW m, IsCloneOf(m, p), ~m.isRunning, NEW r, NEW root,
         HasPathIDs(m, p, pathIDList(r.header.URI, root)),
         NEW done \in processRequest(m, r.header, r.entity)
  PROVE  /\ IsCloneOf(done.method, p) /\ ~done.method.isRunning
         /\ done.status = 0 =>
              /\ ReadsRequest(done.method, r, root)
              /\ entityStreamer(p, r.header.Fields) = Streamer(done.type)
         /\ done.status = NotAcceptable =>
              NamedTypes(p, r.header.Fields) = {} /\ ~isAccept(r.header.Fields, Wildcard)
<1> DEFINE type == r.header.Fields.contentType.Type
           refuses == unstreamRequestEntity(m, type, r.entity)
           unstreamed == IF m.methodType = "POST" THEN unstream(m, type, r.entity) ELSE m
           detected == entityStreamer(m, r.header.Fields)
           processed == processQueryFields(unstreamed, r.header.QueryFields)
           Done(status, n) == [status |-> status, method |-> n, type |-> detected.type]
<1>1. IsCloneOf(unstreamed, p) /\ unstreamed.isRunning = m.isRunning /\ unstreamed.values = m.values
  BY EntityUnstreamed
<1>2. refuses \in {0, InternalServerError, UnsupportedMediaType}
  BY DEF unstreamRequestEntity
<1>3. detected = entityStreamer(p, r.header.Fields)
  BY SameStreamer
<1>4. done \in IF refuses # 0 THEN {Done(refuses, m)}
               ELSE IF detected.status # 0 THEN {Done(detected.status, unstreamed)}
               ELSE {Done(processed.status, n) : n \in processed.methods}
  BY DEF processRequest
<1> HIDE DEF refuses, unstreamed, detected
<1>5. CASE refuses # 0
  <2>1. done.status = refuses /\ done.method = m
    BY <1>4, <1>5
  <2>. QED
    BY <1>2, <1>5, <2>1 DEF InternalServerError, UnsupportedMediaType, NotAcceptable
<1>6. CASE refuses = 0 /\ detected.status # 0
  <2>1. done.status = detected.status /\ done.method = unstreamed
    BY <1>4, <1>6
  <2>. QED
    BY <1>1, <1>3, <1>6, <2>1, StreamerChosen
<1>7. CASE refuses = 0 /\ detected.status = 0
  <2>1. PICK n \in processed.methods : done = Done(processed.status, n)
    BY <1>4, <1>7
  <2>2. /\ processed.status \in {0, BadRequest}
        /\ IsCloneOf(n, p) /\ n.isRunning = unstreamed.isRunning
        /\ processed.status = 0 =>
             n = setQueryParameters(unstreamed, Range(p.queryParameters), r.header.QueryFields)
    BY <1>1, QueryFieldsProcessed
  <2> HIDE DEF processed
  <2>3. done.status = processed.status /\ done.method = n /\ done.type = detected.type
    BY <2>1
  <2>4. detected = Streamer(detected.type)
    BY <1>3, <1>7, StreamerChosen
  <2>5. ASSUME processed.status = 0
        PROVE  ReadsRequest(n, r, root)
    <3>1. /\ \A q \in Range(p.queryParameters) :
               n.values[q.id] = IF q.id \in DOMAIN r.header.QueryFields
                                THEN convert(q.valueType, r.header.QueryFields[q.id]) ELSE q.default
          /\ \A i \in PathParameters(p) : n.values[p.path[i].id] = unstreamed.values[p.path[i].id]
      BY <1>1, <2>2, <2>5, QueryParametersSet
    <3>2. n.path = p.path /\ n.queryParameters = p.queryParameters /\ PathParameters(n) = PathParameters(p)
      BY <2>2 DEF IsCloneOf, PathParameters
    <3>3. ~n.isRunning
      BY <1>1, <2>2
    <3>. QED
      BY <1>1, <3>1, <3>2, <3>3 DEF ReadsRequest, HasPathIDs
  <2>. QED
    BY <1>1, <1>3, <2>2, <2>3, <2>4, <2>5 DEF BadRequest, NotAcceptable
<1>. QED
  BY <1>5, <1>6, <1>7

-----------------------------------------------------------------------------
(* The inductive invariant.                                                *)
TypeInv ==
  /\ pc \in [Handlers -> {"receive", "handleRequest", "process", "sleep"}]
  /\ DOMAIN serving = Handlers /\ DOMAIN clones = Handlers /\ DOMAIN method = Handlers
  /\ DOMAIN streamer = Handlers /\ DOMAIN reply = Handlers

(* The clones of a handler are those of the methods that are registered.   *)
ClonesInv(h) ==
  /\ DOMAIN clones[h] = DOMAIN Resources
  /\ \A root \in DOMAIN Resources :
       /\ DOMAIN clones[h][root] = DOMAIN Resources[root]
       /\ \A i \in DOMAIN Resources[root] : IsCloneOf(clones[h][root][i], Resources[root][i])

(* A method is called from processRequest() on. *)
CalledInv(h) ==
  /\ pc[h] = "handleRequest" => method[h] = NoMethod
  /\ pc[h] \in {"process", "sleep"} => method[h] # NoMethod
  /\ method[h] # NoMethod =>
       \E root \in DOMAIN Resources : \E i \in DOMAIN Resources[root] : method[h] = <<root, i>>

(* Only the method that a handler sleeps in is running. *)
RunningInv(h) ==
  \A root \in DOMAIN Resources : \A i \in DOMAIN Resources[root] :
    clones[h][root][i].isRunning => pc[h] = "sleep" /\ method[h] = <<root, i>>

(* The streamer that is kept is the one that the request chose. *)
StreamerInv(h) ==
  pc[h] \in {"process", "sleep"} =>
    entityStreamer(Resources[method[h][1]][method[h][2]], request(h).header.Fields) = Streamer(streamer[h])

OwnInv(h) ==
  pc[h] = "process" => ReadsRequest(Method(h), request(h), method[h][1])

AcceptedInv(h) ==
  Answered(h) /\ method[h] # NoMethod => TypeAccepted(Method(h), request(h).header.Fields, reply[h])

HandlerInv(h) ==
  ClonesInv(h) /\ CalledInv(h) /\ RunningInv(h) /\ StreamerInv(h) /\ OwnInv(h) /\ AcceptedInv(h)

IInv == TypeInv /\ \A h \in Handlers : HandlerInv(h)

(* A handler that a step does not touch keeps its part of the invariant.   *)
LEMMA OthersKeep ==
  ASSUME NEW g \in Handlers, HandlerInv(g),
         pc'[g] = pc[g], serving'[g] = serving[g], clones'[g] = clones[g],
         method'[g] = method[g], streamer'[g] = streamer[g], reply'[g] = reply[g]
  PROVE  HandlerInv(g)'
<1>1. request(g)' = request(g) /\ Method(g)' = Method(g) /\ Answered(g)' = Answered(g)
  BY DEF request, Method, cloneOf, Answered
<1>2. ClonesInv(g)' /\ RunningInv(g)'
  BY DEF HandlerInv, ClonesInv, RunningInv
<1>3. CalledInv(g)'
  BY DEF HandlerInv, CalledInv
<1>4. StreamerInv(g)' /\ OwnInv(g)' /\ AcceptedInv(g)'
  BY <1>1 DEF HandlerInv, StreamerInv, OwnInv, AcceptedInv
<1>. QED
  BY <1>2, <1>3, <1>4 DEF HandlerInv

(* So a step preserves the invariant if it does for the handler that moves. *)
LEMMA MoverDecides ==
  ASSUME IInv, TypeInv', NEW h \in Handlers, HandlerInv(h)',
         \A g \in Handlers \ {h} :
           /\ pc'[g] = pc[g] /\ serving'[g] = serving[g] /\ clones'[g] = clones[g]
           /\ method'[g] = method[g] /\ streamer'[g] = streamer[g] /\ reply'[g] = reply[g]
  PROVE  IInv'
<1>1. ASSUME NEW g \in Handlers
      PROVE  HandlerInv(g)'
  <2>1. CASE g = h
    BY <2>1
  <2>2. CASE g # h
    BY <2>2, OthersKeep DEF IInv
  <2>. QED
    BY <2>1, <2>2
<1>. QED
  BY <1>1 DEF IInv

(* A method of a handler is replaced by another clone: the other methods   *)
(* and the other handlers keep theirs.                                     *)
LEMMA CloneReplaced ==
  ASSUME TypeInv, NEW h \in Handlers, ClonesInv(h), NEW root \in DOMAIN Resources,
         NEW i \in DOMAIN Resources[root], NEW m, IsCloneOf(m, Resources[root][i]),
         clones' = [clones EXCEPT ![cloneOf(h)][root][i] = m]
  PROVE  /\ DOMAIN clones' = Handlers /\ ClonesInv(h)' /\ clones'[h][root][i] = m
         /\ \A r \in DOMAIN Resources : \A k \in DOMAIN Resources[r] :
              <<r, k>> # <<root, i>> => clones'[h][r][k] = clones[h][r][k]
         /\ \A g \in Handlers \ {h} : clones'[g] = clones[g]
<1>1. clones' = [clones EXCEPT ![h] = [clones[h] EXCEPT ![root] = [clones[h][root] EXCEPT ![i] = m]]]
  BY DEF cloneOf
<1>2. DOMAIN clones = Handlers /\ DOMAIN clones[h] = DOMAIN Resources
      /\ DOMAIN clones[h][root] = DOMAIN Resources[root]
  BY DEF TypeInv, ClonesInv
<1>3. /\ DOMAIN clones' = Handlers
      /\ clones'[h] = [clones[h] EXCEPT ![root] = [clones[h][root] EXCEPT ![i] = m]]
      /\ \A g \in Handlers \ {h} : clones'[g] = clones[g]
  BY <1>1, <1>2
<1>4. /\ DOMAIN clones'[h] = DOMAIN Resources
      /\ clones'[h][root] = [clones[h][root] EXCEPT ![i] = m]
      /\ \A r \in DOMAIN Resources \ {root} : clones'[h][r] = clones[h][r]
  BY <1>2, <1>3
<1>5. /\ DOMAIN clones'[h][root] = DOMAIN Resources[root]
      /\ clones'[h][root][i] = m
      /\ \A k \in DOMAIN Resources[root] \ {i} : clones'[h][root][k] = clones[h][root][k]
  BY <1>2, <1>4
<1>6. \A r \in DOMAIN Resources : \A k \in DOMAIN Resources[r] :
        <<r, k>> # <<root, i>> => clones'[h][r][k] = clones[h][r][k]
  BY <1>4, <1>5
<1>7. ClonesInv(h)'
  BY <1>4, <1>5 DEF ClonesInv
<1>. QED
  BY <1>3, <1>5, <1>6, <1>7

(* A handler that calls no method yet, or none any more, has none running. *)
LEMMA Idle ==
  ASSUME NEW h \in Handlers, HandlerInv(h), pc[h] # "sleep", clones' = clones
  PROVE  ClonesInv(h)' /\ RunningInv(h)'
BY DEF HandlerInv, ClonesInv, RunningInv

LEMMA ReceiveKeeps ==
  ASSUME IInv, NEW h \in Handlers, Receive(h)
  PROVE  IInv'
<1>1. /\ pc[h] = "receive" /\ pc' = [pc EXCEPT ![h] = "handleRequest"]
      /\ \E c \in RequestsTo[h] : serving' = [serving EXCEPT ![h] = c]
      /\ method' = [method EXCEPT ![h] = NoMethod]
      /\ streamer' = [streamer EXCEPT ![h] = Wildcard]
      /\ reply' = [reply EXCEPT ![h] = NoReply]
      /\ clones' = clones
  BY DEF Receive, GoTo
<1>2. TypeInv'
  BY <1>1 DEF IInv, TypeInv
<1>3. pc'[h] = "handleRequest" /\ method'[h] = NoMethod
  BY <1>1 DEF IInv, TypeInv
<1>4. ClonesInv(h)' /\ RunningInv(h)'
  BY <1>1, Idle DEF IInv
<1>5. CalledInv(h)' /\ StreamerInv(h)' /\ OwnInv(h)' /\ AcceptedInv(h)'
  BY <1>3 DEF CalledInv, StreamerInv, OwnInv, AcceptedInv, Answered
<1>6. \A g \in Handlers \ {h} :
        /\ pc'[g] = pc[g] /\ serving'[g] = serving[g] /\ clones'[g] = clones[g]
        /\ method'[g] = method[g] /\ streamer'[g] = streamer[g] /\ reply'[g] = reply[g]
  BY <1>1 DEF IInv, TypeInv
<1>. QED
  BY <1>2, <1>4, <1>5, <1>6, MoverDecides DEF HandlerInv

(* A request that is answered without a method. *)
LEMMA AnswersKeeps ==
  ASSUME IInv, NEW h \in Handlers, pc[h] = "handleRequest", NEW response, Answers(h, response),
         serving' = serving
  PROVE  IInv'
<1>1. /\ pc' = [pc EXCEPT ![h] = "receive"] /\ reply' = [reply EXCEPT ![h] = response]
      /\ method' = method /\ clones' = clones /\ streamer' = streamer /\ serving' = serving
  BY DEF Answers, Respond, GoTo
<1>2. TypeInv'
  BY <1>1 DEF IInv, TypeInv
<1>3. pc'[h] = "receive" /\ method'[h] = NoMethod
  BY <1>1 DEF IInv, TypeInv, HandlerInv, CalledInv
<1>4. ClonesInv(h)' /\ RunningInv(h)'
  BY <1>1, Idle DEF IInv
<1>5. CalledInv(h)' /\ StreamerInv(h)' /\ OwnInv(h)' /\ AcceptedInv(h)'
  BY <1>3 DEF CalledInv, StreamerInv, OwnInv, AcceptedInv
<1>6. \A g \in Handlers \ {h} :
        /\ pc'[g] = pc[g] /\ serving'[g] = serving[g] /\ clones'[g] = clones[g]
        /\ method'[g] = method[g] /\ streamer'[g] = streamer[g] /\ reply'[g] = reply[g]
  BY <1>1 DEF IInv, TypeInv
<1>. QED
  BY <1>2, <1>4, <1>5, <1>6, MoverDecides DEF HandlerInv

(* What a handler calls is a method of the fixture. *)
LEMMA MethodsWellFormed ==
  ASSUME NEW root \in DOMAIN Resources, NEW i \in DOMAIN Resources[root]
  PROVE  /\ WellFormed(Resources[root][i])
         /\ AnswersWithEntity(Resources[root][i].name) => Resources[root][i].entityType = "valid"
         /\ <<root, i>> # NoMethod
<1>1. /\ Resources[root] \in Seq(Range(Resources[root]))
      /\ \A k \in DOMAIN Resources[root] :
           LET m == Resources[root][k]
           IN  WellFormed(m) /\ (AnswersWithEntity(m.name) => m.entityType = "valid")
  BY FixtureAssumption
<1>2. i # 0
  BY <1>1
<1>. QED
  BY <1>1, <1>2 DEF NoMethod

(* The types that a clone can answer with are those of its prototype. *)
LEMMA SameTypes ==
  ASSUME NEW p, NEW m, IsCloneOf(m, p), NEW fields
  PROVE  NamedTypes(m, fields) = NamedTypes(p, fields)
BY DEF NamedTypes, IsCloneOf

LEMMA CallMethodKeeps ==
  ASSUME IInv, NEW h \in Handlers, pc[h] = "handleRequest",
         NEW root \in DOMAIN Resources, NEW i \in DOMAIN Resources[root],
         CallMethod(h, root, i), serving' = serving
  PROVE  IInv'
<1> DEFINE p == Resources[root][i]
           r == request(h)
           matched == processPathIDs(clones[cloneOf(h)][root][i], pathIDList(r.header.URI, root))
<1>1. PICK done \in processRequest(matched, r.header, r.entity) :
        /\ method' = [method EXCEPT ![h] = <<root, i>>]
        /\ clones' = [clones EXCEPT ![cloneOf(h)][root][i] = done.method]
        /\ streamer' = [streamer EXCEPT ![h] = done.type]
        /\ IF done.status = 0 THEN GoTo(h, "process") /\ UNCHANGED <<reply, refused>>
           ELSE Respond(h, ErrorResponse(done.status))
  BY DEF CallMethod
<1>2. WellFormed(p) /\ <<root, i>> # NoMethod
  BY MethodsWellFormed
<1>3. /\ TypeInv /\ ClonesInv(h) /\ RunningInv(h)
      /\ IsCloneOf(clones[h][root][i], p) /\ ~clones[h][root][i].isRunning
  BY DEF IInv, HandlerInv, ClonesInv, RunningInv
<1>4. /\ IsCloneOf(matched, p) /\ ~matched.isRunning
      /\ HasPathIDs(matched, p, pathIDList(r.header.URI, root))
  <2>1. cloneOf(h) = h
    BY DEF cloneOf
  <2>. QED
    BY <1>2, <1>3, <2>1, PathParametersSet
<1> HIDE DEF matched, p, r
<1>5. /\ IsCloneOf(done.method, p) /\ ~done.method.isRunning
      /\ done.status = 0 => /\ ReadsRequest(done.method, r, root)
                            /\ entityStreamer(p, r.header.Fields) = Streamer(done.type)
      /\ done.status = NotAcceptable =>
           NamedTypes(p, r.header.Fields) = {} /\ ~isAccept(r.header.Fields, Wildcard)
  <2>1. done \in processRequest(matched, r.header, r.entity)
    BY <1>1
  <2>. QED
    BY <1>2, <1>4, <2>1, RequestProcessed
<1>6. /\ DOMAIN clones' = Handlers /\ ClonesInv(h)' /\ clones'[h][root][i] = done.method
      /\ \A s \in DOMAIN Resources : \A k \in DOMAIN Resources[s] :
           <<s, k>> # <<root, i>> => clones'[h][s][k] = clones[h][s][k]
      /\ \A g \in Handlers \ {h} : clones'[g] = clones[g]
  BY <1>1, <1>3, <1>5, CloneReplaced DEF p
<1>7. /\ pc' = [pc EXCEPT ![h] = IF done.status = 0 THEN "process" ELSE "receive"]
      /\ reply' = IF done.status = 0 THEN reply ELSE [reply EXCEPT ![h] = ErrorResponse(done.status)]
  BY <1>1 DEF GoTo, Respond
<1>8. TypeInv'
  BY <1>1, <1>3, <1>6, <1>7 DEF TypeInv
<1>9. /\ pc'[h] = IF done.status = 0 THEN "process" ELSE "receive"
      /\ method'[h] = <<root, i>> /\ streamer'[h] = done.type
      /\ done.status # 0 => reply'[h] = ErrorResponse(done.status)
      /\ Method(h)' = done.method /\ request(h)' = r
  BY <1>1, <1>3, <1>6, <1>7 DEF TypeInv, Method, cloneOf, request, r
<1>10. CalledInv(h)'
  BY <1>2, <1>9 DEF CalledInv
<1>11. RunningInv(h)'
  <2>1. \A s \in DOMAIN Resources : \A k \in DOMAIN Resources[s] : ~clones'[h][s][k].isRunning
    <3>1. \A s \in DOMAIN Resources : \A k \in DOMAIN Resources[s] : ~clones[h][s][k].isRunning
      BY <1>3 DEF RunningInv
    <3>. QED
      BY <1>5, <1>6, <3>1
  <2>. QED
    BY <2>1 DEF RunningInv
<1>12. StreamerInv(h)'
  BY <1>5, <1>9 DEF StreamerInv, p
<1>13. OwnInv(h)'
  BY <1>5, <1>9 DEF OwnInv
<1>14. AcceptedInv(h)'
  <2>1. SUFFICES ASSUME done.status # 0
                 PROVE  TypeAccepted(done.method, r.header.Fields, ErrorResponse(done.status))
    BY <1>9 DEF AcceptedInv, Answered
  <2>2. NamedTypes(done.method, r.header.Fields) = NamedTypes(p, r.header.Fields)
    BY <1>5, SameTypes
  <2>3. ErrorResponse(done.status).entity = <<>> /\ ErrorResponse(done.status).status = done.status
    BY DEF ErrorResponse, Response
  <2>. QED
    BY <1>5, <2>2, <2>3 DEF TypeAccepted
<1>15. \A g \in Handlers \ {h} :
        /\ pc'[g] = pc[g] /\ serving'[g] = serving[g] /\ clones'[g] = clones[g]
        /\ method'[g] = method[g] /\ streamer'[g] = streamer[g] /\ reply'[g] = reply[g]
  BY <1>1, <1>3, <1>6, <1>7 DEF TypeInv
<1>. QED
  BY <1>6, <1>8, <1>10, <1>11, <1>12, <1>13, <1>14, <1>15, MoverDecides DEF HandlerInv

LEMMA HandleRequestKeeps ==
  ASSUME IInv, NEW h \in Handlers, HandleRequest(h)
  PROVE  IInv'
<1> DEFINE header == request(h).header
           root == findLongestMatchString(header.URI, DOMAIN clones[cloneOf(h)])
<1>1. /\ pc[h] = "handleRequest" /\ serving' = serving
      /\ IF header.URI = <<>> THEN Answers(h, ErrorResponse(BadRequest))
         ELSE IF root = NoResource THEN Answers(h, ErrorResponse(NotFound))
         ELSE RequestResource(h, root)
  BY DEF HandleRequest
<1>2. CASE \E response : Answers(h, response)
  BY <1>1, <1>2, AnswersKeeps
<1>3. CASE root # NoResource /\ RequestResource(h, root)
  <2>1. cloneOf(h) = h /\ DOMAIN clones[h] = DOMAIN Resources /\ ClonesInv(h)
    BY DEF cloneOf, IInv, HandlerInv, ClonesInv
  <2>2. root \in DOMAIN Resources
    BY <1>3, <2>1, FoundIsRegistered
  <2> DEFINE methods == clones[h][root]
             match == getPrototypeWithBestMatch(root, methods, header.URI, header.Method)
  <2> HIDE DEF root
  <2>3. \/ Answers(h, resourceDescription(header.Method, root))
        \/ Answers(h, ErrorResponse(match.status))
        \/ match.status = 0 /\ CallMethod(h, root, match.method)
    BY <1>3, <2>1 DEF RequestResource
  <2>4. ASSUME match.status = 0, CallMethod(h, root, match.method)
        PROVE  IInv'
    <3>1. \A i \in DOMAIN methods : methods[i].path \in Seq(Range(methods[i].path))
      BY <2>1, <2>2, MethodsWellFormed DEF ClonesInv, IsCloneOf, WellFormed
    <3>2. match.method \in DOMAIN methods
      <4> HIDE DEF methods
      <4>. QED
        BY <2>4, <3>1, FoundIsMethod
    <3>3. DOMAIN methods = DOMAIN Resources[root]
      BY <2>1, <2>2 DEF ClonesInv
    <3>4. match.method \in DOMAIN Resources[root]
      BY <3>2, <3>3
    <3> HIDE DEF match, header
    <3>. QED
      BY <1>1, <2>2, <2>4, <3>4, CallMethodKeeps
  <2>. QED
    BY <1>2, <2>3, <2>4
<1>. QED
  BY <1>1, <1>2, <1>3

(* The answer of process() has the type of the streamer or no entity, and  *)
(* no answer refuses the types that the request accepts.                   *)
LEMMA ProcessAnswers ==
  ASSUME NEW m, NEW type, NEW response, response = process(m, type)
  PROVE  /\ response.status # NotAcceptable
         /\ response.entity # <<>> => AnswersWithEntity(m.name) /\ response.type = type
<1> USE DEF Response, NotAcceptable
<1>1. CASE m.name = "Add"
  BY <1>1 DEF process, processAdd, buildResponse, OK, AnswersWithEntity
<1>2. CASE m.name = "AddDuplicatePOST"
  BY <1>2 DEF process, processAddDuplicatePOST, buildResponse, Created, AnswersWithEntity
<1>3. CASE m.name = "MediaTypeConverter"
  BY <1>3 DEF process, processMediaTypeConverter, buildResponse, Created, AnswersWithEntity
<1>4. CASE m.name = "InvalidEntity"
  BY <1>4 DEF process, ErrorResponse, InternalServerError
<1>5. CASE m.name = "DELETE"
  BY <1>5 DEF process, Created
<1>6. CASE m.name \notin {"Add", "AddDuplicatePOST", "MediaTypeConverter", "InvalidEntity", "DELETE"}
  BY <1>6 DEF process, OK
<1>. QED
  BY <1>1, <1>2, <1>3, <1>4, <1>5, <1>6

(* The method that a handler calls, and what is known of it. *)
LEMMA CalledMethod ==
  ASSUME IInv, NEW h \in Handlers, method[h] # NoMethod
  PROVE  \E root \in DOMAIN Resources : \E i \in DOMAIN Resources[root] :
           /\ method[h] = <<root, i>> /\ Method(h) = clones[h][root][i]
           /\ IsCloneOf(Method(h), Resources[root][i])
<1>0. PICK root \in DOMAIN Resources : \E i \in DOMAIN Resources[root] : method[h] = <<root, i>>
  BY DEF IInv, HandlerInv, CalledInv
<1>1. PICK i \in DOMAIN Resources[root] : method[h] = <<root, i>>
  BY <1>0
<1>2. Method(h) = clones[h][root][i]
  BY <1>1 DEF Method, cloneOf
<1>3. IsCloneOf(clones[h][root][i], Resources[root][i])
  BY DEF IInv, HandlerInv, ClonesInv
<1>. QED
  BY <1>1, <1>2, <1>3

(* Another clone takes the place of the method that a handler calls. *)
LEMMA MethodReplaced ==
  ASSUME IInv, NEW h \in Handlers, NEW root \in DOMAIN Resources, NEW i \in DOMAIN Resources[root],
         method[h] = <<root, i>>, NEW m, IsCloneOf(m, Resources[root][i]), MethodBecomes(h, m)
  PROVE  /\ DOMAIN clones' = Handlers /\ ClonesInv(h)' /\ clones'[h][root][i] = m
         /\ \A r \in DOMAIN Resources : \A k \in DOMAIN Resources[r] :
              <<r, k>> # <<root, i>> => clones'[h][r][k] = clones[h][r][k]
         /\ \A g \in Handlers \ {h} : clones'[g] = clones[g]
<1>1. clones' = [clones EXCEPT ![cloneOf(h)][root][i] = m]
  BY DEF MethodBecomes
<1>2. TypeInv /\ ClonesInv(h)
  BY DEF IInv, HandlerInv
<1>. QED
  BY <1>1, <1>2, CloneReplaced

LEMMA ProcessKeeps ==
  ASSUME IInv, NEW h \in Handlers, Process(h)
  PROVE  IInv'
<1> DEFINE m == Method(h)
           n == afterProcess(m)
           fields == request(h).header.Fields
           response == process(m, streamer[h])
<1>1. /\ pc[h] = "process" /\ pc' = [pc EXCEPT ![h] = "receive"]
      /\ reply' = [reply EXCEPT ![h] = response]
      /\ MethodBecomes(h, n)
      /\ serving' = serving /\ method' = method /\ streamer' = streamer
  BY DEF Process, Respond, GoTo
<1>2. method[h] # NoMethod
  BY <1>1 DEF IInv, HandlerInv, CalledInv
<1>0. PICK root \in DOMAIN Resources :
        \E i \in DOMAIN Resources[root] :
          method[h] = <<root, i>> /\ m = clones[h][root][i] /\ IsCloneOf(m, Resources[root][i])
  BY <1>2, CalledMethod
<1>3. PICK i \in DOMAIN Resources[root] :
        method[h] = <<root, i>> /\ m = clones[h][root][i] /\ IsCloneOf(m, Resources[root][i])
  BY <1>0
<1> DEFINE p == Resources[root][i]
<1>4. /\ IsCloneOf(n, p) /\ n.isRunning = m.isRunning
  BY <1>3 DEF afterProcess, IsCloneOf, MethodFields
<1>5. /\ WellFormed(p) /\ (AnswersWithEntity(p.name) => p.entityType = "valid")
  BY MethodsWellFormed
<1>6. /\ entityStreamer(p, fields) = Streamer(streamer[h])
      /\ \A r \in DOMAIN Resources : \A k \in DOMAIN Resources[r] : ~clones[h][r][k].isRunning
  BY <1>1, <1>3 DEF IInv, HandlerInv, StreamerInv, RunningInv
<1>7. response.status # NotAcceptable
      /\ (response.entity # <<>> => AnswersWithEntity(m.name) /\ response.type = streamer[h])
  BY ProcessAnswers
<1> HIDE DEF m, n, fields, response, p
<1>8. /\ DOMAIN clones' = Handlers /\ ClonesInv(h)' /\ clones'[h][root][i] = n
      /\ \A r \in DOMAIN Resources : \A k \in DOMAIN Resources[r] :
           <<r, k>> # <<root, i>> => clones'[h][r][k] = clones[h][r][k]
      /\ \A g \in Handlers \ {h} : clones'[g] = clones[g]
  BY <1>1, <1>3, <1>4, MethodReplaced DEF p
<1>9. TypeInv'
  BY <1>1, <1>8 DEF IInv, TypeInv
<1>10. /\ pc'[h] = "receive" /\ method'[h] = <<root, i>> /\ reply'[h] = response
       /\ Method(h)' = n /\ request(h)'.header.Fields = fields
  BY <1>1, <1>3, <1>8 DEF IInv, TypeInv, Method, cloneOf, request, fields
<1>11. CalledInv(h)' /\ StreamerInv(h)' /\ OwnInv(h)'
  BY <1>10 DEF CalledInv, StreamerInv, OwnInv
<1>12. RunningInv(h)'
  <2>1. ~n.isRunning
    BY <1>3, <1>4, <1>6
  <2>2. \A r \in DOMAIN Resources : \A k \in DOMAIN Resources[r] : ~clones'[h][r][k].isRunning
    BY <1>6, <1>8, <2>1
  <2>. QED
    BY <2>2 DEF RunningInv
<1>13. AcceptedInv(h)'
  <2>1. SUFFICES TypeAccepted(n, fields, response)
    BY <1>10 DEF AcceptedInv
  <2>2. NamedTypes(n, fields) = NamedTypes(p, fields)
    BY <1>4, SameTypes
  <2>3. Streamer(streamer[h]).status = 0 /\ Streamer(streamer[h]).type = streamer[h]
    BY DEF Streamer
  <2>4. p.entityType # "invalid" =>
          IF NamedTypes(p, fields) # {} THEN streamer[h] \in NamedTypes(p, fields)
          ELSE isAccept(fields, Wildcard)
    BY <1>5, <1>6, <2>3, StreamerChosen
  <2>5. response.entity # <<>> => p.entityType # "invalid"
    <3>1. m.name = p.name
      BY <1>3 DEF IsCloneOf, p
    <3>. QED
      BY <1>5, <1>7, <3>1
  <2>. QED
    BY <1>7, <2>2, <2>4, <2>5 DEF TypeAccepted
<1>14. \A g \in Handlers \ {h} :
         /\ pc'[g] = pc[g] /\ serving'[g] = serving[g] /\ clones'[g] = clones[g]
         /\ method'[g] = method[g] /\ streamer'[g] = streamer[g] /\ reply'[g] = reply[g]
  BY <1>1, <1>8 DEF IInv, TypeInv
<1>. QED
  BY <1>8, <1>9, <1>11, <1>12, <1>13, <1>14, MoverDecides DEF HandlerInv

(* A method of the handler begins to run. *)
LEMMA SleepKeeps ==
  ASSUME IInv, NEW h \in Handlers, Sleep(h)
  PROVE  IInv'
<1> DEFINE n == [Method(h) EXCEPT !.isRunning = TRUE]
<1>1. /\ pc[h] = "process" /\ pc' = [pc EXCEPT ![h] = "sleep"]
      /\ MethodBecomes(h, n)
      /\ serving' = serving /\ method' = method /\ streamer' = streamer /\ reply' = reply
  BY DEF Sleep, GoTo
<1>2. method[h] # NoMethod
  BY <1>1 DEF IInv, HandlerInv, CalledInv
<1>3. PICK root \in DOMAIN Resources :
        \E i \in DOMAIN Resources[root] :
          method[h] = <<root, i>> /\ Method(h) = clones[h][root][i] /\ IsCloneOf(Method(h), Resources[root][i])
  BY <1>2, CalledMethod
<1>4. PICK i \in DOMAIN Resources[root] :
        method[h] = <<root, i>> /\ Method(h) = clones[h][root][i] /\ IsCloneOf(Method(h), Resources[root][i])
  BY <1>3
<1>5. IsCloneOf(n, Resources[root][i])
  BY <1>4 DEF IsCloneOf, MethodFields
<1> HIDE DEF n
<1>6. /\ DOMAIN clones' = Handlers /\ ClonesInv(h)' /\ clones'[h][root][i] = n
      /\ \A r \in DOMAIN Resources : \A k \in DOMAIN Resources[r] :
           <<r, k>> # <<root, i>> => clones'[h][r][k] = clones[h][r][k]
      /\ \A g \in Handlers \ {h} : clones'[g] = clones[g]
  BY <1>1, <1>4, <1>5, MethodReplaced
<1>7. TypeInv'
  BY <1>1, <1>6 DEF IInv, TypeInv
<1>8. pc'[h] = "sleep" /\ method'[h] = method[h] /\ streamer'[h] = streamer[h] /\ request(h)' = request(h)
  BY <1>1 DEF IInv, TypeInv, request
<1>9. CalledInv(h)'
  BY <1>1, <1>2, <1>8 DEF IInv, HandlerInv, CalledInv
<1>10. StreamerInv(h)'
  BY <1>1, <1>8 DEF IInv, HandlerInv, StreamerInv
<1>11. OwnInv(h)' /\ AcceptedInv(h)'
  BY <1>8 DEF OwnInv, AcceptedInv, Answered
<1>12. RunningInv(h)'
  <2>1. \A r \in DOMAIN Resources : \A k \in DOMAIN Resources[r] : ~clones[h][r][k].isRunning
    BY <1>1 DEF IInv, HandlerInv, RunningInv
  <2>2. \A r \in DOMAIN Resources : \A k \in DOMAIN Resources[r] :
          clones'[h][r][k].isRunning => <<r, k>> = <<root, i>>
    BY <1>6, <2>1
  <2>. QED
    BY <1>4, <1>8, <2>2 DEF RunningInv
<1>13. \A g \in Handlers \ {h} :
         /\ pc'[g] = pc[g] /\ serving'[g] = serving[g] /\ clones'[g] = clones[g]
         /\ method'[g] = method[g] /\ streamer'[g] = streamer[g] /\ reply'[g] = reply[g]
  BY <1>1, <1>6 DEF IInv, TypeInv
<1>. QED
  BY <1>6, <1>7, <1>9, <1>10, <1>11, <1>12, <1>13, MoverDecides DEF HandlerInv

(* It is the only one of the handler that does, and it stops. *)
LEMMA WakeKeeps ==
  ASSUME IInv, NEW h \in Handlers, Wake(h)
  PROVE  IInv'
<1> DEFINE n == [Method(h) EXCEPT !.isRunning = FALSE]
           response == Response(OK, Wildcard, <<>>)
<1>1. /\ pc[h] = "sleep" /\ pc' = [pc EXCEPT ![h] = "receive"]
      /\ MethodBecomes(h, n)
      /\ reply' = [reply EXCEPT ![h] = response]
      /\ serving' = serving /\ method' = method /\ streamer' = streamer
  BY DEF Wake, Respond, GoTo
<1>2. method[h] # NoMethod
  BY <1>1 DEF IInv, HandlerInv, CalledInv
<1>3. PICK root \in DOMAIN Resources :
        \E i \in DOMAIN Resources[root] :
          method[h] = <<root, i>> /\ Method(h) = clones[h][root][i] /\ IsCloneOf(Method(h), Resources[root][i])
  BY <1>2, CalledMethod
<1>4. PICK i \in DOMAIN Resources[root] :
        method[h] = <<root, i>> /\ Method(h) = clones[h][root][i] /\ IsCloneOf(Method(h), Resources[root][i])
  BY <1>3
<1>5. IsCloneOf(n, Resources[root][i]) /\ ~n.isRunning
  BY <1>4 DEF IsCloneOf, MethodFields
<1>6. response.entity = <<>> /\ response.status # NotAcceptable
  BY DEF Response, OK, NotAcceptable
<1> HIDE DEF n, response
<1>7. /\ DOMAIN clones' = Handlers /\ ClonesInv(h)' /\ clones'[h][root][i] = n
      /\ \A r \in DOMAIN Resources : \A k \in DOMAIN Resources[r] :
           <<r, k>> # <<root, i>> => clones'[h][r][k] = clones[h][r][k]
      /\ \A g \in Handlers \ {h} : clones'[g] = clones[g]
  BY <1>1, <1>4, <1>5, MethodReplaced
<1>8. TypeInv'
  BY <1>1, <1>7 DEF IInv, TypeInv
<1>9. pc'[h] = "receive" /\ method'[h] = method[h] /\ reply'[h] = response
  BY <1>1 DEF IInv, TypeInv
<1>10. CalledInv(h)'
  BY <1>9 DEF IInv, HandlerInv, CalledInv
<1>11. StreamerInv(h)' /\ OwnInv(h)'
  BY <1>9 DEF StreamerInv, OwnInv
<1>12. AcceptedInv(h)'
  BY <1>6, <1>9 DEF AcceptedInv, TypeAccepted
<1>13. RunningInv(h)'
  <2>1. \A r \in DOMAIN Resources : \A k \in DOMAIN Resources[r] :
          clones[h][r][k].isRunning => <<r, k>> = <<root, i>>
    BY <1>4 DEF IInv, HandlerInv, RunningInv
  <2>2. \A r \in DOMAIN Resources : \A k \in DOMAIN Resources[r] : ~clones'[h][r][k].isRunning
    BY <1>5, <1>7, <2>1
  <2>. QED
    BY <2>2 DEF RunningInv
<1>14. \A g \in Handlers \ {h} :
         /\ pc'[g] = pc[g] /\ serving'[g] = serving[g] /\ clones'[g] = clones[g]
         /\ method'[g] = method[g] /\ streamer'[g] = streamer[g] /\ reply'[g] = reply[g]
  BY <1>1, <1>7 DEF IInv, TypeInv
<1>. QED
  BY <1>7, <1>8, <1>10, <1>11, <1>12, <1>13, <1>14, MoverDecides DEF HandlerInv

LEMMA InitHolds == Init => IInv
<1> SUFFICES ASSUME Init PROVE IInv
  OBVIOUS
<1>1. TypeInv
  BY DEF Init, TypeInv
<1>2. ASSUME NEW h \in Handlers
      PROVE  HandlerInv(h)
  <2>1. pc[h] = "receive" /\ clones[h] = Resources /\ method[h] = NoMethod
    BY DEF Init
  <2>2. ASSUME NEW root \in DOMAIN Resources, NEW i \in DOMAIN Resources[root]
        PROVE  /\ IsCloneOf(Resources[root][i], Resources[root][i])
               /\ ~Resources[root][i].isRunning
    BY MethodsWellFormed DEF IsCloneOf, WellFormed
  <2>3. ClonesInv(h) /\ RunningInv(h)
    BY <2>1, <2>2 DEF ClonesInv, RunningInv
  <2>4. CalledInv(h) /\ StreamerInv(h) /\ OwnInv(h) /\ AcceptedInv(h)
    BY <2>1 DEF CalledInv, StreamerInv, OwnInv, AcceptedInv
  <2>. QED
    BY <2>3, <2>4 DEF HandlerInv
<1>. QED
  BY <1>1, <1>2 DEF IInv

LEMMA StepPreserves ==
  ASSUME IInv, [Next]_vars
  PROVE  IInv'
<1>1. CASE UNCHANGED vars
  <2>1. TypeInv'
    BY <1>1 DEF vars, IInv, TypeInv
  <2>2. \A h \in Handlers : HandlerInv(h)'
    BY <1>1, OthersKeep DEF vars, IInv
  <2>. QED
    BY <2>1, <2>2 DEF IInv
<1>2. CASE Next
  <2>1. PICK h \in Handlers : Receive(h) \/ HandleRequest(h) \/ Process(h) \/ Sleep(h) \/ Wake(h)
    BY <1>2 DEF Next
  <2>. QED
    BY <2>1, ReceiveKeeps, HandleRequestKeeps, ProcessKeeps, SleepKeeps, WakeKeeps
<1>. QED
  BY <1>1, <1>2

-----------------------------------------------------------------------------
(* The invariant is inductive. *)
THEOREM Invariance == Spec => []IInv
<1>1. IInv /\ [Next]_vars => IInv'
  BY StepPreserves
<1>. QED
  BY InitHolds, <1>1, PTL DEF Spec

(* What process() reads from the members of a method is what its own       *)
(* request asks for, whatever requests of this handler or others came      *)
(* before or are served beside it.                                         *)
THEOREM MethodsReadTheirRequest == Spec => []OwnRequest
<1>1. IInv => OwnRequest
  BY DEF IInv, HandlerInv, OwnInv, OwnRequest
<1>. QED
  BY <1>1, Invariance, PTL

(* The type of an answer is one that the request accepts, and one that it  *)
(* names if the method has one.                                            *)
THEOREM AnswersAreAccepted == Spec => []NegotiatedTypeAccepted
<1>1. IInv => NegotiatedTypeAccepted
  BY DEF IInv, HandlerInv, AcceptedInv, NegotiatedTypeAccepted
<1>. QED
  BY <1>1, Invariance, PTL

-----------------------------------------------------------------------------
(* Without history: a clone that has served other requests answers as the  *)
(* method that was registered does.                                        *)

(* A method is a clone of itself. *)
LEMMA OwnClone ==
  ASSUME NEW p, WellFormed(p)
  PROVE  IsCloneOf(p, p)
BY DEF IsCloneOf, WellFormed

(* The clones of a resource match a request as its methods do. *)
LEMMA SameMatch ==
  ASSUME NEW methods, NEW originals, DOMAIN methods = DOMAIN originals,
         \A i \in DOMAIN originals : IsCloneOf(methods[i], originals[i]),
         methods = [i \in DOMAIN originals |-> methods[i]],
         originals \in Seq(Range(originals)),
         NEW root, NEW uri, NEW type
  PROVE  getPrototypeWithBestMatch(root, methods, uri, type)
           = getPrototypeWithBestMatch(root, originals, uri, type)
<1>1. methods = <<>> <=> originals = <<>>
  <2>1. methods = <<>> => originals = <<>>
    <3>1. methods = <<>> => DOMAIN originals = {}
      OBVIOUS
    <3>2. DOMAIN originals = {} => originals = <<>>
      OBVIOUS
    <3>. QED
      BY <3>1, <3>2
  <2>2. originals = <<>> => methods = <<>>
    OBVIOUS
  <2>. QED
    BY <2>1, <2>2
<1>2. \A i \in DOMAIN originals :
        methods[i].path = originals[i].path /\ methods[i].methodType = originals[i].methodType
  BY DEF IsCloneOf
<1>3. ASSUME NEW pathIDs
      PROVE  closestOf(methods, distances(methods, pathIDs), type)
               = closestOf(originals, distances(originals, pathIDs), type)
  <2>1. distances(methods, pathIDs) = distances(originals, pathIDs)
    BY <1>2 DEF distances
  <2> DEFINE distance == distances(originals, pathIDs)
  <2> HIDE DEF distance
  <2>2. closestOf(methods, distance, type) = closestOf(originals, distance, type)
    <3> DEFINE matchingOf(list) == {i \in DOMAIN list : distance[i] >= 0}
               candidatesOf(list) == {i \in matchingOf(list) : list[i].methodType = type}
               match(matching, candidates) ==
                 IF \E i, j \in candidates : i # j /\ distance[i] = distance[j]
                 THEN MatchFails(InternalServerError)
                 ELSE IF candidates # {} THEN MatchFound(getPrototypeClosestToRequest(distance, candidates))
                 ELSE MatchFails(IF matching # {} THEN MethodNotAllowed ELSE NotFound)
    <3>1. matchingOf(methods) = matchingOf(originals)
      OBVIOUS
    <3>2. candidatesOf(methods) = candidatesOf(originals)
      BY <1>2
    <3>3. /\ closestOf(methods, distance, type) = match(matchingOf(methods), candidatesOf(methods))
          /\ closestOf(originals, distance, type) = match(matchingOf(originals), candidatesOf(originals))
      BY DEF closestOf
    <3> HIDE DEF matchingOf, candidatesOf, match
    <3>. QED
      BY <3>1, <3>2, <3>3
  <2>. QED
    BY <2>1, <2>2 DEF distance
<1>. QED
  BY <1>1, <1>3 DEF getPrototypeWithBestMatch

(* Path IDs and query fields leave alone what was received. *)
LEMMA PathIDsKeepReceived ==
  ASSUME NEW m, DOMAIN m = MethodFields, NEW pathIDs
  PROVE  processPathIDs(m, pathIDs).received = m.received
BY DEF processPathIDs, MethodFields

LEMMA QueryFieldsKeepReceived ==
  ASSUME NEW m, DOMAIN m = MethodFields, NEW parameters, NEW fields
  PROVE  setQueryParameters(m, parameters, fields).received = m.received
BY DEF setQueryParameters, MethodFields

(* Which query fields are refused depends on the parameters, not on their  *)
(* values.                                                                 *)
LEMMA SameFields ==
  ASSUME NEW p, NEW m, IsCloneOf(m, p), NEW n, IsCloneOf(n, p), NEW fields
  PROVE  /\ processQueryFields(m, fields).status = processQueryFields(n, fields).status
         /\ processQueryFields(n, fields).methods # {}
<1> DEFINE failingOf(ps) == SelectInSeq(ps, LAMBDA q : QueryParameterFails(q, fields))
           statusOf(ps) == IF failingOf(ps) = 0 THEN 0 ELSE BadRequest
<1>1. ASSUME NEW k
      PROVE  /\ processQueryFields(k, fields).status = statusOf(k.queryParameters)
             /\ processQueryFields(k, fields).methods # {}
  <2>1. PICK failing, done, zero :
          LET ps == k.queryParameters
          IN  /\ failing = failingOf(ps)
              /\ processQueryFields(k, fields)
                   = IF failing = 0 THEN [status |-> 0, methods |-> {done}]
                     ELSE IF ps[failing].id \notin DOMAIN fields THEN [status |-> BadRequest, methods |-> {done}]
                     ELSE [status |-> BadRequest, methods |-> {done, zero}]
    BY Zenon DEF processQueryFields
  <2> HIDE DEF failingOf
  <2>2. CASE failing = 0
    BY <2>1, <2>2
  <2>3. CASE failing # 0 /\ k.queryParameters[failing].id \notin DOMAIN fields
    BY <2>1, <2>3
  <2>4. CASE failing # 0 /\ k.queryParameters[failing].id \in DOMAIN fields
    BY <2>1, <2>4
  <2>. QED
    BY <2>2, <2>3, <2>4
<1>2. m.queryParameters = n.queryParameters
  BY DEF IsCloneOf
<1> HIDE DEF statusOf
<1>. QED
  BY <1>1, <1>2

(* An outcome of processRequest() with the status and the streamer of done. *)
SameIn(done, outcomes) == \E other \in outcomes : other.status = done.status /\ other.type = done.type

(* What processRequest() makes of two clones that have the path IDs of one *)
(* request: both are refused with one status, or both are ready for        *)
(* process() with the same streamer.                                       *)
LEMMA SameOutcome ==
  ASSUME NEW p, WellFormed(p), NEW m, IsCloneOf(m, p), NEW n, IsCloneOf(n, p),
         NEW header, NEW body, NEW done \in processRequest(m, header, body)
  PROVE  SameIn(done, processRequest(n, header, body))
<1> DEFINE type == header.Fields.contentType.Type
           refuses(k) == unstreamRequestEntity(k, type, body)
           unstreamed(k) == IF k.methodType = "POST" THEN unstream(k, type, body) ELSE k
           detected(k) == entityStreamer(k, header.Fields)
           processed(k) == processQueryFields(unstreamed(k), header.QueryFields)
           Done(k, status, l) == [status |-> status, method |-> l, type |-> detected(k).type]
           Outcomes(k) == IF refuses(k) # 0 THEN {Done(k, refuses(k), k)}
                          ELSE IF detected(k).status # 0 THEN {Done(k, detected(k).status, unstreamed(k))}
                          ELSE {Done(k, processed(k).status, l) : l \in processed(k).methods}
<1>1. done \in Outcomes(m) /\ processRequest(n, header, body) = Outcomes(n)
  BY DEF processRequest
<1>2. refuses(m) = refuses(n)
  BY DEF unstreamRequestEntity, IsCloneOf
<1>3. detected(m) = detected(n)
  BY SameStreamer
<1>4. IsCloneOf(unstreamed(m), p) /\ IsCloneOf(unstreamed(n), p)
  BY EntityUnstreamed
<1> HIDE DEF refuses, unstreamed, detected
<1>5. processed(m).status = processed(n).status /\ processed(n).methods # {}
  BY <1>4, SameFields
<1> HIDE DEF processed
<1>6. CASE refuses(n) # 0
  <2>1. done.status = refuses(n) /\ done.type = detected(n).type
    BY <1>1, <1>2, <1>3, <1>6
  <2>2. Done(n, refuses(n), n) \in Outcomes(n)
    BY <1>6
  <2>. QED
    BY <1>1, <2>1, <2>2 DEF SameIn
<1>7. CASE refuses(n) = 0 /\ detected(n).status # 0
  <2>1. done.status = detected(n).status /\ done.type = detected(n).type
    BY <1>1, <1>2, <1>3, <1>7
  <2>2. Done(n, detected(n).status, unstreamed(n)) \in Outcomes(n)
    BY <1>7
  <2>. QED
    BY <1>1, <2>1, <2>2 DEF SameIn
<1>8. CASE refuses(n) = 0 /\ detected(n).status = 0
  <2>1. done.status = processed(n).status /\ done.type = detected(n).type
    BY <1>1, <1>2, <1>3, <1>5, <1>8
  <2>2. PICK l \in processed(n).methods : TRUE
    BY <1>5
  <2>3. Done(n, processed(n).status, l) \in Outcomes(n)
    BY <1>8, <2>2
  <2>. QED
    BY <1>1, <2>1, <2>3 DEF SameIn
<1>. QED
  BY <1>6, <1>7, <1>8

(* What a method that is ready for process() has received: what was        *)
(* unstreamed for the request, and otherwise what it had.                  *)
LEMMA ReceivedAfter ==
  ASSUME NEW p, WellFormed(p), p.methodType = "POST", p.unstreamers # <<>>,
         NEW m, IsCloneOf(m, p), NEW header, NEW body,
         NEW done \in processRequest(m, header, body), done.status = 0
  PROVE  LET type == header.Fields.contentType.Type
         IN  /\ type \in Range(p.unstreamers) /\ body # <<>>
             /\ done.method.received = unstream(m, type, body).received
<1> DEFINE type == header.Fields.contentType.Type
           refuses == unstreamRequestEntity(m, type, body)
           unstreamed == unstream(m, type, body)
           detected == entityStreamer(m, header.Fields)
           processed == processQueryFields(unstreamed, header.QueryFields)
           Done(status, l) == [status |-> status, method |-> l, type |-> detected.type]
<1>1. m.methodType = "POST" /\ m.unstreamers = p.unstreamers
  BY DEF IsCloneOf
<1>2. done \in IF refuses # 0 THEN {Done(refuses, m)}
               ELSE IF detected.status # 0 THEN {Done(detected.status, unstreamed)}
               ELSE {Done(processed.status, l) : l \in processed.methods}
  BY <1>1 DEF processRequest
<1>3. IsCloneOf(unstreamed, p)
  BY EntityUnstreamed
<1> HIDE DEF refuses, unstreamed, detected, processed
<1>4. refuses = 0 /\ detected.status = 0
  BY <1>2
<1>5. type \in Range(p.unstreamers) /\ body # <<>>
  BY <1>1, <1>4 DEF refuses, unstreamRequestEntity, UnsupportedMediaType, InternalServerError
<1>6. PICK l \in processed.methods : done = Done(processed.status, l)
  BY <1>2, <1>4
<1>7. processed.status = 0 /\ done.method = l
  BY <1>6
<1>8. l = setQueryParameters(unstreamed, Range(p.queryParameters), header.QueryFields)
  BY <1>3, <1>6, <1>7, QueryFieldsProcessed DEF processed
<1>9. l.received = unstreamed.received
  BY <1>3, <1>8, QueryFieldsKeepReceived DEF IsCloneOf
<1>. QED
  BY <1>5, <1>7, <1>9 DEF unstreamed

(* Two clones with the parameters of one request give one answer, unless   *)
(* they answer with what they received.                                    *)
LEMMA SameAnswer ==
  ASSUME NEW p, WellFormed(p), p.name # "MediaTypeConverter",
         ReadBy(p.name) \subseteq {p.path[k].id : k \in PathParameters(p)} \cup {q.id : q \in Range(p.queryParameters)},
         NEW m, IsCloneOf(m, p), NEW n, IsCloneOf(n, p), NEW r, NEW root,
         ReadsRequest(m, r, root), ReadsRequest(n, r, root), NEW type
  PROVE  process(m, type) = process(n, type)
<1>1. m.name = p.name /\ n.name = p.name
  BY DEF IsCloneOf
<1>2. /\ PathParameters(m) = PathParameters(p) /\ PathParameters(n) = PathParameters(p)
      /\ m.path = p.path /\ n.path = p.path
      /\ m.queryParameters = p.queryParameters /\ n.queryParameters = p.queryParameters
  BY DEF IsCloneOf, PathParameters
<1>3. \A k \in PathParameters(p) : m.values[p.path[k].id] = n.values[p.path[k].id]
  BY <1>2 DEF ReadsRequest
<1>4. \A q \in Range(p.queryParameters) : m.values[q.id] = n.values[q.id]
  BY <1>2 DEF ReadsRequest
<1>5. \A id \in ReadBy(p.name) : m.values[id] = n.values[id]
  BY <1>3, <1>4
<1>6. CASE p.name = "Add"
  <2>1. /\ m.values[Argument(arg1)] = n.values[Argument(arg1)]
        /\ m.values[Argument(arg2)] = n.values[Argument(arg2)]
        /\ m.values[multiplier] = n.values[multiplier]
    BY <1>5, <1>6 DEF ReadBy
  <2>2. processAdd(m.values, type) = processAdd(n.values, type)
    BY <2>1 DEF processAdd
  <2>. QED
    BY <1>1, <1>6, <2>2 DEF process
<1>7. CASE p.name = "AddDuplicatePOST"
  <2>1. /\ m.values[Argument(arg1)] = n.values[Argument(arg1)]
        /\ m.values[Argument(arg2)] = n.values[Argument(arg2)]
    BY <1>5, <1>7 DEF ReadBy
  <2>2. processAddDuplicatePOST(m.values, type) = processAddDuplicatePOST(n.values, type)
    BY <2>1 DEF processAddDuplicatePOST
  <2>. QED
    BY <1>1, <1>7, <2>2 DEF process
<1>8. CASE p.name = "InvalidEntity"
  BY <1>1, <1>8 DEF process
<1>9. CASE p.name = "DELETE"
  BY <1>1, <1>9 DEF process
<1>10. CASE p.name \notin {"Add", "AddDuplicatePOST", "MediaTypeConverter", "InvalidEntity", "DELETE"}
  BY <1>1, <1>10 DEF process
<1>. QED
  BY <1>6, <1>7, <1>8, <1>9, <1>10

(* The converter answers with what it received for its own request, or     *)
(* with what was in XML before.                                            *)
LEMMA ConverterAnswers ==
  ASSUME NEW old, NEW p, IsCloneOf(p, p), p.name = "MediaTypeConverter", ReceivesXMLOrJSON(p),
         DOMAIN old.received = {XML, JSON}, NEW m, IsCloneOf(m, p),
         NEW n, IsCloneOf(n, p), NEW type \in {XML, JSON}, NEW body, Between(type, body) # <<>>,
         m.received = [old.received EXCEPT ![type] = Between(type, body)],
         n.received = [p.received EXCEPT ![type] = Between(type, body)],
         NEW streamed
  PROVE  \/ process(m, streamed) = process(n, streamed)
         \/ old.received[XML] # <<>> /\ process(m, streamed).entity = Streamed(streamed, old.received[XML])
<1> DEFINE own == Between(type, body)
<1> HIDE DEF own
<1>1. XML # JSON
  BY DEF XML, JSON
<1>2. m.name = "MediaTypeConverter" /\ n.name = "MediaTypeConverter"
  BY DEF IsCloneOf
<1>3. /\ process(m, streamed) = buildResponse(Created, streamed, m.received[Source(m)])
      /\ process(n, streamed) = buildResponse(Created, streamed, n.received[Source(n)])
  BY <1>2 DEF process, processMediaTypeConverter
<1>4. p.received = [t \in {XML, JSON} |-> <<>>]
  BY DEF ReceivesXMLOrJSON
<1>5. n.received[type] = own /\ own # <<>> /\ (type = JSON => n.received[XML] = <<>>)
  BY <1>1, <1>4 DEF own
<1>6. n.received[Source(n)] = own
  BY <1>5 DEF Source
<1>7. m.received[type] = own /\ (type = JSON => m.received[XML] = old.received[XML])
  BY <1>1 DEF own
<1>8. CASE type = XML \/ old.received[XML] = <<>>
  <2>1. m.received[Source(m)] = own
    BY <1>5, <1>7, <1>8 DEF Source
  <2>. QED
    BY <1>3, <1>6, <2>1
<1>9. CASE type = JSON /\ old.received[XML] # <<>>
  <2>1. m.received[Source(m)] = old.received[XML]
    BY <1>7, <1>9 DEF Source
  <2>. QED
    BY <1>3, <1>9, <2>1 DEF buildResponse, Response
<1>. QED
  BY <1>8, <1>9

-----------------------------------------------------------------------------
(* A handler serves a request to it, or none yet. *)
ServedInv(h) ==
  /\ serving[h] \in RequestsTo[h] \cup {NoCheck}
  /\ pc[h] # "receive" => serving[h] \in RequestsTo[h]

(* Its methods are a list, as those that are registered. *)
ListsInv(h) ==
  \A root \in DOMAIN Resources : clones[h][root] = [i \in DOMAIN Resources[root] |-> clones[h][root][i]]

(* What the converter finds in XML is its own or an entity that it was left *)
(* with.                                                                   *)
ReceivedInv(h) ==
  \A root \in DOMAIN Resources : \A i \in DOMAIN Resources[root] :
    Resources[root][i].name = "MediaTypeConverter" =>
      /\ DOMAIN clones[h][root][i].received = {XML, JSON}
      /\ \/ clones[h][root][i].received[XML] \in refused[h] \cup {<<>>}
         \/ pc[h] = "process" /\ method[h] = <<root, i>>

(* process() will answer as it does for a request that is the only one. *)
ReadyInv(h) ==
  /\ pc[h] = "process" => AnswersAsAlone(h, process(Method(h), streamer[h]))
  /\ pc[h] = "sleep" => Response(OK, Wildcard, <<>>) \in AnswersTo(request(h))

AnsweredInv(h) == Answered(h) => AnswersAsAlone(h, reply[h])

AloneInv(h) == ServedInv(h) /\ ListsInv(h) /\ ReceivedInv(h) /\ ReadyInv(h) /\ AnsweredInv(h)

HistoryInv == IInv /\ DOMAIN refused = Handlers /\ \A h \in Handlers : AloneInv(h)

(* The other handlers do not see what a handler does. *)
LEMMA OthersAlone ==
  ASSUME HistoryInv, IInv', DOMAIN refused' = Handlers, NEW h \in Handlers, AloneInv(h)',
         \A g \in Handlers \ {h} :
           /\ pc'[g] = pc[g] /\ serving'[g] = serving[g] /\ clones'[g] = clones[g]
           /\ method'[g] = method[g] /\ streamer'[g] = streamer[g] /\ reply'[g] = reply[g]
           /\ refused'[g] = refused[g]
  PROVE  HistoryInv'
<1>1. ASSUME NEW g \in Handlers \ {h}
      PROVE  AloneInv(g)'
  <2>1. /\ pc'[g] = pc[g] /\ serving'[g] = serving[g] /\ clones'[g] = clones[g]
        /\ method'[g] = method[g] /\ streamer'[g] = streamer[g] /\ reply'[g] = reply[g]
        /\ refused'[g] = refused[g] /\ AloneInv(g)
    BY DEF HistoryInv
  <2>2. request(g)' = request(g) /\ Method(g)' = Method(g) /\ Answered(g)' = Answered(g)
    BY <2>1 DEF request, Method, cloneOf, Answered
  <2>3. ServedInv(g)' /\ ListsInv(g)' /\ ReceivedInv(g)'
    BY <2>1 DEF AloneInv, ServedInv, ListsInv, ReceivedInv
  <2>4. ReadyInv(g)' /\ AnsweredInv(g)'
    BY <2>1, <2>2 DEF AloneInv, ReadyInv, AnsweredInv, AnswersAsAlone
  <2>. QED
    BY <2>3, <2>4 DEF AloneInv
<1>. QED
  BY <1>1 DEF HistoryInv

(* A method is replaced: the list it is in remains one. *)
LEMMA ListReplaced ==
  ASSUME TypeInv, NEW h \in Handlers, ClonesInv(h), ListsInv(h), NEW root \in DOMAIN Resources,
         NEW i \in DOMAIN Resources[root], NEW m, clones' = [clones EXCEPT ![cloneOf(h)][root][i] = m]
  PROVE  ListsInv(h)'
<1>1. DOMAIN clones = Handlers /\ DOMAIN clones[h] = DOMAIN Resources
      /\ DOMAIN clones[h][root] = DOMAIN Resources[root]
  BY DEF TypeInv, ClonesInv
<1>2. clones'[h] = [clones[h] EXCEPT ![root] = [clones[h][root] EXCEPT ![i] = m]]
  BY <1>1 DEF cloneOf
<1>3. clones'[h][root] = [clones[h][root] EXCEPT ![i] = m]
  BY <1>1, <1>2
<1>4. \A s \in DOMAIN Resources \ {root} : clones'[h][s] = clones[h][s]
  BY <1>1, <1>2
<1>5. clones'[h][root] = [k \in DOMAIN Resources[root] |-> clones'[h][root][k]]
  BY <1>1, <1>3
<1>. QED
  BY <1>4, <1>5 DEF ListsInv

(* An answer that needs no history needs none after a step that keeps the  *)
(* request, the streamer and the method's name.                            *)
LEMMA AloneStays ==
  ASSUME NEW h, NEW response, AnswersAsAlone(h, response),
         request(h)' = request(h), method'[h] = method[h], streamer'[h] = streamer[h],
         refused'[h] = refused[h], Method(h)'.name = Method(h).name
  PROVE  AnswersAsAlone(h, response)'
BY DEF AnswersAsAlone

LEMMA ReceiveAlone ==
  ASSUME HistoryInv, IInv', NEW h \in Handlers, Receive(h)
  PROVE  HistoryInv'
<1>1. /\ pc[h] = "receive" /\ pc' = [pc EXCEPT ![h] = "handleRequest"]
      /\ \E c \in RequestsTo[h] : serving' = [serving EXCEPT ![h] = c]
      /\ method' = [method EXCEPT ![h] = NoMethod]
      /\ streamer' = [streamer EXCEPT ![h] = Wildcard]
      /\ reply' = [reply EXCEPT ![h] = NoReply]
      /\ clones' = clones /\ refused' = refused
  BY DEF Receive, GoTo
<1>2. pc'[h] = "handleRequest" /\ serving'[h] \in RequestsTo[h]
  BY <1>1 DEF HistoryInv, IInv, TypeInv
<1>3. ServedInv(h)' /\ ReadyInv(h)' /\ AnsweredInv(h)'
  BY <1>2 DEF ServedInv, ReadyInv, AnsweredInv, Answered
<1>4. ListsInv(h)' /\ ReceivedInv(h)'
  BY <1>1 DEF HistoryInv, AloneInv, ListsInv, ReceivedInv
<1>5. DOMAIN refused' = Handlers
      /\ \A g \in Handlers \ {h} :
           /\ pc'[g] = pc[g] /\ serving'[g] = serving[g] /\ clones'[g] = clones[g]
           /\ method'[g] = method[g] /\ streamer'[g] = streamer[g] /\ reply'[g] = reply[g]
           /\ refused'[g] = refused[g]
  BY <1>1 DEF HistoryInv, IInv, TypeInv
<1>. QED
  BY <1>3, <1>4, <1>5, OthersAlone DEF AloneInv

(* A request that is answered without a method. *)
LEMMA AnswersAlone ==
  ASSUME HistoryInv, IInv', NEW h \in Handlers, pc[h] = "handleRequest", NEW response,
         Answers(h, response), serving' = serving, response \in AnswersTo(request(h))
  PROVE  HistoryInv'
<1>1. /\ pc' = [pc EXCEPT ![h] = "receive"] /\ reply' = [reply EXCEPT ![h] = response]
      /\ method' = method /\ clones' = clones /\ streamer' = streamer /\ serving' = serving
      /\ refused' = refused
  BY DEF Answers, Respond, GoTo
<1>2. pc'[h] = "receive" /\ reply'[h] = response /\ request(h)' = request(h)
  BY <1>1 DEF HistoryInv, IInv, TypeInv, request
<1>3. ServedInv(h)'
  BY <1>1 DEF HistoryInv, AloneInv, ServedInv
<1>4. ReadyInv(h)' /\ AnsweredInv(h)'
  BY <1>2 DEF ReadyInv, AnsweredInv, AnswersAsAlone
<1>5. ListsInv(h)' /\ ReceivedInv(h)'
  BY <1>1 DEF HistoryInv, AloneInv, ListsInv, ReceivedInv
<1>6. DOMAIN refused' = Handlers
      /\ \A g \in Handlers \ {h} :
           /\ pc'[g] = pc[g] /\ serving'[g] = serving[g] /\ clones'[g] = clones[g]
           /\ method'[g] = method[g] /\ streamer'[g] = streamer[g] /\ reply'[g] = reply[g]
           /\ refused'[g] = refused[g]
  BY <1>1 DEF HistoryInv, IInv, TypeInv
<1>. QED
  BY <1>3, <1>4, <1>5, <1>6, OthersAlone DEF AloneInv

(* Query fields change no entity that was received, refused or not. *)
LEMMA FieldsKeepReceived ==
  ASSUME NEW m, DOMAIN m = MethodFields, NEW fields, NEW n \in processQueryFields(m, fields).methods
  PROVE  n.received = m.received
<1>1. PICK parameters, id :
        LET fresh == setQueryParameters(m, parameters, fields)
        IN  n \in {fresh, [fresh EXCEPT !.values[id] = 0]}
  <2>1. PICK failing, before :
          LET ps == m.queryParameters
              fresh == setQueryParameters(m, Range(before), fields)
          IN  processQueryFields(m, fields)
                = IF failing = 0 THEN [status |-> 0, methods |-> {fresh}]
                  ELSE IF ps[failing].id \notin DOMAIN fields THEN [status |-> BadRequest, methods |-> {fresh}]
                  ELSE [status |-> BadRequest, methods |-> {fresh, [fresh EXCEPT !.values[ps[failing].id] = 0]}]
    BY DEF processQueryFields
  <2> DEFINE fresh == setQueryParameters(m, Range(before), fields)
             zero == [fresh EXCEPT !.values[m.queryParameters[failing].id] = 0]
  <2>2. n \in {fresh, zero}
    <3> HIDE DEF fresh, zero
    <3>1. processQueryFields(m, fields).methods \subseteq {fresh, zero}
      BY <2>1 DEF fresh, zero
    <3>. QED
      BY <3>1
  <2>. QED
    BY <2>2
<1> DEFINE fresh == setQueryParameters(m, parameters, fields)
<1>2. fresh.received = m.received /\ DOMAIN fresh = MethodFields
  BY QueryFieldsKeepReceived DEF setQueryParameters
<1> HIDE DEF fresh
<1>3. [fresh EXCEPT !.values[id] = 0].received = fresh.received
  BY <1>2 DEF MethodFields
<1>. QED
  BY <1>1, <1>2, <1>3 DEF fresh

(* A request does not change of which types a method receives entities. *)
LEMMA TypesReceived ==
  ASSUME NEW p, NEW m, IsCloneOf(m, p), NEW header, NEW body,
         NEW done \in processRequest(m, header, body)
  PROVE  DOMAIN done.method.received = DOMAIN m.received
<1> DEFINE type == header.Fields.contentType.Type
           refuses == unstreamRequestEntity(m, type, body)
           unstreamed == IF m.methodType = "POST" THEN unstream(m, type, body) ELSE m
           detected == entityStreamer(m, header.Fields)
           processed == processQueryFields(unstreamed, header.QueryFields)
           Done(status, l) == [status |-> status, method |-> l, type |-> detected.type]
<1>1. done \in IF refuses # 0 THEN {Done(refuses, m)}
               ELSE IF detected.status # 0 THEN {Done(detected.status, unstreamed)}
               ELSE {Done(processed.status, l) : l \in processed.methods}
  BY DEF processRequest
<1>2. DOMAIN unstreamed = MethodFields /\ DOMAIN unstreamed.received = DOMAIN m.received
  BY DEF unstream, IsCloneOf, MethodFields
<1> HIDE DEF refuses, unstreamed, detected
<1>3. \A l \in processed.methods : l.received = unstreamed.received
  BY <1>2, FieldsKeepReceived
<1> HIDE DEF processed
<1>4. done.method \in {m, unstreamed} \cup processed.methods
  BY <1>1
<1>. QED
  BY <1>2, <1>3, <1>4

(* A request that is answered by the registered method. *)
AnsweredBy(r, root, p) ==
  \A done \in processRequest(processPathIDs(p, pathIDList(r.header.URI, root)), r.header, r.entity) :
    (IF done.status # 0 THEN ErrorResponse(done.status) ELSE process(done.method, done.type)) \in AnswersTo(r)

(* What a server answers that has served nothing before, case by case. *)
LEMMA WhatIsAnswered ==
  ASSUME NEW r, NEW root, root = findLongestMatchString(r.header.URI, DOMAIN Resources),
         NEW match, match = getPrototypeWithBestMatch(root, Resources[root], r.header.URI, r.header.Method)
  PROVE  LET URI == r.header.URI
         IN  /\ URI = <<>> => ErrorResponse(BadRequest) \in AnswersTo(r)
             /\ URI # <<>> /\ root = NoResource => ErrorResponse(NotFound) \in AnswersTo(r)
             /\ URI # <<>> /\ root # NoResource =>
                  IF isAccessToContextRoot(URI, root)
                  THEN resourceDescription(r.header.Method, root) \in AnswersTo(r)
                  ELSE IF match.status # 0 THEN ErrorResponse(match.status) \in AnswersTo(r)
                  ELSE AnsweredBy(r, root, Resources[root][match.method])
<1> DEFINE URI == r.header.URI
           matched == processPathIDs(Resources[root][match.method], pathIDList(URI, root))
           answer(done) == IF done.status # 0 THEN ErrorResponse(done.status)
                           ELSE process(done.method, done.type)
           outcomes == processRequest(matched, r.header, r.entity)
<1>1. AnswersTo(r) =
        IF URI = <<>> THEN {ErrorResponse(BadRequest)}
        ELSE IF root = NoResource THEN {ErrorResponse(NotFound)}
        ELSE IF isAccessToContextRoot(URI, root) THEN {resourceDescription(r.header.Method, root)}
        ELSE IF match.status # 0 THEN {ErrorResponse(match.status)}
        ELSE {answer(done) : done \in outcomes}
  BY Zenon DEF AnswersTo
<1> HIDE DEF outcomes, matched, URI
<1>2. \A done \in outcomes : answer(done) \in {answer(d) : d \in outcomes}
  OBVIOUS
<1> HIDE DEF answer
<1>3. /\ URI = <<>> => ErrorResponse(BadRequest) \in AnswersTo(r)
      /\ URI # <<>> /\ root = NoResource => ErrorResponse(NotFound) \in AnswersTo(r)
      /\ URI # <<>> /\ root # NoResource =>
           IF isAccessToContextRoot(URI, root)
           THEN resourceDescription(r.header.Method, root) \in AnswersTo(r)
           ELSE IF match.status # 0 THEN ErrorResponse(match.status) \in AnswersTo(r)
           ELSE \A done \in outcomes : answer(done) \in AnswersTo(r)
  BY <1>1, <1>2
<1>. QED
  BY <1>3, Zenon DEF URI, matched, outcomes, answer, AnsweredBy

(* A registered method, and what it is known to receive and to read. *)
LEMMA MethodsRead ==
  ASSUME NEW root \in DOMAIN Resources, NEW i \in DOMAIN Resources[root], NEW p, p = Resources[root][i]
  PROVE  /\ Resources[root] \in Seq(Range(Resources[root]))
         /\ ReadBy(p.name) \subseteq
              {p.path[k].id : k \in PathParameters(p)} \cup {q.id : q \in Range(p.queryParameters)}
         /\ p.name = "MediaTypeConverter" => ReceivesXMLOrJSON(p)
<1>1. /\ Resources[root] \in Seq(Range(Resources[root]))
      /\ \A k \in DOMAIN Resources[root] :
           LET m == Resources[root][k]
           IN  /\ ReadBy(m.name) \subseteq
                    {m.path[j].id : j \in PathParameters(m)} \cup {q.id : q \in Range(m.queryParameters)}
               /\ m.name = "MediaTypeConverter" => ReceivesXMLOrJSON(m)
  BY FixtureAssumption
<1>. QED
  BY <1>1

(* Of the outcomes of a request for a registered method p, one is answered *)
(* as done is, the outcome for its clone c, unless c is the converter and  *)
(* answers with what it was left with.                                     *)
AnswersOf(done, c, p, outcomes) ==
  \E other \in outcomes :
    /\ other.status = 0 /\ other.type = done.type
    /\ \/ process(done.method, done.type) = process(other.method, other.type)
       \/ /\ p.name = "MediaTypeConverter" /\ c.received[XML] # <<>>
          /\ process(done.method, done.type).entity = Streamed(done.type, c.received[XML])

(* The method called is ready for process(): it answers as the registered  *)
(* method would, or the converter with what it was left with.              *)
LEMMA CalledAlone ==
  ASSUME NEW p, WellFormed(p), NEW c, IsCloneOf(c, p), ~c.isRunning,
         ReadBy(p.name) \subseteq
           {p.path[k].id : k \in PathParameters(p)} \cup {q.id : q \in Range(p.queryParameters)},
         p.name = "MediaTypeConverter" => ReceivesXMLOrJSON(p) /\ DOMAIN c.received = {XML, JSON},
         NEW r, r.entity # <<>> => Between(r.header.Fields.contentType.Type, r.entity) # <<>>,
         NEW root, NEW pathIDs, pathIDs = pathIDList(r.header.URI, root),
         NEW done \in processRequest(processPathIDs(c, pathIDs), r.header, r.entity), done.status = 0
  PROVE  AnswersOf(done, c, p, processRequest(processPathIDs(p, pathIDs), r.header, r.entity))
<1> DEFINE matched == processPathIDs(c, pathIDs)
           fresh == processPathIDs(p, pathIDs)
           type == r.header.Fields.contentType.Type
<1>1. IsCloneOf(p, p) /\ ~p.isRunning
  BY OwnClone DEF WellFormed
<1>2. /\ IsCloneOf(matched, p) /\ ~matched.isRunning /\ HasPathIDs(matched, p, pathIDs)
      /\ IsCloneOf(fresh, p) /\ ~fresh.isRunning /\ HasPathIDs(fresh, p, pathIDs)
  BY <1>1, PathParametersSet
<1>3. matched.received = c.received /\ fresh.received = p.received
  BY <1>1, PathIDsKeepReceived DEF IsCloneOf
<1> HIDE DEF matched, fresh
<1>4. PICK other \in processRequest(fresh, r.header, r.entity) :
        other.status = done.status /\ other.type = done.type
  <2>1. done \in processRequest(matched, r.header, r.entity)
    BY DEF matched
  <2>2. WellFormed(p) /\ IsCloneOf(matched, p) /\ IsCloneOf(fresh, p)
    BY <1>2
  <2>3. SameIn(done, processRequest(fresh, r.header, r.entity))
    BY <2>1, <2>2, SameOutcome, Zenon
  <2>. QED
    BY <2>3 DEF SameIn
<1>5. IsCloneOf(done.method, p) /\ ReadsRequest(done.method, r, root)
  <2>1. done \in processRequest(matched, r.header, r.entity)
    BY DEF matched
  <2>. QED
    BY <1>2, <2>1, RequestProcessed
<1>6. IsCloneOf(other.method, p) /\ ReadsRequest(other.method, r, root)
  BY <1>2, <1>4, RequestProcessed
<1>7. CASE p.name # "MediaTypeConverter"
  <2>1. process(done.method, done.type) = process(other.method, done.type)
    BY <1>5, <1>6, <1>7, SameAnswer
  <2>. QED
    BY <1>4, <2>1 DEF fresh, AnswersOf
<1>8. CASE p.name = "MediaTypeConverter"
  <2>1. /\ p.methodType = "POST" /\ p.unstreamers # <<>> /\ Range(p.unstreamers) = {XML, JSON}
        /\ p.received = [t \in {XML, JSON} |-> <<>>]
    BY <1>8 DEF ReceivesXMLOrJSON
  <2>2. done \in processRequest(matched, r.header, r.entity)
    BY DEF matched
  <2>3. /\ type \in {XML, JSON} /\ r.entity # <<>>
        /\ done.method.received = unstream(matched, type, r.entity).received
    BY <1>2, <2>1, <2>2, ReceivedAfter
  <2>4. other.method.received = unstream(fresh, type, r.entity).received
    BY <1>2, <1>4, <2>1, ReceivedAfter
  <2>5. /\ DOMAIN matched.received = {XML, JSON} /\ DOMAIN fresh.received = {XML, JSON}
        /\ DOMAIN matched = MethodFields /\ DOMAIN fresh = MethodFields
    BY <1>2, <1>3, <1>8, <2>1 DEF IsCloneOf
  <2> DEFINE own == Between(type, r.entity)
  <2>6. /\ done.method.received = [c.received EXCEPT ![type] = own]
        /\ other.method.received = [p.received EXCEPT ![type] = own]
    <3> HIDE DEF own, type
    <3>1. /\ unstream(matched, type, r.entity).received = [matched.received EXCEPT ![type] = own]
          /\ unstream(fresh, type, r.entity).received = [fresh.received EXCEPT ![type] = own]
      BY <2>3, <2>5 DEF unstream, own, MethodFields
    <3>. QED
      BY <1>3, <2>3, <2>4, <3>1
  <2>7. own # <<>>
    BY <2>3
  <2> HIDE DEF type
  <2>8. \/ process(done.method, done.type) = process(other.method, done.type)
        \/ /\ c.received[XML] # <<>>
           /\ process(done.method, done.type).entity = Streamed(done.type, c.received[XML])
    BY <1>1, <1>5, <1>6, <1>8, <2>3, <2>6, <2>7, ConverterAnswers
  <2>. QED
    BY <1>4, <1>8, <2>8 DEF fresh, AnswersOf
<1>. QED
  BY <1>7, <1>8

LEMMA CallMethodAlone ==
  ASSUME HistoryInv, IInv', EntitiesHaveContent, NEW h \in Handlers, pc[h] = "handleRequest",
         NEW root \in DOMAIN Resources, NEW i \in DOMAIN Resources[root],
         CallMethod(h, root, i), serving' = serving,
         AnsweredBy(request(h), root, Resources[root][i])
  PROVE  HistoryInv'
<1> DEFINE p == Resources[root][i]
           r == request(h)
           header == r.header
           c == clones[h][root][i]
           pathIDs == pathIDList(header.URI, root)
           matched == processPathIDs(c, pathIDs)
           Entities(m) == Range(m.received) \ {<<>>}
<1>0. cloneOf(h) = h
  BY DEF cloneOf
<1>1. PICK done \in processRequest(matched, header, r.entity) :
        /\ method' = [method EXCEPT ![h] = <<root, i>>]
        /\ clones' = [clones EXCEPT ![cloneOf(h)][root][i] = done.method]
        /\ streamer' = [streamer EXCEPT ![h] = done.type]
        /\ IF done.status = 0 THEN GoTo(h, "process") /\ UNCHANGED <<reply, refused>>
           ELSE /\ Respond(h, ErrorResponse(done.status))
                /\ refused' = [refused EXCEPT ![h] = @ \cup Entities(done.method)]
  BY <1>0 DEF CallMethod
<1>2. /\ TypeInv /\ ClonesInv(h) /\ DOMAIN refused = Handlers
      /\ IsCloneOf(c, p) /\ ~c.isRunning
      /\ ServedInv(h) /\ ListsInv(h) /\ ReceivedInv(h)
  BY DEF HistoryInv, IInv, HandlerInv, ClonesInv, RunningInv, AloneInv
<1>3. /\ WellFormed(p) /\ <<root, i>> # NoMethod
      /\ ReadBy(p.name) \subseteq
           {p.path[k].id : k \in PathParameters(p)} \cup {q.id : q \in Range(p.queryParameters)}
      /\ p.name = "MediaTypeConverter" => ReceivesXMLOrJSON(p) /\ DOMAIN c.received = {XML, JSON}
  BY <1>2, MethodsWellFormed, MethodsRead DEF ReceivedInv
<1>4. r.entity # <<>> => Between(r.header.Fields.contentType.Type, r.entity) # <<>>
  BY <1>2 DEF ServedInv, EntitiesHaveContent, request
<1>5. IsCloneOf(matched, p) /\ matched.received = c.received /\ IsCloneOf(processPathIDs(p, pathIDs), p)
  BY <1>2, <1>3, OwnClone, PathParametersSet, PathIDsKeepReceived DEF IsCloneOf
<1>6. DOMAIN done.method.received = DOMAIN c.received /\ IsCloneOf(done.method, p)
  <2>1. DOMAIN done.method.received = DOMAIN matched.received
    BY <1>5, TypesReceived
  <2>2. /\ ~matched.isRunning /\ HasPathIDs(matched, p, pathIDList(r.header.URI, root))
    BY <1>2, <1>3, PathParametersSet
  <2>3. done \in processRequest(matched, r.header, r.entity)
    OBVIOUS
  <2>4. IsCloneOf(done.method, p)
    BY <1>3, <1>5, <2>2, <2>3, RequestProcessed
  <2>. QED
    BY <1>5, <2>1, <2>4
<1> HIDE DEF matched, p, r, header, c, pathIDs
<1>7. /\ DOMAIN clones' = Handlers /\ ClonesInv(h)' /\ clones'[h][root][i] = done.method
      /\ \A s \in DOMAIN Resources : \A k \in DOMAIN Resources[s] :
           <<s, k>> # <<root, i>> => clones'[h][s][k] = clones[h][s][k]
      /\ \A g \in Handlers \ {h} : clones'[g] = clones[g]
  <2>1. /\ TypeInv /\ ClonesInv(h) /\ IsCloneOf(done.method, Resources[root][i])
        /\ clones' = [clones EXCEPT ![cloneOf(h)][root][i] = done.method]
    BY <1>1, <1>2, <1>6 DEF p
  <2> DEFINE m == done.method
  <2> HIDE DEF m
  <2>2. IsCloneOf(m, Resources[root][i]) /\ clones' = [clones EXCEPT ![cloneOf(h)][root][i] = m]
    BY <2>1 DEF m
  <2>3. /\ DOMAIN clones' = Handlers /\ ClonesInv(h)' /\ clones'[h][root][i] = m
        /\ \A s \in DOMAIN Resources : \A k \in DOMAIN Resources[s] :
             <<s, k>> # <<root, i>> => clones'[h][s][k] = clones[h][s][k]
        /\ \A g \in Handlers \ {h} : clones'[g] = clones[g]
    BY <2>1, <2>2, CloneReplaced
  <2>. QED
    BY <2>3 DEF m
<1>8. ListsInv(h)'
  BY <1>1, <1>2, ListReplaced
<1>9. /\ pc' = [pc EXCEPT ![h] = IF done.status = 0 THEN "process" ELSE "receive"]
      /\ reply' = IF done.status = 0 THEN reply ELSE [reply EXCEPT ![h] = ErrorResponse(done.status)]
      /\ refused' = IF done.status = 0 THEN refused
                    ELSE [refused EXCEPT ![h] = @ \cup Entities(done.method)]
  BY <1>1 DEF GoTo, Respond
<1> HIDE DEF Entities
<1>10. /\ pc'[h] = IF done.status = 0 THEN "process" ELSE "receive"
       /\ method'[h] = <<root, i>> /\ streamer'[h] = done.type
       /\ done.status # 0 => /\ reply'[h] = ErrorResponse(done.status)
                             /\ refused'[h] = refused[h] \cup Entities(done.method)
       /\ refused[h] \subseteq refused'[h]
       /\ Method(h)' = done.method /\ request(h)' = r /\ DOMAIN refused' = Handlers
  BY <1>1, <1>2, <1>7, <1>9 DEF TypeInv, Method, cloneOf, request, r
<1>11. ServedInv(h)'
  BY <1>2 DEF ServedInv
<1>12. ReceivedInv(h)'
  <2>1. SUFFICES ASSUME NEW s \in DOMAIN Resources, NEW k \in DOMAIN Resources[s],
                        Resources[s][k].name = "MediaTypeConverter"
                 PROVE  /\ DOMAIN clones'[h][s][k].received = {XML, JSON}
                        /\ \/ clones'[h][s][k].received[XML] \in refused'[h] \cup {<<>>}
                           \/ pc'[h] = "process" /\ method'[h] = <<s, k>>
    BY DEF ReceivedInv
  <2>2. /\ DOMAIN clones[h][s][k].received = {XML, JSON}
        /\ clones[h][s][k].received[XML] \in refused[h] \cup {<<>>}
    BY <1>2, <2>1 DEF ReceivedInv
  <2>3. CASE <<s, k>> # <<root, i>>
    BY <1>7, <1>10, <2>2, <2>3
  <2>4. CASE s = root /\ k = i /\ done.status = 0
    BY <1>6, <1>7, <1>10, <2>2, <2>4 DEF c
  <2>5. CASE s = root /\ k = i /\ done.status # 0
    <3>1. DOMAIN done.method.received = {XML, JSON}
      BY <1>6, <2>2, <2>5 DEF c
    <3>2. done.method.received[XML] \in Entities(done.method) \cup {<<>>}
      BY <3>1 DEF Entities, Range
    <3>. QED
      BY <1>7, <1>10, <2>5, <3>1, <3>2
  <2>. QED
    BY <2>3, <2>4, <2>5
<1>13. ASSUME done.status # 0
       PROVE  ReadyInv(h)' /\ AnsweredInv(h)'
  <2>1. PICK other \in processRequest(processPathIDs(p, pathIDs), header, r.entity) :
          other.status = done.status
    <3>1. SameIn(done, processRequest(processPathIDs(p, pathIDs), header, r.entity))
      BY <1>3, <1>5, SameOutcome, Zenon
    <3>. QED
      BY <3>1 DEF SameIn
  <2>2. ErrorResponse(done.status) \in AnswersTo(r)
    BY <1>13, <2>1 DEF AnsweredBy, p, pathIDs, r, header
  <2>3. AnswersAsAlone(h, reply[h])'
    BY <1>10, <1>13, <2>2 DEF AnswersAsAlone
  <2>. QED
    BY <1>10, <1>13, <2>3 DEF ReadyInv, AnsweredInv
<1>14. ASSUME done.status = 0
       PROVE  ReadyInv(h)' /\ AnsweredInv(h)'
  <2>1. PICK other \in processRequest(processPathIDs(p, pathIDs), header, r.entity) :
          /\ other.status = 0 /\ other.type = done.type
          /\ \/ process(done.method, done.type) = process(other.method, other.type)
             \/ /\ p.name = "MediaTypeConverter" /\ c.received[XML] # <<>>
                /\ process(done.method, done.type).entity = Streamed(done.type, c.received[XML])
    <3>1. done \in processRequest(processPathIDs(c, pathIDs), r.header, r.entity)
      BY DEF matched, header
    <3>2. pathIDs = pathIDList(r.header.URI, root) /\ r.header = header
      BY DEF pathIDs, header
    <3>3. /\ WellFormed(p) /\ IsCloneOf(c, p) /\ ~c.isRunning
          /\ ReadBy(p.name) \subseteq
               {p.path[k].id : k \in PathParameters(p)} \cup {q.id : q \in Range(p.queryParameters)}
          /\ p.name = "MediaTypeConverter" => ReceivesXMLOrJSON(p) /\ DOMAIN c.received = {XML, JSON}
      BY <1>2, <1>3 DEF p, c
    <3>4. AnswersOf(done, c, p, processRequest(processPathIDs(p, pathIDs), r.header, r.entity))
      BY <1>4, <1>14, <3>1, <3>2, <3>3, CalledAlone, Zenon
    <3>. QED
      BY <3>2, <3>4 DEF AnswersOf
  <2>2. process(other.method, other.type) \in AnswersTo(r)
    BY <2>1 DEF AnsweredBy, p, pathIDs, r, header
  <2>3. p.name = "MediaTypeConverter" /\ c.received[XML] # <<>> => c.received[XML] \in refused'[h]
    BY <1>2, <1>10 DEF ReceivedInv, p, c
  <2>4. done.method.name = p.name
    BY <1>6 DEF IsCloneOf
  <2>5. <<root, i>> # NoMethod
    BY <1>3
  <2>6. AnswersAsAlone(h, process(Method(h), streamer[h]))'
    BY <1>10, <2>1, <2>2, <2>3, <2>4, <2>5 DEF AnswersAsAlone
  <2>. QED
    BY <1>10, <1>14, <2>6 DEF ReadyInv, AnsweredInv, Answered
<1>15. \A g \in Handlers \ {h} :
        /\ pc'[g] = pc[g] /\ serving'[g] = serving[g] /\ clones'[g] = clones[g]
        /\ method'[g] = method[g] /\ streamer'[g] = streamer[g] /\ reply'[g] = reply[g]
        /\ refused'[g] = refused[g]
  BY <1>1, <1>2, <1>7, <1>9 DEF TypeInv
<1>16. AloneInv(h)'
  BY <1>8, <1>11, <1>12, <1>13, <1>14 DEF AloneInv
<1>. QED
  BY <1>10, <1>15, <1>16, OthersAlone

LEMMA HandleRequestAlone ==
  ASSUME HistoryInv, IInv', EntitiesHaveContent, NEW h \in Handlers, HandleRequest(h)
  PROVE  HistoryInv'
<1> DEFINE r == request(h)
           root == findLongestMatchString(r.header.URI, DOMAIN Resources)
           match == getPrototypeWithBestMatch(root, Resources[root], r.header.URI, r.header.Method)
<1>1. /\ ClonesInv(h) /\ ListsInv(h) /\ cloneOf(h) = h /\ DOMAIN clones[cloneOf(h)] = DOMAIN Resources
  BY DEF HistoryInv, IInv, HandlerInv, AloneInv, ClonesInv, cloneOf
<1>2. /\ pc[h] = "handleRequest" /\ serving' = serving
      /\ IF r.header.URI = <<>> THEN Answers(h, ErrorResponse(BadRequest))
         ELSE IF root = NoResource THEN Answers(h, ErrorResponse(NotFound))
         ELSE RequestResource(h, root)
  BY <1>1 DEF HandleRequest
<1>3. /\ r.header.URI = <<>> => ErrorResponse(BadRequest) \in AnswersTo(r)
      /\ r.header.URI # <<>> /\ root = NoResource => ErrorResponse(NotFound) \in AnswersTo(r)
      /\ r.header.URI # <<>> /\ root # NoResource =>
           IF isAccessToContextRoot(r.header.URI, root)
           THEN resourceDescription(r.header.Method, root) \in AnswersTo(r)
           ELSE IF match.status # 0 THEN ErrorResponse(match.status) \in AnswersTo(r)
           ELSE AnsweredBy(r, root, Resources[root][match.method])
  <2> HIDE DEF r
  <2>. QED
    BY WhatIsAnswered, Zenon
<1> HIDE DEF match
<1>4. CASE \E response \in AnswersTo(r) : Answers(h, response)
  BY <1>2, <1>4, AnswersAlone
<1>5. CASE r.header.URI # <<>> /\ root # NoResource
  <2>1. root \in DOMAIN Resources
    BY <1>5, FoundIsRegistered
  <2> HIDE DEF root
  <2>2. getPrototypeWithBestMatch(root, clones[h][root], r.header.URI, r.header.Method) = match
    <3>1. /\ DOMAIN clones[h][root] = DOMAIN Resources[root]
          /\ \A i \in DOMAIN Resources[root] : IsCloneOf(clones[h][root][i], Resources[root][i])
          /\ clones[h][root] = [i \in DOMAIN Resources[root] |-> clones[h][root][i]]
          /\ Resources[root] \in Seq(Range(Resources[root]))
      BY <1>1, <2>1, FixtureAssumption DEF ClonesInv, ListsInv
    <3> DEFINE methods == clones[h][root]
               originals == Resources[root]
               uri == r.header.URI
               type == r.header.Method
    <3>2. /\ DOMAIN methods = DOMAIN originals
          /\ \A i \in DOMAIN originals : IsCloneOf(methods[i], originals[i])
          /\ methods = [i \in DOMAIN originals |-> methods[i]]
          /\ originals \in Seq(Range(originals))
      BY <3>1
    <3> HIDE DEF methods, originals, uri, type
    <3>3. getPrototypeWithBestMatch(root, methods, uri, type)
            = getPrototypeWithBestMatch(root, originals, uri, type)
      BY <3>2, SameMatch
    <3>. QED
      BY <3>3 DEF match, methods, originals, uri, type
  <2>3. RequestResource(h, root)
    BY <1>2, <1>5
  <2>4. CASE isAccessToContextRoot(r.header.URI, root)
    BY <1>3, <1>4, <1>5, <2>3, <2>4 DEF RequestResource
  <2>5. CASE ~isAccessToContextRoot(r.header.URI, root) /\ match.status # 0
    <3>1. Answers(h, ErrorResponse(match.status))
      BY <1>1, <2>2, <2>3, <2>5 DEF RequestResource
    <3>. QED
      BY <1>3, <1>4, <1>5, <2>5, <3>1
  <2>6. CASE ~isAccessToContextRoot(r.header.URI, root) /\ match.status = 0
    <3>1. CallMethod(h, root, match.method)
      BY <1>1, <2>2, <2>3, <2>6 DEF RequestResource
    <3>2. match.method \in DOMAIN Resources[root]
      <4>1. \A i \in DOMAIN Resources[root] : Resources[root][i].path \in Seq(Range(Resources[root][i].path))
        BY <2>1, MethodsWellFormed DEF WellFormed
      <4>. QED
        BY <2>6, <4>1, FoundIsMethod DEF match
    <3>3. AnsweredBy(request(h), root, Resources[root][match.method])
      BY <1>3, <1>5, <2>6
    <3>. QED
      BY <1>2, <2>1, <3>1, <3>2, <3>3, CallMethodAlone
  <2>. QED
    BY <2>4, <2>5, <2>6
<1>6. CASE r.header.URI = <<>> \/ root = NoResource
  BY <1>2, <1>3, <1>4, <1>6
<1>. QED
  BY <1>5, <1>6

LEMMA ProcessAlone ==
  ASSUME HistoryInv, IInv', NEW h \in Handlers, Process(h)
  PROVE  HistoryInv'
<1> DEFINE m == Method(h)
           n == afterProcess(m)
<1>0. PICK response : response = process(m, streamer[h])
  OBVIOUS
<1>1. /\ pc[h] = "process" /\ pc' = [pc EXCEPT ![h] = "receive"]
      /\ reply' = [reply EXCEPT ![h] = response]
      /\ MethodBecomes(h, n)
      /\ serving' = serving /\ method' = method /\ streamer' = streamer /\ refused' = refused
  BY <1>0 DEF Process, Respond, GoTo
<1>2. /\ TypeInv /\ ClonesInv(h) /\ DOMAIN refused = Handlers
      /\ ServedInv(h) /\ ListsInv(h) /\ ReceivedInv(h) /\ AnswersAsAlone(h, response)
  BY <1>0, <1>1 DEF HistoryInv, IInv, HandlerInv, AloneInv, ReadyInv
<1>3. method[h] # NoMethod
  BY <1>1 DEF HistoryInv, IInv, HandlerInv, CalledInv
<1>4. PICK root \in DOMAIN Resources :
        \E i \in DOMAIN Resources[root] :
          method[h] = <<root, i>> /\ m = clones[h][root][i] /\ IsCloneOf(m, Resources[root][i])
  BY <1>3, CalledMethod DEF HistoryInv
<1>5. PICK i \in DOMAIN Resources[root] :
        method[h] = <<root, i>> /\ m = clones[h][root][i] /\ IsCloneOf(m, Resources[root][i])
  BY <1>4
<1>6. IsCloneOf(n, Resources[root][i])
  BY <1>5 DEF afterProcess, IsCloneOf, MethodFields
<1>7. m.name = "MediaTypeConverter" /\ DOMAIN m.received = {XML, JSON} =>
        DOMAIN n.received = {XML, JSON} /\ n.received[XML] = <<>>
  <2> SUFFICES ASSUME m.name = "MediaTypeConverter", DOMAIN m.received = {XML, JSON}
               PROVE  DOMAIN n.received = {XML, JSON} /\ n.received[XML] = <<>>
    OBVIOUS
  <2>1. n = [m EXCEPT !.received[Source(m)] = <<>>] /\ "received" \in DOMAIN m
    BY <1>5 DEF afterProcess, IsCloneOf, MethodFields
  <2>2. n.received = [m.received EXCEPT ![Source(m)] = <<>>]
    BY <2>1
  <2>3. Source(m) = XML \/ m.received[XML] = <<>>
    BY DEF Source
  <2>. QED
    BY <2>2, <2>3
<1> HIDE DEF m, n
<1>8. /\ DOMAIN clones' = Handlers /\ ClonesInv(h)' /\ clones'[h][root][i] = n
      /\ \A s \in DOMAIN Resources : \A k \in DOMAIN Resources[s] :
           <<s, k>> # <<root, i>> => clones'[h][s][k] = clones[h][s][k]
      /\ \A g \in Handlers \ {h} : clones'[g] = clones[g]
  BY <1>1, <1>5, <1>6, MethodReplaced DEF HistoryInv
<1>9. /\ pc'[h] = "receive" /\ method'[h] = <<root, i>> /\ reply'[h] = response
      /\ Method(h)' = n /\ request(h)' = request(h)
  BY <1>1, <1>2, <1>5, <1>8 DEF TypeInv, Method, cloneOf, request
<1>10. ServedInv(h)'
  BY <1>1, <1>2 DEF ServedInv
<1>11. ListsInv(h)'
  <2>1. clones' = [clones EXCEPT ![cloneOf(h)][root][i] = n]
    BY <1>1, <1>5 DEF MethodBecomes
  <2>. QED
    BY <1>2, <2>1, ListReplaced
<1>12. ReceivedInv(h)'
  <2>1. SUFFICES ASSUME NEW s \in DOMAIN Resources, NEW k \in DOMAIN Resources[s],
                        Resources[s][k].name = "MediaTypeConverter"
                 PROVE  /\ DOMAIN clones'[h][s][k].received = {XML, JSON}
                        /\ clones'[h][s][k].received[XML] \in refused'[h] \cup {<<>>}
    BY DEF ReceivedInv
  <2>2. /\ DOMAIN clones[h][s][k].received = {XML, JSON}
        /\ \/ clones[h][s][k].received[XML] \in refused[h] \cup {<<>>}
           \/ <<s, k>> = <<root, i>>
    BY <1>2, <1>5, <2>1 DEF ReceivedInv
  <2>3. CASE <<s, k>> # <<root, i>>
    BY <1>1, <1>8, <2>2, <2>3
  <2>4. CASE s = root /\ k = i
    <3>1. m.name = "MediaTypeConverter" /\ DOMAIN m.received = {XML, JSON}
      BY <1>5, <2>1, <2>2, <2>4 DEF IsCloneOf
    <3>. QED
      BY <1>7, <1>8, <2>4, <3>1
  <2>. QED
    BY <2>3, <2>4
<1>13. ReadyInv(h)' /\ AnsweredInv(h)'
  <2>1. Method(h)'.name = Method(h).name
    BY <1>5, <1>6, <1>9 DEF IsCloneOf, m
  <2>2. AnswersAsAlone(h, response)'
    BY <1>1, <1>2, <1>9, <2>1, AloneStays
  <2>3. AnswersAsAlone(h, reply[h])'
    BY <1>9, <2>2 DEF AnswersAsAlone
  <2>. QED
    BY <1>9, <2>3 DEF ReadyInv, AnsweredInv
<1>14. \A g \in Handlers \ {h} :
         /\ pc'[g] = pc[g] /\ serving'[g] = serving[g] /\ clones'[g] = clones[g]
         /\ method'[g] = method[g] /\ streamer'[g] = streamer[g] /\ reply'[g] = reply[g]
         /\ refused'[g] = refused[g]
  BY <1>1, <1>2, <1>8 DEF TypeInv
<1>15. AloneInv(h)' /\ DOMAIN refused' = Handlers
  BY <1>1, <1>2, <1>10, <1>11, <1>12, <1>13 DEF AloneInv
<1>. QED
  BY <1>14, <1>15, OthersAlone

(* A method of the handler begins to run: it is not the converter. *)
LEMMA SleepAlone ==
  ASSUME HistoryInv, IInv', NEW h \in Handlers, Sleep(h)
  PROVE  HistoryInv'
<1> DEFINE m == Method(h)
           n == [m EXCEPT !.isRunning = TRUE]
<1>1. /\ pc[h] = "process" /\ m.name = "Threading" /\ pc' = [pc EXCEPT ![h] = "sleep"]
      /\ MethodBecomes(h, n)
      /\ serving' = serving /\ method' = method /\ streamer' = streamer /\ reply' = reply
      /\ refused' = refused
  BY DEF Sleep, GoTo
<1>2. /\ TypeInv /\ ClonesInv(h) /\ DOMAIN refused = Handlers
      /\ ServedInv(h) /\ ListsInv(h) /\ ReceivedInv(h)
      /\ AnswersAsAlone(h, process(m, streamer[h]))
  BY <1>1 DEF HistoryInv, IInv, HandlerInv, AloneInv, ReadyInv
<1>3. method[h] # NoMethod
  BY <1>1 DEF HistoryInv, IInv, HandlerInv, CalledInv
<1>4. PICK root \in DOMAIN Resources :
        \E i \in DOMAIN Resources[root] :
          method[h] = <<root, i>> /\ m = clones[h][root][i] /\ IsCloneOf(m, Resources[root][i])
  BY <1>3, CalledMethod DEF HistoryInv
<1>5. PICK i \in DOMAIN Resources[root] :
        method[h] = <<root, i>> /\ m = clones[h][root][i] /\ IsCloneOf(m, Resources[root][i])
  BY <1>4
<1>6. IsCloneOf(n, Resources[root][i])
  BY <1>5 DEF IsCloneOf, MethodFields
<1>7. process(m, streamer[h]) = Response(OK, Wildcard, <<>>)
  BY <1>1 DEF process
<1>8. Response(OK, Wildcard, <<>>) \in AnswersTo(request(h))
  BY <1>1, <1>2, <1>7 DEF AnswersAsAlone
<1> HIDE DEF m, n
<1>9. /\ DOMAIN clones' = Handlers /\ ClonesInv(h)' /\ clones'[h][root][i] = n
      /\ \A s \in DOMAIN Resources : \A k \in DOMAIN Resources[s] :
           <<s, k>> # <<root, i>> => clones'[h][s][k] = clones[h][s][k]
      /\ \A g \in Handlers \ {h} : clones'[g] = clones[g]
  BY <1>1, <1>5, <1>6, MethodReplaced DEF HistoryInv
<1>10. pc'[h] = "sleep" /\ request(h)' = request(h)
  BY <1>1, <1>2 DEF TypeInv, request
<1>11. ServedInv(h)' /\ ReadyInv(h)' /\ AnsweredInv(h)'
  BY <1>1, <1>2, <1>8, <1>10 DEF ServedInv, ReadyInv, AnsweredInv, Answered
<1>12. ListsInv(h)'
  <2>1. clones' = [clones EXCEPT ![cloneOf(h)][root][i] = n]
    BY <1>1, <1>5 DEF MethodBecomes
  <2>. QED
    BY <1>2, <2>1, ListReplaced
<1>13. ReceivedInv(h)'
  <2>1. SUFFICES ASSUME NEW s \in DOMAIN Resources, NEW k \in DOMAIN Resources[s],
                        Resources[s][k].name = "MediaTypeConverter"
                 PROVE  /\ DOMAIN clones'[h][s][k].received = {XML, JSON}
                        /\ clones'[h][s][k].received[XML] \in refused'[h] \cup {<<>>}
    BY DEF ReceivedInv
  <2>2. <<s, k>> # <<root, i>>
    BY <1>1, <1>5, <2>1 DEF IsCloneOf
  <2>. QED
    BY <1>1, <1>2, <1>5, <1>9, <2>1, <2>2 DEF ReceivedInv
<1>14. \A g \in Handlers \ {h} :
         /\ pc'[g] = pc[g] /\ serving'[g] = serving[g] /\ clones'[g] = clones[g]
         /\ method'[g] = method[g] /\ streamer'[g] = streamer[g] /\ reply'[g] = reply[g]
         /\ refused'[g] = refused[g]
  BY <1>1, <1>2, <1>9 DEF TypeInv
<1>15. AloneInv(h)' /\ DOMAIN refused' = Handlers
  BY <1>1, <1>2, <1>11, <1>12, <1>13 DEF AloneInv
<1>. QED
  BY <1>14, <1>15, OthersAlone

LEMMA WakeAlone ==
  ASSUME HistoryInv, IInv', NEW h \in Handlers, Wake(h)
  PROVE  HistoryInv'
<1> DEFINE m == Method(h)
           n == [m EXCEPT !.isRunning = FALSE]
           response == Response(OK, Wildcard, <<>>)
<1>1. /\ pc[h] = "sleep" /\ pc' = [pc EXCEPT ![h] = "receive"]
      /\ MethodBecomes(h, n)
      /\ reply' = [reply EXCEPT ![h] = response]
      /\ serving' = serving /\ method' = method /\ streamer' = streamer /\ refused' = refused
  BY DEF Wake, Respond, GoTo
<1>2. /\ TypeInv /\ ClonesInv(h) /\ DOMAIN refused = Handlers
      /\ ServedInv(h) /\ ListsInv(h) /\ ReceivedInv(h) /\ response \in AnswersTo(request(h))
  BY <1>1 DEF HistoryInv, IInv, HandlerInv, AloneInv, ReadyInv
<1>3. method[h] # NoMethod
  BY <1>1 DEF HistoryInv, IInv, HandlerInv, CalledInv
<1>4. PICK root \in DOMAIN Resources :
        \E i \in DOMAIN Resources[root] :
          method[h] = <<root, i>> /\ m = clones[h][root][i] /\ IsCloneOf(m, Resources[root][i])
  BY <1>3, CalledMethod DEF HistoryInv
<1>5. PICK i \in DOMAIN Resources[root] :
        method[h] = <<root, i>> /\ m = clones[h][root][i] /\ IsCloneOf(m, Resources[root][i])
  BY <1>4
<1>6. IsCloneOf(n, Resources[root][i]) /\ n.received = m.received
  BY <1>5 DEF IsCloneOf, MethodFields
<1> HIDE DEF m, n, response
<1>7. /\ DOMAIN clones' = Handlers /\ ClonesInv(h)' /\ clones'[h][root][i] = n
      /\ \A s \in DOMAIN Resources : \A k \in DOMAIN Resources[s] :
           <<s, k>> # <<root, i>> => clones'[h][s][k] = clones[h][s][k]
      /\ \A g \in Handlers \ {h} : clones'[g] = clones[g]
  BY <1>1, <1>5, <1>6, MethodReplaced DEF HistoryInv
<1>8. pc'[h] = "receive" /\ reply'[h] = response /\ request(h)' = request(h)
  BY <1>1, <1>2 DEF TypeInv, request
<1>9. AnswersAsAlone(h, reply[h])'
  BY <1>2, <1>8 DEF AnswersAsAlone
<1>10. ServedInv(h)' /\ ReadyInv(h)' /\ AnsweredInv(h)'
  BY <1>1, <1>2, <1>8, <1>9 DEF ServedInv, ReadyInv, AnsweredInv
<1>11. ListsInv(h)'
  <2>1. clones' = [clones EXCEPT ![cloneOf(h)][root][i] = n]
    BY <1>1, <1>5 DEF MethodBecomes
  <2>. QED
    BY <1>2, <2>1, ListReplaced
<1>12. \A s \in DOMAIN Resources : \A k \in DOMAIN Resources[s] :
         clones'[h][s][k].received = clones[h][s][k].received
  BY <1>5, <1>6, <1>7
<1>13. ReceivedInv(h)'
  BY <1>1, <1>2, <1>12 DEF ReceivedInv
<1>14. \A g \in Handlers \ {h} :
         /\ pc'[g] = pc[g] /\ serving'[g] = serving[g] /\ clones'[g] = clones[g]
         /\ method'[g] = method[g] /\ streamer'[g] = streamer[g] /\ reply'[g] = reply[g]
         /\ refused'[g] = refused[g]
  BY <1>1, <1>2, <1>7 DEF TypeInv
<1>15. AloneInv(h)' /\ DOMAIN refused' = Handlers
  BY <1>1, <1>2, <1>10, <1>11, <1>13 DEF AloneInv
<1>. QED
  BY <1>14, <1>15, OthersAlone

LEMMA InitAlone == Init => HistoryInv
<1> SUFFICES ASSUME Init PROVE HistoryInv
  OBVIOUS
<1>1. IInv /\ DOMAIN refused = Handlers
  BY InitHolds DEF Init
<1>2. ASSUME NEW h \in Handlers
      PROVE  AloneInv(h)
  <2>1. pc[h] = "receive" /\ serving[h] = NoCheck /\ clones[h] = Resources
    BY <1>2 DEF Init
  <2>2. ServedInv(h) /\ ReadyInv(h) /\ AnsweredInv(h)
    BY <2>1 DEF ServedInv, ReadyInv, AnsweredInv, Answered
  <2>3. ASSUME NEW root \in DOMAIN Resources
        PROVE  Resources[root] = [i \in DOMAIN Resources[root] |-> Resources[root][i]]
    <3>1. Resources[root] \in Seq(Range(Resources[root]))
      BY FixtureAssumption
    <3>. QED
      BY <3>1
  <2>4. ListsInv(h)
    BY <2>1, <2>3 DEF ListsInv
  <2>5. ReceivedInv(h)
    BY <2>1, MethodsRead DEF ReceivedInv, ReceivesXMLOrJSON
  <2>. QED
    BY <2>2, <2>4, <2>5 DEF AloneInv
<1>. QED
  BY <1>1, <1>2 DEF HistoryInv

LEMMA StepAlone ==
  ASSUME HistoryInv, EntitiesHaveContent, [Next]_vars
  PROVE  HistoryInv'
<1>1. IInv'
  BY StepPreserves DEF HistoryInv
<1>2. CASE UNCHANGED vars
  <2>1. \A h \in Handlers :
          /\ request(h)' = request(h) /\ Method(h)' = Method(h) /\ Answered(h)' = Answered(h)
    BY <1>2 DEF vars, request, Method, cloneOf, Answered
  <2>2. ASSUME NEW h \in Handlers
        PROVE  AloneInv(h)'
    <3>1. ServedInv(h)' /\ ListsInv(h)' /\ ReceivedInv(h)'
      BY <1>2 DEF vars, HistoryInv, AloneInv, ServedInv, ListsInv, ReceivedInv
    <3>2. ReadyInv(h)' /\ AnsweredInv(h)'
      BY <1>2, <2>1 DEF vars, HistoryInv, AloneInv, ReadyInv, AnsweredInv, AnswersAsAlone
    <3>. QED
      BY <3>1, <3>2 DEF AloneInv
  <2>. QED
    BY <1>1, <1>2, <2>2 DEF vars, HistoryInv
<1>3. CASE Next
  <2>1. PICK h \in Handlers : Receive(h) \/ HandleRequest(h) \/ Process(h) \/ Sleep(h) \/ Wake(h)
    BY <1>3 DEF Next
  <2>. QED
    BY <1>1, <2>1, ReceiveAlone, HandleRequestAlone, ProcessAlone, SleepAlone, WakeAlone
<1>. QED
  BY <1>2, <1>3

-----------------------------------------------------------------------------
(* A handler answers each request as a server would that has served no     *)
(* other, whatever it served before and whatever is served beside it; only *)
(* the converter may answer with an entity that was unstreamed for a       *)
(* request that was then refused.                                          *)
THEOREM HistoryForgotten ==
  ASSUME EntitiesHaveContent
  PROVE  Spec => []HistoryIsForgotten
<1>1. Init => HistoryInv
  BY InitAlone
<1>2. HistoryInv /\ [Next]_vars => HistoryInv'
  BY StepAlone
<1>3. HistoryInv => HistoryIsForgotten
  BY DEF HistoryInv, AloneInv, AnsweredInv, HistoryIsForgotten
<1>. QED
  BY <1>1, <1>2, <1>3, PTL DEF Spec

(* So the checks of the tests pass in any order, after and beside any      *)
(* requests, if each of them passes as the only one.                       *)
THEOREM ChecksPassed ==
  ASSUME EntitiesHaveContent, ChecksPassAlone
  PROVE  Spec => []ChecksPass
<1>1. Init => HistoryInv
  BY InitAlone
<1>2. HistoryInv /\ [Next]_vars => HistoryInv'
  BY StepAlone
<1>3. HistoryInv => ChecksPass
  <2> SUFFICES ASSUME HistoryInv, NEW h \in Handlers, Answered(h), serving[h].status # AnyStatus
               PROVE  \/ passes(serving[h], reply[h])
                      \/ /\ method[h] # NoMethod /\ Method(h).name = "MediaTypeConverter"
                         /\ reply[h].entity \in {Streamed(streamer[h], content) : content \in refused[h]}
    BY DEF ChecksPass
  <2>1. serving[h] \in RequestsTo[h] /\ AnswersAsAlone(h, reply[h])
    BY DEF HistoryInv, AloneInv, ServedInv, AnsweredInv, Answered
  <2>2. reply[h] \in AnswersTo(request(h)) => passes(serving[h], reply[h])
    BY <2>1 DEF ChecksPassAlone, request
  <2>. QED
    BY <2>1, <2>2 DEF AnswersAsAlone
<1>. QED
  BY <1>1, <1>2, <1>3, PTL DEF Spec
=============================================================================

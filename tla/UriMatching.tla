----------------------------- MODULE UriMatching -----------------------------
(***************************************************************************)
(* Every short URI against every short context root: what the functions of *)
(* StringUtils and Matching make of them, compared with what their results *)
(* mean for the segments of both.  Characters are added one at a time, so  *)
(* that a failure is reported for a shortest URI.                          *)
(***************************************************************************)
EXTENDS Matching

CONSTANTS Characters,   \* the letters that URIs and roots are made of
          MaxUri,       \* bound: longest URI
          MaxRoot,      \* bound: longest context root
          MaxPath,      \* bound: most segments of a method's path
          OtherRoots    \* context roots registered beside the one that varies

ASSUME UriMatchingAssumption ==
  /\ "/" \in Characters
  /\ MaxUri \in Nat /\ MaxRoot \in Nat /\ MaxPath \in Nat
  /\ \A r \in OtherRoots : r \in Seq(Characters)

VARIABLES uri,    \* the URI of a request
          root    \* the context root of a resource

Init == uri = <<>> /\ root = <<>>

ExtendUri ==
  /\ Len(uri) < MaxUri
  /\ \E c \in Characters : uri' = Append(uri, c)
  /\ UNCHANGED root

ExtendRoot ==
  /\ Len(root) < MaxRoot
  /\ \E c \in Characters : root' = Append(root, c)
  /\ UNCHANGED uri

Next == ExtendUri \/ ExtendRoot

Spec == Init /\ [][Next]_<<uri, root>>

-----------------------------------------------------------------------------
(* What a URI means: its segments, of which none is empty. *)
SegmentStarts(s) == {i \in DOMAIN s : s[i] # "/" /\ (i = 1 \/ s[i - 1] = "/")}

Nth(positions, k) ==
  CHOOSE i \in positions : Cardinality({j \in positions : j <= i}) = k

Segments(s) ==
  [k \in 1..Cardinality(SegmentStarts(s)) |->
     LET start == Nth(SegmentStarts(s), k)
         end == CHOOSE e \in start..Len(s) :
                  /\ \A i \in start..e : s[i] # "/"
                  /\ e < Len(s) => s[e + 1] = "/"
     IN  SubSeq(s, start, end)]

SegmentsFrom(s, n) == SubSeq(Segments(s), n, Len(Segments(s)))

NormalForm(s) == \A i \in DOMAIN s : s[i] = "/" => i < Len(s) /\ s[i + 1] # "/"

Joined(parts, separator) ==
  FoldLeft(LAMBDA s, part : s \o <<separator>> \o part, Head(parts), Tail(parts))

(* Two methods of a resource, each either listed before the other. *)
Paths ==
  BoundedSeq({PathSegment(<<c>>) : c \in Characters \ {"/"}} \cup {PathParameter(<<"x">>, "string")},
             MaxPath)

Get(path) == [methodType |-> "GET", path |-> path]

BestOf(p, q) == getPrototypeWithBestMatch(<<>>, <<Get(p), Get(q)>>, uri, "GET")

-----------------------------------------------------------------------------
(* uriEquals() holds of two URIs iff they have the same segments and, when *)
(* it is asked to look, both or neither begin with a slash.                *)
UriEqualsComparesSegments ==
  \A check \in BOOLEAN :
    uriEquals(uri, root, check) <=>
      /\ Segments(uri) = Segments(root)
      /\ check => LeadingSlash(uri) = LeadingSlash(root)

(* uriSkip() succeeds iff the segments of the root are the first ones of   *)
(* the URI, and leaves exactly the others to splitString(): the path IDs   *)
(* of the request.  Asked to look at the leading slashes, it compares the  *)
(* first segments even if the root is nothing but slashes.                 *)
UriSkipLeavesThePath ==
  \A check \in BOOLEAN :
    LET n == uriSkip(uri, root, check)
        begins == /\ IsPrefix(Segments(root), Segments(uri))
                  /\ check =>
                       /\ LeadingSlash(uri) = LeadingSlash(root)
                       /\ LeadingSlash(root) /\ Segments(root) = <<>> => Segments(uri) = <<>>
    IN  /\ n >= 0 <=> begins
        /\ n >= 0 => splitString(From(uri, n + 1), "/", TRUE)
                       = SegmentsFrom(uri, Len(Segments(root)) + 1)

(* splitNhandle() loses nothing and cuts as early as it can: the parts     *)
(* joined by the separator are the string, a separator can only be the     *)
(* first character of a part, and only the last part can be empty.         *)
SplitLosesNothing ==
  LET parts == splitNhandle(uri, "/")
  IN  /\ Joined(parts, "/") = uri
      /\ \A i \in DOMAIN parts :
           IF parts[i] = <<>> THEN i = Len(parts) ELSE "/" \notin Range(Tail(parts[i]))

(* The resource that findLongestMatchString() finds can be skipped from    *)
(* the URI, so that createPathIDListFromRequest() does not throw, and of   *)
(* the roots written without needless slashes none that begins the URI is  *)
(* longer.  Its assertion fails only for roots that differ in their        *)
(* leading slashes.                                                        *)
LongestMatchIsNearest ==
  \A other \in OtherRoots :
    LET roots == {root, other}
        match == findLongestMatchString(uri, roots)
    IN  /\ match # NoResource =>
             /\ uriSkip(uri, match, FALSE) >= 0
             /\ \A r \in roots :
                  NormalForm(r) /\ NormalForm(uri) /\ IsPrefix(Segments(r), Segments(uri)) =>
                    Len(Segments(r)) <= Len(Segments(match))
        /\ UniqueMatches(uri, roots) \/ Stripped(root) = Stripped(other)

(* Of two methods that match a request, one more specific than the other,  *)
(* the more specific one is called, in whatever order they are registered. *)
MoreSpecificWins ==
  root = <<>> =>
    \A p, q \in Paths :
      /\ MoreSpecific(p, q)
      /\ getDistanceToPathIDs(p, Segments(uri)) >= 0
      => BestOf(p, q) = MatchFound(1) /\ BestOf(q, p) = MatchFound(2)

(* What the comment on the duplicate distance says: methods that a         *)
(* resource registers do not come equally close to a request.              *)
RegistrationPreventsTies ==
  root = <<>> =>
    \A p, q \in Paths :
      ~existsMethodPrototype(<<Get(p)>>, Get(q)) => BestOf(p, q).status # InternalServerError

-----------------------------------------------------------------------------
(* The cases of the tests of C2STestHttpBasic.cpp. *)
Chars(s) == [i \in 1..Len(s) |-> SubSeq(s, i, i)]

URICompare ==
  { <<TRUE, "", "", TRUE>>, <<FALSE, "", "/", TRUE>>, <<FALSE, "/", "", TRUE>>,
    <<TRUE, "", "/", FALSE>>, <<TRUE, "/", "", FALSE>>, <<TRUE, "//", "/", TRUE>>,
    <<TRUE, "//", "///", TRUE>>, <<TRUE, "/uri/", "/uri/", TRUE>>,
    <<FALSE, "uri/", "/uri/", TRUE>>, <<TRUE, "uri/", "/uri/", FALSE>>,
    <<TRUE, "//uri/", "/uri//", TRUE>>, <<FALSE, "//uri/", "/uri//sub", TRUE>>,
    <<TRUE, "//uri/sub/", "/uri//sub", TRUE>> }

URISkip ==
  { <<-1, "/uri", "uri", TRUE>>, <<4, "/uri", "uri", FALSE>>, <<-1, "uri", "/uri", TRUE>>,
    <<3, "uri", "/uri", FALSE>>, <<3, "uri", "uri/", TRUE>>, <<6, "uri///sub/", "uri/", TRUE>>,
    <<0, "", "", TRUE>>, <<-1, "", "/", TRUE>>, <<-1, "/", "", TRUE>>, <<0, "", "/", FALSE>>,
    <<1, "/", "", FALSE>>, <<2, "//", "/", TRUE>>, <<2, "//", "///", TRUE>>,
    <<5, "/uri/", "/uri/", TRUE>>, <<-1, "uri/", "/uri/", TRUE>>, <<4, "uri/", "/uri/", FALSE>>,
    <<6, "//uri/", "/uri//", TRUE>>, <<-1, "//uri/", "/uri//sub", TRUE>>,
    <<10, "//uri/sub/", "/uri//sub", TRUE>>, <<11, "//uri/sub//subsub///", "/uri//sub", TRUE>>,
    <<-1, "//uri/sub/", "/uri//sub///subsub///", TRUE>> }

checkUriEquals(bExpectation, s1, s2, bCheckLeadingSlash) ==
  uriEquals(Chars(s1), Chars(s2), bCheckLeadingSlash) = bExpectation

checkUriSkip(iExpectation, s1, s2, bCheckLeadingSlash) ==
  uriSkip(Chars(s1), Chars(s2), bCheckLeadingSlash) = iExpectation

ASSUME UriTestsPass ==
  /\ \A t \in URICompare : checkUriEquals(t[1], t[2], t[3], t[4])
  /\ \A t \in URISkip : checkUriSkip(t[1], t[2], t[3], t[4])

(* Without the character that is not ASCII. *)
sTestCharacterSequence ==
  Chars("1234567890ABCDEFGHIJKLMNOPQRSTUVWXYZ!") \o <<"QUOTE">> \o Chars("$%&/()=?*'-_.:;,<>")

sTestCharacterSequenceEncodedExpected ==
  Chars("1234567890ABCDEFGHIJKLMNOPQRSTUVWXYZ") \o
  <<"%", "21", "%", "22", "%", "24", "%", "25", "%", "26", "%", "2f", "%", "28", "%", "29", "%", "3d",
    "%", "3f", "%", "2a", "%", "27", "-", "_", ".", "%", "3a", "%", "3b", "%", "2c", "%", "3c", "%", "3e">>

URLCoding ==
  LET withoutPercent == SelectSeq(sTestCharacterSequence, LAMBDA c : c # "%")
  IN  /\ urlEncode(sTestCharacterSequence) = sTestCharacterSequenceEncodedExpected
      /\ urlDecode(sTestCharacterSequenceEncodedExpected) = sTestCharacterSequence
      /\ urlDecode(withoutPercent) = withoutPercent

ASSUME URLCodingPasses == URLCoding

=============================================================================

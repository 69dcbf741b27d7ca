---------------------------- MODULE StringUtils ----------------------------
(***************************************************************************)
(* The helpers on strings of C2SStringUtils.h and StringUtils.cpp.  A      *)
(* string is a sequence: of characters where one character more or less    *)
(* matters (UriMatching), of words and separators elsewhere.  A pointer    *)
(* into a string is a position, one past the end included.                 *)
(***************************************************************************)
EXTENDS Integers, Sequences, SequencesExt

CONSTANT NumberOf  \* the strings that hold a number, and the number

ASSUME NumberOfAssumption == \A s, t \in DOMAIN NumberOf : NumberOf[s] = NumberOf[t] => s = t

toNumber(s) == NumberOf[s]

toString(n) == CHOOSE s \in DOMAIN NumberOf : NumberOf[s] = n

NextIn(s, i, Test(_)) == Min({k \in i..Len(s) : Test(s[k])} \cup {Len(s) + 1})

SkipSlashes(s, i) == NextIn(s, i, LAMBDA c : c # "/")

SegmentEnd(s, i) == NextIn(s, i, LAMBDA c : c = "/")

From(s, i) == SubSeq(s, i, Len(s))

SegmentAt(s, i) == SubSeq(s, i, SegmentEnd(s, i) - 1)

LeadingSlash(s) == s # <<>> /\ s[1] = "/"

startsWith(data, ref) == IsPrefix(ref, data)

(* Seeded fault: the loop ends with the shorter string, which no test of   *)
(* C2STestHttpBasic.cpp would notice.                                      *)
uriEquals_StopsEarly(s1, s2, bCheckLeadingSlash) ==
  LET equalFrom[at \in (1..Len(s1) + 1) \X (1..Len(s2) + 1)] ==
        IF at[1] > Len(s1) \/ at[2] > Len(s2) THEN TRUE
        ELSE LET b1 == SkipSlashes(s1, at[1])
                 b2 == SkipSlashes(s2, at[2])
             IN  /\ SegmentAt(s1, b1) = SegmentAt(s2, b2)
                 /\ equalFrom[<<SegmentEnd(s1, b1), SegmentEnd(s2, b2)>>]
  IN  /\ bCheckLeadingSlash => LeadingSlash(s1) = LeadingSlash(s2)
      /\ equalFrom[<<1, 1>>]

(* Segment by segment, any number of slashes between two of them. *)
uriEquals(s1, s2, bCheckLeadingSlash) ==
  LET equalFrom[at \in (1..Len(s1) + 1) \X (1..Len(s2) + 1)] ==
        IF at[1] > Len(s1) /\ at[2] > Len(s2) THEN TRUE
        ELSE LET b1 == SkipSlashes(s1, at[1])
                 b2 == SkipSlashes(s2, at[2])
             IN  /\ SegmentAt(s1, b1) = SegmentAt(s2, b2)
                 /\ equalFrom[<<SegmentEnd(s1, b1), SegmentEnd(s2, b2)>>]
  IN  /\ bCheckLeadingSlash => LeadingSlash(s1) = LeadingSlash(s2)
      /\ equalFrom[<<1, 1>>]

(* Seeded fault: a URI that ends before the string to skip does not fail.  *)
uriSkip_Short(data, toskip, bCheckLeadingSlash) ==
  LET skip[at \in (1..Len(data) + 1) \X (1..Len(toskip) + 1)] ==
        IF at[2] > Len(toskip) \/ at[1] > Len(data) THEN SkipSlashes(data, at[1]) - 1
        ELSE LET b1 == SkipSlashes(data, at[1])
                 b2 == SkipSlashes(toskip, at[2])
             IN  IF SegmentAt(data, b1) = SegmentAt(toskip, b2)
                 THEN skip[<<SegmentEnd(data, b1), SkipSlashes(toskip, SegmentEnd(toskip, b2))>>]
                 ELSE -1
  IN  IF ~bCheckLeadingSlash THEN skip[<<1, SkipSlashes(toskip, 1)>>]
      ELSE IF LeadingSlash(data) = LeadingSlash(toskip) THEN skip[<<1, 1>>] ELSE -1

(* How many characters of data the segments of toskip take, with the       *)
(* slashes that follow them; -1 if data does not begin with them.          *)
uriSkip(data, toskip, bCheckLeadingSlash) ==
  LET skip[at \in (1..Len(data) + 1) \X (1..Len(toskip) + 1)] ==
        IF at[2] > Len(toskip) THEN SkipSlashes(data, at[1]) - 1
        ELSE IF at[1] > Len(data) THEN -1
        ELSE LET b1 == SkipSlashes(data, at[1])
                 b2 == SkipSlashes(toskip, at[2])
             IN  IF SegmentAt(data, b1) = SegmentAt(toskip, b2)
                 THEN skip[<<SegmentEnd(data, b1), SkipSlashes(toskip, SegmentEnd(toskip, b2))>>]
                 ELSE -1
  IN  IF ~bCheckLeadingSlash THEN skip[<<1, SkipSlashes(toskip, 1)>>]
      ELSE IF LeadingSlash(data) = LeadingSlash(toskip) THEN skip[<<1, 1>>] ELSE -1

(* Seeded fault: the separator of an empty part is dropped. *)
splitNhandle_Drops(data, separator) ==
  LET handle(parts, c) ==
        IF c # separator THEN Append(Front(parts), Append(Last(parts), c))
        ELSE IF Last(parts) = <<>> THEN parts
        ELSE Append(parts, <<>>)
  IN  FoldLeft(handle, <<<<>>>>, data)

(* The parts, in the order in which the handler is called with them.  A    *)
(* separator that would end an empty part becomes part of the next one.    *)
splitNhandle(data, separator) ==
  LET handle(parts, c) ==
        IF c = separator /\ Last(parts) # <<>> THEN Append(parts, <<>>)
        ELSE Append(Front(parts), Append(Last(parts), c))
  IN  FoldLeft(handle, <<<<>>>>, data)

(* Each turn skips separators, takes what is up to the next one and steps  *)
(* over that.                                                              *)
splitString(s, sSep, bDiscardEmptyStrings) ==
  LET split[i \in 1..Len(s) + 2] ==
        IF i > Len(s) THEN <<>>
        ELSE LET b == NextIn(s, i, LAMBDA c : c # sSep)
                 e == NextIn(s, b, LAMBDA c : c = sSep)
             IN  (IF bDiscardEmptyStrings /\ b = e THEN <<>> ELSE <<SubSeq(s, b, e - 1)>>)
                   \o split[e + 1]
  IN  split[1]

-----------------------------------------------------------------------------
(* urlcode.cpp.  Letters, digits and - _ . ~ stand for themselves.         *)
HexOf ==
  LET reserved == << <<"!", "21">>, <<"$", "24">>, <<"%", "25">>, <<"&", "26">>, <<"/", "2f">>,
                     <<"(", "28">>, <<")", "29">>, <<"=", "3d">>, <<"?", "3f">>, <<"*", "2a">>,
                     <<"'", "27">>, <<":", "3a">>, <<";", "3b">>, <<",", "2c">>, <<"+", "2b">>,
                     <<"#", "23">>, <<"QUOTE", "22">>, <<"<", "3c">>, <<">", "3e">> >>
  IN  [c \in {reserved[i][1] : i \in DOMAIN reserved} |->
         reserved[CHOOSE i \in DOMAIN reserved : reserved[i][1] = c][2]]

urlEncode(s) ==
  FlattenSeq([i \in DOMAIN s |-> CASE s[i] = " " -> <<"+">>
                                  [] s[i] \in DOMAIN HexOf -> <<"%", HexOf[s[i]]>>
                                  [] OTHER -> <<s[i]>>])

(* Of strings in which two digits follow every percent sign. *)
urlDecode(s) ==
  FlattenSeq([i \in DOMAIN s |->
    CASE s[i] = "%" -> <<>>
      [] i > 1 /\ s[i - 1] = "%" -> <<CHOOSE c \in DOMAIN HexOf : HexOf[c] = s[i]>>
      [] s[i] = "+" -> <<" ">>
      [] OTHER -> <<s[i]>>])

=============================================================================

------------------------- MODULE UriMatching_proofs -------------------------
(***************************************************************************)
(* Proofs about StringUtils and Matching, for strings of any length over   *)
(* any characters: what UriMatching compares for short ones.               *)
(*                                                                         *)
(* The loops of StringUtils are functions that are defined by recursion on *)
(* a position, or on a pair of positions.  The proofs first give a table   *)
(* that satisfies such a definition and then say what is in it, from the   *)
(* last positions to the first: if it did not hold somewhere, it would not *)
(* hold at a last position, but there it follows from the next ones.       *)
(***************************************************************************)
EXTENDS UriMatching, SequenceFacts, FiniteSetTheorems

-----------------------------------------------------------------------------
(* Positions in a string. *)

(* Some positions have a first one. *)
LEMMA LeastOf ==
  ASSUME NEW S \in SUBSET Nat, S # {}
  PROVE  Min(S) \in S /\ \A k \in S : Min(S) <= k
BY LeastExists DEF Min

(* The first character after some slashes. *)
LEMMA SkipFacts ==
  ASSUME NEW S, NEW s \in Seq(S), NEW i \in 1..(Len(s) + 1)
  PROVE  LET b == SkipSlashes(s, i)
         IN  /\ b \in i..(Len(s) + 1)
             /\ b <= Len(s) => s[b] # "/"
             /\ \A k \in i..(b - 1) : s[k] = "/"
<1> DEFINE T == {k \in i..Len(s) : s[k] # "/"} \cup {Len(s) + 1}
           b == SkipSlashes(s, i)
<1>1. b = Min(T)
  BY Zenon DEF SkipSlashes, NextIn
<1>2. Len(s) \in Nat /\ T \in SUBSET Nat /\ T # {}
  OBVIOUS
<1>3. Min(T) \in T /\ \A k \in T : Min(T) <= k
  BY <1>2, LeastOf
<1> HIDE DEF b
<1>4. b \in T /\ \A k \in T : b <= k
  BY <1>1, <1>3
<1>5. b \in i..(Len(s) + 1) /\ (b <= Len(s) => s[b] # "/")
  BY <1>2, <1>4
<1>6. ASSUME NEW k \in i..(b - 1)
      PROVE  s[k] = "/"
  BY <1>2, <1>4, <1>5
<1>. QED
  BY <1>5, <1>6 DEF b

(* The end of a segment: its first slash, or the end of the string. *)
LEMMA EndFacts ==
  ASSUME NEW S, NEW s \in Seq(S), NEW i \in 1..(Len(s) + 1)
  PROVE  LET e == SegmentEnd(s, i)
         IN  /\ e \in i..(Len(s) + 1)
             /\ e <= Len(s) => s[e] = "/"
             /\ \A k \in i..(e - 1) : s[k] # "/"
<1> DEFINE T == {k \in i..Len(s) : s[k] = "/"} \cup {Len(s) + 1}
           e == SegmentEnd(s, i)
<1>1. e = Min(T)
  BY Zenon DEF SegmentEnd, NextIn
<1>2. Len(s) \in Nat /\ T \in SUBSET Nat /\ T # {}
  OBVIOUS
<1>3. Min(T) \in T /\ \A k \in T : Min(T) <= k
  BY <1>2, LeastOf
<1> HIDE DEF e
<1>4. e \in T /\ \A k \in T : e <= k
  BY <1>1, <1>3
<1>5. e \in i..(Len(s) + 1) /\ (e <= Len(s) => s[e] = "/")
  BY <1>2, <1>4
<1>6. ASSUME NEW k \in i..(e - 1)
      PROVE  s[k] # "/"
  BY <1>2, <1>4, <1>5
<1>. QED
  BY <1>5, <1>6 DEF e

(* The next segment of a string, from a position on. *)
LEMMA NextSegment ==
  ASSUME NEW S, NEW s \in Seq(S), NEW i \in 1..(Len(s) + 1)
  PROVE  LET b == SkipSlashes(s, i)
             e == SegmentEnd(s, b)
         IN  /\ b \in i..(Len(s) + 1) /\ e \in b..(Len(s) + 1)
             /\ SegmentAt(s, b) \in Seq(S)
             /\ IF b = Len(s) + 1 THEN e = b /\ SegmentAt(s, b) = <<>>
                ELSE e > b /\ SegmentAt(s, b) # <<>>
             /\ i <= Len(s) => e > i
<1> DEFINE b == SkipSlashes(s, i)
           e == SegmentEnd(s, b)
<1>1. Len(s) \in Nat
  OBVIOUS
<1>2. b \in i..(Len(s) + 1) /\ (b <= Len(s) => s[b] # "/")
  BY SkipFacts
<1>3. b \in 1..(Len(s) + 1)
  BY <1>1, <1>2
<1> HIDE DEF b
<1>4. e \in b..(Len(s) + 1) /\ (e <= Len(s) => s[e] = "/")
  BY <1>3, EndFacts
<1> HIDE DEF e
<1>5. SegmentAt(s, b) = SubSeq(s, b, e - 1)
  BY DEF SegmentAt, e
<1>6. b = (b - 1) + 1 /\ b - 1 \in Nat /\ e - 1 \in Nat /\ b - 1 <= e - 1 /\ e - 1 <= Len(s)
  BY <1>1, <1>3, <1>4
<1>7. SubSeq(s, (b - 1) + 1, e - 1) \in Seq(S) /\ Len(SubSeq(s, (b - 1) + 1, e - 1)) = (e - 1) - (b - 1)
  BY <1>6, SliceFacts
<1>8. SegmentAt(s, b) \in Seq(S) /\ Len(SegmentAt(s, b)) = e - b
  <2>1. (b - 1) + 1 = b /\ (e - 1) - (b - 1) = e - b
    BY <1>1, <1>3, <1>4
  <2>. QED
    BY <1>5, <1>7, <2>1
<1>9. CASE b = Len(s) + 1
  <2>1. e = b
    BY <1>4, <1>9
  <2>2. SegmentAt(s, b) = <<>>
    BY <1>3, <1>8, <2>1, EmptySeq
  <2>3. i <= Len(s) => e > i
    BY <1>1, <1>9, <2>1
  <2>. QED
    BY <1>2, <1>4, <1>8, <1>9, <2>1, <2>2, <2>3 DEF b, e
<1>10. CASE b # Len(s) + 1
  <2>1. e > b
    BY <1>1, <1>2, <1>4, <1>10
  <2>2. SegmentAt(s, b) # <<>>
    BY <1>3, <1>4, <1>8, <2>1, EmptySeq
  <2>3. e > i
    BY <1>1, <1>2, <1>4, <2>1
  <2>. QED
    BY <1>2, <1>4, <1>8, <1>10, <2>1, <2>2, <2>3 DEF b, e
<1>. QED
  BY <1>9, <1>10

-----------------------------------------------------------------------------
(* Segments, from a position on.                                           *)

Starts(s, i) == {k \in i..Len(s) : s[k] # "/" /\ (k = i \/ s[k - 1] = "/")}

SegmentsAt(s, i) == [k \in 1..Cardinality(Starts(s, i)) |-> SegmentAt(s, Nth(Starts(s, i), k))]

UpTo(positions, i) == {j \in positions : j <= i}

(* The first position counts as one, the others as one more. *)
LEMMA NthFacts ==
  ASSUME NEW A \in SUBSET Nat, IsFiniteSet(A), NEW b \in Nat, \A k \in A : b < k
  PROVE  /\ Cardinality(A \cup {b}) = Cardinality(A) + 1
         /\ Nth(A \cup {b}, 1) = b
         /\ \A k \in Nat \ {0} : Nth(A \cup {b}, k + 1) = Nth(A, k)
<1> DEFINE B == A \cup {b}
<1>1. b \notin A
  OBVIOUS
<1>2. Cardinality(B) = Cardinality(A) + 1 /\ IsFiniteSet(B)
  BY <1>1, FS_AddElement
<1>3. Cardinality(UpTo(B, b)) = 1
  <2>1. UpTo(B, b) = {b}
    <3>1. \A k \in A : ~(k <= b)
      OBVIOUS
    <3>2. b <= b
      OBVIOUS
    <3>. QED
      BY <3>1, <3>2, Zenon DEF UpTo
  <2>. QED
    BY <2>1, FS_Singleton
<1>4. ASSUME NEW p \in A
      PROVE  /\ Cardinality(UpTo(B, p)) = Cardinality(UpTo(A, p)) + 1
             /\ Cardinality(UpTo(A, p)) \in Nat \ {0}
  <2>1. UpTo(B, p) = UpTo(A, p) \cup {b}
    <3>1. b <= p
      OBVIOUS
    <3>. QED
      BY <3>1 DEF UpTo
  <2>2. UpTo(A, p) \in SUBSET A /\ p \in UpTo(A, p) /\ b \notin UpTo(A, p)
    BY <1>1 DEF UpTo
  <2>3. IsFiniteSet(UpTo(A, p))
    BY <2>2, FS_Subset
  <2>4. Cardinality(UpTo(A, p)) \in Nat /\ Cardinality(UpTo(A, p)) # 0
    BY <2>2, <2>3, FS_CardinalityType, FS_EmptySet
  <2>5. Cardinality(UpTo(A, p) \cup {b}) = Cardinality(UpTo(A, p)) + 1
    BY <2>2, <2>3, FS_AddElement
  <2>. QED
    BY <2>1, <2>4, <2>5
<1>5. Nth(B, 1) = b
  <2>1. b \in B /\ Cardinality(UpTo(B, b)) = 1
    BY <1>3
  <2>2. \A p \in B : Cardinality(UpTo(B, p)) = 1 => p = b
    BY <1>4
  <2>3. Nth(B, 1) = CHOOSE p \in B : Cardinality(UpTo(B, p)) = 1
    BY Zenon DEF Nth, UpTo
  <2> HIDE DEF B
  <2>. QED
    BY <2>1, <2>2, <2>3
<1>6. ASSUME NEW k \in Nat \ {0}
      PROVE  Nth(B, k + 1) = Nth(A, k)
  <2>1. \A p : (p \in B /\ Cardinality(UpTo(B, p)) = k + 1) <=> (p \in A /\ Cardinality(UpTo(A, p)) = k)
    <3>1. \A p : p \in B <=> p \in A \/ p = b
      OBVIOUS
    <3>2. k \in Nat /\ k # 0 /\ k + 1 # 1
      OBVIOUS
    <3>3. \A p \in A : Cardinality(UpTo(B, p)) = k + 1 <=> Cardinality(UpTo(A, p)) = k
      BY <1>4, <3>2
    <3> HIDE DEF B
    <3>. QED
      BY <1>3, <3>1, <3>2, <3>3
  <2>2. Nth(B, k + 1) = CHOOSE p : p \in B /\ Cardinality(UpTo(B, p)) = k + 1
    BY Zenon DEF Nth, UpTo
  <2>3. Nth(A, k) = CHOOSE p : p \in A /\ Cardinality(UpTo(A, p)) = k
    BY Zenon DEF Nth, UpTo
  <2> HIDE DEF B
  <2>. QED
    BY <2>1, <2>2, <2>3, Zenon
<1>. QED
  BY <1>2, <1>5, <1>6

(* The positions where a segment starts, one after the other. *)
LEMMA StartsFacts ==
  ASSUME NEW S, NEW s \in Seq(S), NEW i \in 1..(Len(s) + 1)
  PROVE  LET b == SkipSlashes(s, i)
             e == SegmentEnd(s, b)
         IN  /\ Starts(s, i) \in SUBSET Nat /\ IsFiniteSet(Starts(s, i))
             /\ IF b = Len(s) + 1 THEN Starts(s, i) = {}
                ELSE /\ Starts(s, i) = Starts(s, e) \cup {b}
                     /\ \A k \in Starts(s, e) : b < k
<1> DEFINE b == SkipSlashes(s, i)
           e == SegmentEnd(s, b)
<1>1. Len(s) \in Nat
  OBVIOUS
<1>2. /\ b \in i..(Len(s) + 1) /\ (b <= Len(s) => s[b] # "/")
      /\ \A k \in i..(b - 1) : s[k] = "/"
  BY SkipFacts
<1>3. b \in 1..(Len(s) + 1)
  BY <1>1, <1>2
<1> HIDE DEF b
<1>4. /\ e \in b..(Len(s) + 1) /\ (e <= Len(s) => s[e] = "/")
      /\ \A k \in b..(e - 1) : s[k] # "/"
  BY <1>3, EndFacts
<1> HIDE DEF e
<1>5. Starts(s, i) \in SUBSET Nat /\ IsFiniteSet(Starts(s, i))
  <2>1. Starts(s, i) \in SUBSET (1..Len(s))
    BY <1>1 DEF Starts
  <2>2. IsFiniteSet(1..Len(s))
    BY <1>1, FS_Interval
  <2>. QED
    BY <2>1, <2>2, FS_Subset
<1>6. CASE b = Len(s) + 1
  <2>1. Starts(s, i) = {}
    BY <1>1, <1>2, <1>6 DEF Starts
  <2>. QED
    BY <1>5, <1>6, <2>1 DEF b
<1>7. CASE b # Len(s) + 1
  <2>1. b <= Len(s) /\ b < e
    BY <1>1, <1>2, <1>4, <1>7
  <2>2. b \in Starts(s, i)
    <3>1. b = i \/ s[b - 1] = "/"
      BY <1>1, <1>2
    <3>. QED
      BY <1>1, <1>2, <2>1, <3>1 DEF Starts
  <2>3. ASSUME NEW k \in Starts(s, e)
        PROVE  b < k /\ k \in Starts(s, i)
    <3>1. k \in e..Len(s) /\ s[k] # "/" /\ (k = e \/ s[k - 1] = "/")
      BY DEF Starts
    <3>2. k # e /\ k > b /\ k \in i..Len(s)
      BY <1>1, <1>2, <1>4, <2>1, <3>1
    <3>. QED
      BY <3>1, <3>2 DEF Starts
  <2>4. ASSUME NEW k \in Starts(s, i), k # b
        PROVE  k \in Starts(s, e)
    <3>1. k \in i..Len(s) /\ s[k] # "/" /\ (k = i \/ s[k - 1] = "/")
      BY DEF Starts
    <3>2. k > b
      <4>1. ~(k < b)
        BY <1>1, <1>2, <3>1
      <4>. QED
        BY <1>1, <1>2, <2>4, <3>1, <4>1
    <3>3. s[k - 1] = "/"
      BY <1>1, <1>2, <3>1, <3>2
    <3>4. ~(k - 1 < e)
      BY <1>1, <1>2, <1>4, <3>1, <3>2, <3>3
    <3>5. k \in e..Len(s)
      BY <1>1, <1>2, <1>4, <3>1, <3>4
    <3>. QED
      BY <3>1, <3>3, <3>5 DEF Starts
  <2>5. Starts(s, i) = Starts(s, e) \cup {b}
    BY <2>2, <2>3, <2>4
  <2>. QED
    BY <1>5, <1>7, <2>3, <2>5 DEF b, e
<1>. QED
  BY <1>6, <1>7

(* A list with one more element in front. *)
LEMMA ConsFacts ==
  ASSUME NEW T, NEW a \in T, NEW A \in Seq(T)
  PROVE  /\ <<a>> \o A \in Seq(T) /\ Len(<<a>> \o A) = Len(A) + 1 /\ <<a>> \o A # <<>>
         /\ (<<a>> \o A)[1] = a
         /\ \A k \in 1..Len(A) : (<<a>> \o A)[k + 1] = A[k]
<1>1. <<a>> \in Seq(T) /\ Len(<<a>>) = 1 /\ <<a>>[1] = a
  OBVIOUS
<1>2. /\ <<a>> \o A \in Seq(T) /\ Len(<<a>> \o A) = Len(<<a>>) + Len(A)
      /\ \A i \in 1..(Len(<<a>>) + Len(A)) :
           (<<a>> \o A)[i] = IF i <= Len(<<a>>) THEN <<a>>[i] ELSE A[i - Len(<<a>>)]
  BY <1>1, ConcatProperties
<1>3. Len(A) \in Nat
  OBVIOUS
<1> DEFINE u == <<a>> \o A
<1> HIDE DEF u
<1>4. /\ u \in Seq(T) /\ Len(u) = 1 + Len(A)
      /\ \A i \in 1..(1 + Len(A)) : u[i] = IF i <= 1 THEN a ELSE A[i - 1]
  BY <1>1, <1>2 DEF u
<1>5. u[1] = a
  BY <1>3, <1>4
<1>6. ASSUME NEW k \in 1..Len(A)
      PROVE  u[k + 1] = A[k]
  <2>1. k + 1 \in 1..(1 + Len(A)) /\ ~(k + 1 <= 1) /\ (k + 1) - 1 = k
    BY <1>3
  <2>. QED
    BY <1>4, <2>1
<1>7. u # <<>> /\ Len(u) = Len(A) + 1
  BY <1>3, <1>4, EmptySeq
<1>. QED
  BY <1>4, <1>5, <1>6, <1>7 DEF u

(* Two such lists are equal only if their heads and the others are. *)
LEMMA ConsEqual ==
  ASSUME NEW T, NEW a \in T, NEW A \in Seq(T), NEW b \in T, NEW B \in Seq(T),
         <<a>> \o A = <<b>> \o B
  PROVE  a = b /\ A = B
<1> DEFINE u == <<a>> \o A
           v == <<b>> \o B
<1>1. /\ u \in Seq(T) /\ Len(u) = Len(A) + 1 /\ u[1] = a
      /\ \A k \in 1..Len(A) : u[k + 1] = A[k]
  BY ConsFacts
<1>2. /\ v \in Seq(T) /\ Len(v) = Len(B) + 1 /\ v[1] = b
      /\ \A k \in 1..Len(B) : v[k + 1] = B[k]
  BY ConsFacts
<1>3. u = v
  OBVIOUS
<1> HIDE DEF u, v
<1>4. Len(A) = Len(B)
  BY <1>1, <1>2, <1>3
<1>5. \A k \in 1..Len(A) : A[k] = B[k]
  BY <1>1, <1>2, <1>3, <1>4
<1>. QED
  BY <1>1, <1>2, <1>3, <1>4, <1>5, SeqEqual

(* What holds of a position if it holds of the end of the next segment.    *)
LEMMA SegmentInduction ==
  ASSUME NEW S, NEW s \in Seq(S), NEW P,
         \A i \in 1..(Len(s) + 1) :
           (SkipSlashes(s, i) # Len(s) + 1 => SegmentEnd(s, SkipSlashes(s, i)) \in P) => i \in P
  PROVE  \A i \in 1..(Len(s) + 1) : i \in P
<1> DEFINE T == {i \in 1..(Len(s) + 1) : i \notin P}
<1>1. SUFFICES ASSUME T # {}
               PROVE  FALSE
  OBVIOUS
<1>2. Len(s) \in Nat /\ T \in SUBSET (0..(Len(s) + 1)) /\ Len(s) + 1 \in Nat
  OBVIOUS
<1>3. PICK n \in T : \A k \in T : n >= k
  BY <1>1, <1>2, GreatestExists
<1>4. n \in 1..(Len(s) + 1) /\ n \notin P
  BY <1>3
<1> DEFINE b == SkipSlashes(s, n)
           e == SegmentEnd(s, b)
<1>5. b # Len(s) + 1 /\ e \notin P
  BY <1>4
<1>6. /\ b \in n..(Len(s) + 1) /\ e \in b..(Len(s) + 1)
      /\ n <= Len(s) => e > n
  BY <1>4, NextSegment
<1> HIDE DEF b, e
<1>7. e > n /\ e \in 1..(Len(s) + 1)
  BY <1>2, <1>4, <1>5, <1>6
<1>8. e \in T
  BY <1>5, <1>7
<1>. QED
  BY <1>3, <1>2, <1>4, <1>7, <1>8

(* The segments from a position on: none, or the next one and then those   *)
(* from its end on.                                                        *)
LEMMA SegmentsUnfold ==
  ASSUME NEW S, NEW s \in Seq(S), NEW i \in 1..(Len(s) + 1)
  PROVE  LET b == SkipSlashes(s, i)
             e == SegmentEnd(s, b)
         IN  IF b = Len(s) + 1 THEN SegmentsAt(s, i) = <<>>
             ELSE SegmentsAt(s, e) \in Seq(Seq(S)) =>
                    SegmentsAt(s, i) = <<SegmentAt(s, b)>> \o SegmentsAt(s, e)
<1> DEFINE b == SkipSlashes(s, i)
           e == SegmentEnd(s, b)
           A == Starts(s, e)
           B == Starts(s, i)
           n == Cardinality(A)
<1>0. Len(s) \in Nat
  OBVIOUS
<1>1. /\ b \in i..(Len(s) + 1) /\ e \in b..(Len(s) + 1)
      /\ SegmentAt(s, b) \in Seq(S)
  BY NextSegment
<1>2. /\ B \in SUBSET Nat /\ IsFiniteSet(B)
      /\ IF b = Len(s) + 1 THEN B = {} ELSE B = A \cup {b} /\ \A k \in A : b < k
  BY StartsFacts
<1>3. ASSUME b = Len(s) + 1
      PROVE  SegmentsAt(s, i) = <<>>
  <2>1. Cardinality(B) = 0
    BY <1>2, <1>3, FS_EmptySet
  <2>2. SegmentsAt(s, i) = [k \in 1..0 |-> SegmentAt(s, Nth(B, k))]
    BY <2>1 DEF SegmentsAt
  <2>3. 1..0 = {}
    OBVIOUS
  <2>4. [k \in 1..0 |-> SegmentAt(s, Nth(B, k))] \in [1..0 -> {}]
    BY <2>3
  <2>5. SegmentsAt(s, i) \in Seq({}) /\ Len(SegmentsAt(s, i)) = 0
    BY <2>2, <2>4, FunctionIsSeq
  <2>. QED
    BY <2>5, EmptySeq
<1>4. ASSUME b # Len(s) + 1, SegmentsAt(s, e) \in Seq(Seq(S))
      PROVE  SegmentsAt(s, i) = <<SegmentAt(s, b)>> \o SegmentsAt(s, e)
  <2>1. B = A \cup {b} /\ (\A k \in A : b < k) /\ b \in Nat
    BY <1>0, <1>1, <1>2, <1>4
  <2>2. A \in SUBSET Nat /\ IsFiniteSet(A)
    BY <1>2, <2>1, FS_Subset
  <2> HIDE DEF A, B, b, e
  <2>3. /\ Cardinality(B) = n + 1
        /\ Nth(B, 1) = b
        /\ \A k \in Nat \ {0} : Nth(B, k + 1) = Nth(A, k)
    BY <2>1, <2>2, NthFacts
  <2>4. n \in Nat
    BY <2>2, FS_CardinalityType
  <2> HIDE DEF n
  <2>5. SegmentsAt(s, e) = [k \in 1..n |-> SegmentAt(s, Nth(A, k))]
    BY DEF SegmentsAt, A, n
  <2>6. SegmentsAt(s, i) = [k \in 1..(n + 1) |-> SegmentAt(s, Nth(B, k))]
    BY <2>3 DEF SegmentsAt, B
  <2> DEFINE u == SegmentsAt(s, e)
             v == SegmentsAt(s, i)
             a == SegmentAt(s, b)
  <2> HIDE DEF u, v, a
  <2>7. u \in Seq(Seq(S)) /\ Len(u) = n /\ \A k \in 1..n : u[k] = SegmentAt(s, Nth(A, k))
    <3>1. u \in Seq(Seq(S)) /\ DOMAIN u = 1..n /\ \A k \in 1..n : u[k] = SegmentAt(s, Nth(A, k))
      BY <1>4, <2>5, Zenon DEF u
    <3>2. DOMAIN u = 1..Len(u) /\ Len(u) \in Nat
      BY <3>1
    <3>. QED
      BY <2>4, <3>1, <3>2
  <2>8. \A k \in 1..(n + 1) : SegmentAt(s, Nth(B, k)) = IF k = 1 THEN a ELSE u[k - 1]
    <3> SUFFICES ASSUME NEW k \in 1..(n + 1)
                 PROVE  SegmentAt(s, Nth(B, k)) = IF k = 1 THEN a ELSE u[k - 1]
      OBVIOUS
    <3>1. CASE k = 1
      BY <2>3, <3>1 DEF a
    <3>2. CASE k # 1
      <4>1. k - 1 \in 1..n /\ k - 1 \in Nat \ {0} /\ k = (k - 1) + 1
        BY <2>4, <3>2
      <4>2. Nth(B, k) = Nth(A, k - 1)
        BY <2>3, <4>1
      <4>. QED
        BY <2>7, <3>2, <4>1, <4>2
    <3>. QED
      BY <3>1, <3>2
  <2>9. a \in Seq(S)
    BY <1>1 DEF a, b
  <2>10. \A k \in 1..(n + 1) : v[k] = IF k = 1 THEN a ELSE u[k - 1]
    BY <2>6, <2>8, Zenon DEF v
  <2>11. \A k \in 1..(n + 1) : v[k] \in Seq(S)
    <3> SUFFICES ASSUME NEW k \in 1..(n + 1)
                 PROVE  v[k] \in Seq(S)
      OBVIOUS
    <3>1. k # 1 => k - 1 \in 1..n
      BY <2>4
    <3>. QED
      BY <2>7, <2>9, <2>10, <3>1
  <2>12. v \in [1..(n + 1) -> Seq(S)]
    <3>1. v = [k \in 1..(n + 1) |-> v[k]]
      BY <2>6, Zenon DEF v
    <3>. QED
      BY <2>11, <3>1, Zenon
  <2>13. v \in Seq(Seq(S)) /\ Len(v) = n + 1
    BY <2>4, <2>12, FunctionIsSeq
  <2>14. /\ <<a>> \o u \in Seq(Seq(S)) /\ Len(<<a>> \o u) = n + 1
         /\ (<<a>> \o u)[1] = a
         /\ \A k \in 1..n : (<<a>> \o u)[k + 1] = u[k]
    BY <2>7, <2>9, ConsFacts
  <2>15. \A k \in 1..(n + 1) : v[k] = (<<a>> \o u)[k]
    <3> SUFFICES ASSUME NEW k \in 1..(n + 1)
                 PROVE  v[k] = (<<a>> \o u)[k]
      OBVIOUS
    <3>1. k # 1 => k - 1 \in 1..n /\ k = (k - 1) + 1
      BY <2>4
    <3>. QED
      BY <2>10, <2>14, <3>1
  <2>16. v = <<a>> \o u
    BY <2>13, <2>14, <2>15, SeqEqual
  <2>. QED
    BY <2>16 DEF u, v, a
<1>. QED
  BY <1>3, <1>4

(* There is only one position that can be the one behind some slashes.    *)
LEMMA SkipIs ==
  ASSUME NEW S, NEW s \in Seq(S), NEW i \in 1..(Len(s) + 1), NEW c \in i..(Len(s) + 1),
         c <= Len(s) => s[c] # "/", \A k \in i..(c - 1) : s[k] = "/"
  PROVE  SkipSlashes(s, i) = c
<1> DEFINE b == SkipSlashes(s, i)
<1>1. /\ b \in i..(Len(s) + 1) /\ (b <= Len(s) => s[b] # "/")
      /\ \A k \in i..(b - 1) : s[k] = "/"
  BY SkipFacts
<1>2. Len(s) \in Nat
  OBVIOUS
<1> HIDE DEF b
<1>3. ~(b < c)
  BY <1>1, <1>2
<1>4. ~(c < b)
  BY <1>1, <1>2
<1>. QED
  BY <1>1, <1>2, <1>3, <1>4 DEF b

(* The end of a segment as well. *)
LEMMA EndIs ==
  ASSUME NEW S, NEW s \in Seq(S), NEW i \in 1..(Len(s) + 1), NEW c \in i..(Len(s) + 1),
         c <= Len(s) => s[c] = "/", \A k \in i..(c - 1) : s[k] # "/"
  PROVE  SegmentEnd(s, i) = c
<1> DEFINE e == SegmentEnd(s, i)
<1>1. /\ e \in i..(Len(s) + 1) /\ (e <= Len(s) => s[e] = "/")
      /\ \A k \in i..(e - 1) : s[k] # "/"
  BY EndFacts
<1>2. Len(s) \in Nat
  OBVIOUS
<1> HIDE DEF e
<1>3. ~(e < c)
  BY <1>1, <1>2
<1>4. ~(c < e)
  BY <1>1, <1>2
<1>. QED
  BY <1>1, <1>2, <1>3, <1>4 DEF e

(* There is nothing to skip where the slashes end. *)
LEMMA SkipTwice ==
  ASSUME NEW S, NEW s \in Seq(S), NEW i \in 1..(Len(s) + 1)
  PROVE  SkipSlashes(s, SkipSlashes(s, i)) = SkipSlashes(s, i)
<1> DEFINE b == SkipSlashes(s, i)
<1>0. Len(s) \in Nat
  OBVIOUS
<1>1. b \in i..(Len(s) + 1) /\ (b <= Len(s) => s[b] # "/")
  BY SkipFacts
<1> HIDE DEF b
<1>2. b \in 1..(Len(s) + 1) /\ b \in b..(Len(s) + 1) /\ \A k \in b..(b - 1) : s[k] = "/"
  BY <1>0, <1>1
<1>3. SkipSlashes(s, b) = b
  BY <1>1, <1>2, SkipIs
<1>. QED
  BY <1>3 DEF b

(* The segments from a position on are a list of strings; a slash at that  *)
(* position makes no difference to them.                                   *)
LEMMA SegmentsFacts ==
  ASSUME NEW S, NEW s \in Seq(S), NEW i \in 1..(Len(s) + 1)
  PROVE  LET b == SkipSlashes(s, i)
             e == SegmentEnd(s, b)
         IN  /\ SegmentsAt(s, i) \in Seq(Seq(S))
             /\ IF b = Len(s) + 1 THEN SegmentsAt(s, i) = <<>>
                ELSE /\ SegmentsAt(s, i) = <<SegmentAt(s, b)>> \o SegmentsAt(s, e)
                     /\ SegmentsAt(s, i) # <<>>
             /\ SegmentsAt(s, b) = SegmentsAt(s, i)
<1> DEFINE P == {j \in 1..(Len(s) + 1) : SegmentsAt(s, j) \in Seq(Seq(S))}
<1>1. ASSUME NEW j \in 1..(Len(s) + 1),
             SkipSlashes(s, j) # Len(s) + 1 => SegmentEnd(s, SkipSlashes(s, j)) \in P
      PROVE  j \in P
  <2> DEFINE c == SkipSlashes(s, j)
             f == SegmentEnd(s, c)
  <2>1. IF c = Len(s) + 1 THEN SegmentsAt(s, j) = <<>>
        ELSE SegmentsAt(s, f) \in Seq(Seq(S)) =>
               SegmentsAt(s, j) = <<SegmentAt(s, c)>> \o SegmentsAt(s, f)
    BY SegmentsUnfold
  <2>2. SegmentAt(s, c) \in Seq(S)
    BY NextSegment
  <2> HIDE DEF c, f
  <2>3. CASE c = Len(s) + 1
    <3>1. <<>> \in Seq(Seq(S))
      OBVIOUS
    <3>. QED
      BY <2>1, <2>3, <3>1
  <2>4. CASE c # Len(s) + 1
    <3>1. SegmentsAt(s, f) \in Seq(Seq(S))
      BY <1>1, <2>4 DEF c, f
    <3>2. <<SegmentAt(s, c)>> \o SegmentsAt(s, f) \in Seq(Seq(S))
      BY <2>2, <3>1, ConsFacts
    <3>. QED
      BY <2>1, <2>4, <3>1, <3>2
  <2>. QED
    BY <2>3, <2>4
<1> HIDE DEF P
<1>2. \A j \in 1..(Len(s) + 1) : j \in P
  BY <1>1, SegmentInduction
<1>3. \A j \in 1..(Len(s) + 1) : SegmentsAt(s, j) \in Seq(Seq(S))
  BY <1>2 DEF P
<1> DEFINE b == SkipSlashes(s, i)
           e == SegmentEnd(s, b)
<1>4. /\ b \in i..(Len(s) + 1) /\ e \in b..(Len(s) + 1)
      /\ SegmentAt(s, b) \in Seq(S)
  BY NextSegment
<1>5. b \in 1..(Len(s) + 1) /\ e \in 1..(Len(s) + 1)
  BY <1>4
<1>6. \A j \in 1..(Len(s) + 1) :
        IF SkipSlashes(s, j) = Len(s) + 1 THEN SegmentsAt(s, j) = <<>>
        ELSE SegmentsAt(s, SegmentEnd(s, SkipSlashes(s, j))) \in Seq(Seq(S)) =>
               SegmentsAt(s, j) = <<SegmentAt(s, SkipSlashes(s, j))>>
                                    \o SegmentsAt(s, SegmentEnd(s, SkipSlashes(s, j)))
  BY SegmentsUnfold
<1>7. IF b = Len(s) + 1 THEN SegmentsAt(s, i) = <<>>
      ELSE SegmentsAt(s, i) = <<SegmentAt(s, b)>> \o SegmentsAt(s, e)
  BY <1>3, <1>5, <1>6
<1>8. SkipSlashes(s, b) = b
  BY SkipTwice
<1>9. IF b = Len(s) + 1 THEN SegmentsAt(s, b) = <<>>
      ELSE SegmentsAt(s, b) = <<SegmentAt(s, b)>> \o SegmentsAt(s, e)
  BY <1>3, <1>5, <1>6, <1>8
<1>10. <<SegmentAt(s, b)>> \o SegmentsAt(s, e) # <<>>
  <2> HIDE DEF b, e
  <2>. QED
    BY <1>3, <1>4, <1>5, ConsFacts
<1>. QED
  BY <1>3, <1>7, <1>9, <1>10

(* A slash in front makes no difference to the segments. *)
LEMMA SlashIsSkipped ==
  ASSUME NEW S, NEW s \in Seq(S), NEW i \in 1..Len(s), s[i] = "/"
  PROVE  /\ SkipSlashes(s, i) = SkipSlashes(s, i + 1)
         /\ SegmentsAt(s, i) = SegmentsAt(s, i + 1)
<1> DEFINE b == SkipSlashes(s, i + 1)
<1>1. Len(s) \in Nat /\ i + 1 \in 1..(Len(s) + 1) /\ i \in 1..(Len(s) + 1)
  OBVIOUS
<1>2. /\ b \in (i + 1)..(Len(s) + 1) /\ (b <= Len(s) => s[b] # "/")
      /\ \A k \in (i + 1)..(b - 1) : s[k] = "/"
  BY <1>1, SkipFacts
<1> HIDE DEF b
<1>3. \A k \in i..(b - 1) : s[k] = "/"
  <2>1. \A k \in i..(b - 1) : k = i \/ k \in (i + 1)..(b - 1)
    OBVIOUS
  <2>. QED
    BY <1>2, <2>1
<1>4. b \in i..(Len(s) + 1)
  BY <1>1, <1>2
<1>5. SkipSlashes(s, i) = b
  BY <1>1, <1>2, <1>3, <1>4, SkipIs
<1>6. SegmentsAt(s, SkipSlashes(s, i)) = SegmentsAt(s, i)
  BY <1>1, SegmentsFacts
<1>7. SegmentsAt(s, SkipSlashes(s, i + 1)) = SegmentsAt(s, i + 1)
  BY <1>1, SegmentsFacts
<1>. QED
  BY <1>5, <1>6, <1>7 DEF b

(* Segments() lists the segments from the first position on. *)
LEMMA SegmentsAreAll ==
  ASSUME NEW S, NEW s \in Seq(S)
  PROVE  Segments(s) = SegmentsAt(s, 1)
<1> DEFINE P == {i \in 1..(Len(s) + 1) :
                   \A k \in 1..Cardinality(Starts(s, i)) : Nth(Starts(s, i), k) \in Starts(s, i)}
<1>0. Len(s) \in Nat /\ DOMAIN s = 1..Len(s) /\ 1 \in 1..(Len(s) + 1)
  OBVIOUS
<1>1. ASSUME NEW i \in 1..(Len(s) + 1),
             SkipSlashes(s, i) # Len(s) + 1 => SegmentEnd(s, SkipSlashes(s, i)) \in P
      PROVE  i \in P
  <2> DEFINE b == SkipSlashes(s, i)
             e == SegmentEnd(s, b)
             A == Starts(s, e)
             B == Starts(s, i)
  <2>1. /\ B \in SUBSET Nat /\ IsFiniteSet(B)
        /\ IF b = Len(s) + 1 THEN B = {} ELSE B = A \cup {b} /\ \A k \in A : b < k
    BY StartsFacts
  <2>2. b \in i..(Len(s) + 1)
    BY SkipFacts
  <2>3. b # Len(s) + 1 => e \in P
    BY <1>1
  <2> HIDE DEF b, e
  <2>4. CASE b = Len(s) + 1
    <3>1. Cardinality(B) = 0
      BY <2>1, <2>4, FS_EmptySet
    <3>. QED
      BY <3>1
  <2>5. CASE b # Len(s) + 1
    <3>1. B = A \cup {b} /\ (\A k \in A : b < k) /\ b \in Nat
      BY <1>0, <2>1, <2>2, <2>5
    <3>2. A \in SUBSET Nat /\ IsFiniteSet(A)
      BY <2>1, <3>1, FS_Subset
    <3>3. \A k \in 1..Cardinality(A) : Nth(A, k) \in A
      BY <2>3, <2>5
    <3> HIDE DEF A, B
    <3>4. /\ Cardinality(B) = Cardinality(A) + 1
          /\ Nth(B, 1) = b
          /\ \A k \in Nat \ {0} : Nth(B, k + 1) = Nth(A, k)
      BY <3>1, <3>2, NthFacts
    <3>5. Cardinality(A) \in Nat
      BY <3>2, FS_CardinalityType
    <3>6. ASSUME NEW k \in 1..Cardinality(B)
          PROVE  Nth(B, k) \in B
      <4>1. CASE k = 1
        BY <3>1, <3>4, <4>1
      <4>2. CASE k # 1
        <5>1. k - 1 \in 1..Cardinality(A) /\ k - 1 \in Nat \ {0} /\ k = (k - 1) + 1
          BY <3>4, <3>5, <4>2
        <5>2. Nth(B, k) = Nth(A, k - 1)
          BY <3>4, <5>1
        <5>. QED
          BY <3>1, <3>3, <5>1, <5>2
      <4>. QED
        BY <4>1, <4>2
    <3>. QED
      BY <3>6 DEF B
  <2>. QED
    BY <2>4, <2>5
<1> HIDE DEF P
<1>2. 1 \in P
  BY <1>0, <1>1, SegmentInduction
<1>3. \A k \in 1..Cardinality(Starts(s, 1)) : Nth(Starts(s, 1), k) \in Starts(s, 1)
  BY <1>2 DEF P
<1>4. SegmentStarts(s) = Starts(s, 1)
  BY <1>0 DEF SegmentStarts, Starts
<1> DEFINE end(start) == CHOOSE e \in start..Len(s) :
                  /\ \A i \in start..e : s[i] # "/"
                  /\ e < Len(s) => s[e + 1] = "/"
<1>5. ASSUME NEW b \in Starts(s, 1)
      PROVE  end(b) = SegmentEnd(s, b) - 1
  <2> DEFINE e == SegmentEnd(s, b)
             End(x) == /\ x \in b..Len(s)
                       /\ \A i \in b..x : s[i] # "/"
                       /\ x < Len(s) => s[x + 1] = "/"
  <2>1. b \in 1..Len(s) /\ s[b] # "/" /\ b \in 1..(Len(s) + 1)
    BY <1>0 DEF Starts
  <2>2. /\ e \in b..(Len(s) + 1) /\ (e <= Len(s) => s[e] = "/")
        /\ \A k \in b..(e - 1) : s[k] # "/"
    BY <2>1, EndFacts
  <2>3. end(b) = CHOOSE x : End(x)
    BY Zenon
  <2> HIDE DEF e
  <2>4. e # b
    BY <1>0, <2>1, <2>2
  <2>5. End(e - 1)
    <3>1. e - 1 \in b..Len(s) /\ (e - 1) + 1 = e /\ (e - 1 < Len(s) => e <= Len(s))
      BY <1>0, <2>1, <2>2, <2>4
    <3>. QED
      BY <2>2, <3>1
  <2>6. ASSUME NEW x, End(x)
        PROVE  x = e - 1
    <3>1. x + 1 \in b..(Len(s) + 1) /\ x \in Int /\ (x + 1 <= Len(s) => s[x + 1] = "/")
      BY <1>0, <2>1, <2>6
    <3>2. \A k \in b..((x + 1) - 1) : s[k] # "/"
      BY <2>6, <3>1
    <3>3. SegmentEnd(s, b) = x + 1
      BY <2>1, <3>1, <3>2, EndIs
    <3>. QED
      BY <3>1, <3>3 DEF e
  <2> HIDE DEF End, end
  <2>. QED
    BY <2>3, <2>5, <2>6 DEF e
<1>6. \A k \in 1..Cardinality(Starts(s, 1)) :
        SubSeq(s, Nth(Starts(s, 1), k), end(Nth(Starts(s, 1), k))) = SegmentAt(s, Nth(Starts(s, 1), k))
  <2> HIDE DEF end
  <2>. QED
    BY <1>3, <1>5 DEF SegmentAt
<1>7. Segments(s) = [k \in 1..Cardinality(Starts(s, 1)) |->
                       SubSeq(s, Nth(Starts(s, 1), k), end(Nth(Starts(s, 1), k)))]
  <2>1. Segments(s) = [k \in 1..Cardinality(SegmentStarts(s)) |->
                        SubSeq(s, Nth(SegmentStarts(s), k), end(Nth(SegmentStarts(s), k)))]
    BY Zenon DEF Segments
  <2> HIDE DEF end
  <2>. QED
    BY <1>4, <2>1
<1> HIDE DEF end
<1>. QED
  BY <1>6, <1>7, Zenon DEF SegmentsAt

(* So Segments() is a list of strings. *)
LEMMA SegmentsListed ==
  ASSUME NEW S, NEW s \in Seq(S)
  PROVE  Segments(s) \in Seq(Seq(S))
<1>1. 1 \in 1..(Len(s) + 1)
  OBVIOUS
<1>2. SegmentsAt(s, 1) \in Seq(Seq(S))
  BY <1>1, SegmentsFacts
<1>. QED
  BY <1>2, SegmentsAreAll

(* The empty string has no segments. *)
LEMMA EmptyHasNone == Segments(<<>>) = <<>>
<1> DEFINE e == <<>>
           S == {}
<1>1. e \in Seq(S) /\ Len(e) = 0 /\ 1 \in 1..(Len(e) + 1)
  OBVIOUS
<1> HIDE DEF e, S
<1>2. SkipSlashes(e, 1) \in 1..(Len(e) + 1)
  BY <1>1, SkipFacts
<1>3. IF SkipSlashes(e, 1) = Len(e) + 1 THEN SegmentsAt(e, 1) = <<>> ELSE SegmentsAt(e, 1) # <<>>
  BY <1>1, SegmentsFacts
<1>4. SkipSlashes(e, 1) = Len(e) + 1
  BY <1>1, <1>2
<1>5. Segments(e) = <<>>
  BY <1>1, <1>3, <1>4, SegmentsAreAll
<1>. QED
  BY <1>5 DEF e

-----------------------------------------------------------------------------
(* Comparing two URIs.                                                     *)

(* What holds of two positions if it holds of all pairs of later ones. *)
LEMMA PairInduction ==
  ASSUME NEW m \in Nat, NEW n \in Nat, NEW P,
         \A a \in 1..(m + 1), b \in 1..(n + 1) :
           (\A c \in a..(m + 1), d \in b..(n + 1) : c > a \/ d > b => <<c, d>> \in P) => <<a, b>> \in P
  PROVE  \A a \in 1..(m + 1), b \in 1..(n + 1) : <<a, b>> \in P
<1> DEFINE T == {k \in Nat : \E a \in 1..(m + 1), b \in 1..(n + 1) :
                               <<a, b>> \notin P /\ k = (m + 1 - a) + (n + 1 - b)}
<1>1. SUFFICES ASSUME NEW a \in 1..(m + 1), NEW b \in 1..(n + 1), <<a, b>> \notin P
               PROVE  FALSE
  OBVIOUS
<1>2. (m + 1 - a) + (n + 1 - b) \in Nat
  OBVIOUS
<1>3. T # {} /\ T \in SUBSET Nat
  <2> DEFINE k == (m + 1 - a) + (n + 1 - b)
  <2>1. \E c \in 1..(m + 1), d \in 1..(n + 1) : <<c, d>> \notin P /\ k = (m + 1 - c) + (n + 1 - d)
    BY <1>1
  <2>2. k \in Nat
    BY <1>2
  <2> HIDE DEF k
  <2>3. k \in T
    BY <2>1, <2>2
  <2>. QED
    BY <2>3
<1> HIDE DEF T
<1>4. PICK k \in T : \A j \in T : k <= j
  BY <1>3, LeastExists
<1>5. \E c \in 1..(m + 1), d \in 1..(n + 1) : <<c, d>> \notin P /\ k = (m + 1 - c) + (n + 1 - d)
  BY <1>4 DEF T
<1>6. PICK c \in 1..(m + 1) : \E d \in 1..(n + 1) : <<c, d>> \notin P /\ k = (m + 1 - c) + (n + 1 - d)
  BY <1>5
<1>7. PICK d \in 1..(n + 1) : <<c, d>> \notin P /\ k = (m + 1 - c) + (n + 1 - d)
  BY <1>6
<1>8. PICK p \in c..(m + 1) : \E q \in d..(n + 1) : (p > c \/ q > d) /\ <<p, q>> \notin P
  BY <1>7
<1>9. PICK q \in d..(n + 1) : (p > c \/ q > d) /\ <<p, q>> \notin P
  BY <1>8
<1>10. p \in 1..(m + 1) /\ q \in 1..(n + 1) /\ (m + 1 - p) + (n + 1 - q) \in Nat
  BY <1>8, <1>9
<1>11. (m + 1 - p) + (n + 1 - q) \in T
  BY <1>9, <1>10 DEF T
<1>12. k <= (m + 1 - p) + (n + 1 - q)
  BY <1>4, <1>11
<1>13. (m + 1 - p) + (n + 1 - q) < k
  BY <1>7, <1>8, <1>9
<1>14. k \in Nat
  BY <1>3, <1>4
<1>. QED
  BY <1>10, <1>12, <1>13, <1>14

(* Pairs of positions, those behind the last characters included. *)
Positions(s1, s2) == (1..Len(s1) + 1) \X (1..Len(s2) + 1)

(* f is the table that uriEquals() fills. *)
EqualTable(s1, s2, f) ==
  f = [at \in Positions(s1, s2) |->
        IF at[1] > Len(s1) /\ at[2] > Len(s2) THEN TRUE
        ELSE LET b1 == SkipSlashes(s1, at[1])
                 b2 == SkipSlashes(s2, at[2])
             IN  /\ SegmentAt(s1, b1) = SegmentAt(s2, b2)
                 /\ f[<<SegmentEnd(s1, b1), SegmentEnd(s2, b2)>>]]

(* uriEquals() of StringUtils.cpp looks at such a table at the first       *)
(* positions of both URIs.                                                 *)
LEMMA UriEqualsTable ==
  ASSUME NEW s1, NEW s2, NEW check \in BOOLEAN
  PROVE  uriEquals(s1, s2, check) =
           (/\ check => LeadingSlash(s1) = LeadingSlash(s2)
            /\ (CHOOSE f : EqualTable(s1, s2, f))[<<1, 1>>])
BY Zenon DEF uriEquals, EqualTable, Positions

(* Segments from two positions on are the same iff the next ones are, and  *)
(* those that follow.                                                      *)
LEMMA SameSegments ==
  ASSUME NEW S, NEW s1 \in Seq(S), NEW s2 \in Seq(S),
         NEW i \in 1..(Len(s1) + 1), NEW j \in 1..(Len(s2) + 1)
  PROVE  LET b1 == SkipSlashes(s1, i)
             b2 == SkipSlashes(s2, j)
         IN  SegmentsAt(s1, i) = SegmentsAt(s2, j) <=>
               /\ SegmentAt(s1, b1) = SegmentAt(s2, b2)
               /\ SegmentsAt(s1, SegmentEnd(s1, b1)) = SegmentsAt(s2, SegmentEnd(s2, b2))
<1> DEFINE b1 == SkipSlashes(s1, i)
           b2 == SkipSlashes(s2, j)
           e1 == SegmentEnd(s1, b1)
           e2 == SegmentEnd(s2, b2)
<1>1. /\ b1 \in 1..(Len(s1) + 1) /\ e1 \in 1..(Len(s1) + 1) /\ SegmentAt(s1, b1) \in Seq(S)
      /\ IF b1 = Len(s1) + 1 THEN e1 = b1 /\ SegmentAt(s1, b1) = <<>> ELSE SegmentAt(s1, b1) # <<>>
  <2>1. /\ b1 \in i..(Len(s1) + 1) /\ e1 \in b1..(Len(s1) + 1) /\ SegmentAt(s1, b1) \in Seq(S)
        /\ IF b1 = Len(s1) + 1 THEN e1 = b1 /\ SegmentAt(s1, b1) = <<>> ELSE SegmentAt(s1, b1) # <<>>
    BY NextSegment
  <2> HIDE DEF b1, e1
  <2>. QED
    BY <2>1
<1>2. /\ b2 \in 1..(Len(s2) + 1) /\ e2 \in 1..(Len(s2) + 1) /\ SegmentAt(s2, b2) \in Seq(S)
      /\ IF b2 = Len(s2) + 1 THEN e2 = b2 /\ SegmentAt(s2, b2) = <<>> ELSE SegmentAt(s2, b2) # <<>>
  <2>1. /\ b2 \in j..(Len(s2) + 1) /\ e2 \in b2..(Len(s2) + 1) /\ SegmentAt(s2, b2) \in Seq(S)
        /\ IF b2 = Len(s2) + 1 THEN e2 = b2 /\ SegmentAt(s2, b2) = <<>> ELSE SegmentAt(s2, b2) # <<>>
    BY NextSegment
  <2> HIDE DEF b2, e2
  <2>. QED
    BY <2>1
<1>3. /\ IF b1 = Len(s1) + 1 THEN SegmentsAt(s1, i) = <<>>
         ELSE SegmentsAt(s1, i) = <<SegmentAt(s1, b1)>> \o SegmentsAt(s1, e1) /\ SegmentsAt(s1, i) # <<>>
      /\ SegmentsAt(s1, b1) = SegmentsAt(s1, i)
  BY SegmentsFacts
<1>4. /\ IF b2 = Len(s2) + 1 THEN SegmentsAt(s2, j) = <<>>
         ELSE SegmentsAt(s2, j) = <<SegmentAt(s2, b2)>> \o SegmentsAt(s2, e2) /\ SegmentsAt(s2, j) # <<>>
      /\ SegmentsAt(s2, b2) = SegmentsAt(s2, j)
  BY SegmentsFacts
<1> HIDE DEF b1, b2, e1, e2
<1>5. SegmentsAt(s1, e1) \in Seq(Seq(S)) /\ SegmentsAt(s2, e2) \in Seq(Seq(S))
  BY <1>1, <1>2, SegmentsFacts
<1>6. CASE b1 = Len(s1) + 1 /\ b2 = Len(s2) + 1
  BY <1>1, <1>2, <1>3, <1>4, <1>6 DEF b1, b2, e1, e2
<1>7. CASE b1 # Len(s1) + 1 /\ b2 # Len(s2) + 1
  <2>1. (<<SegmentAt(s1, b1)>> \o SegmentsAt(s1, e1) = <<SegmentAt(s2, b2)>> \o SegmentsAt(s2, e2)) <=>
          (SegmentAt(s1, b1) = SegmentAt(s2, b2) /\ SegmentsAt(s1, e1) = SegmentsAt(s2, e2))
    <3> DEFINE T == Seq(S)
               x == SegmentAt(s1, b1)
               y == SegmentAt(s2, b2)
               A == SegmentsAt(s1, e1)
               B == SegmentsAt(s2, e2)
    <3>1. x \in T /\ y \in T /\ A \in Seq(T) /\ B \in Seq(T)
      BY <1>1, <1>2, <1>5
    <3> HIDE DEF T, x, y, A, B
    <3>2. <<x>> \o A = <<y>> \o B => (x = y /\ A = B)
      BY <3>1, ConsEqual
    <3>3. x = y /\ A = B => <<x>> \o A = <<y>> \o B
      BY Zenon
    <3>. QED
      BY <3>2, <3>3 DEF x, y, A, B
  <2>. QED
    BY <1>3, <1>4, <1>7, <2>1 DEF b1, b2, e1, e2
<1>8. CASE ~((b1 = Len(s1) + 1) <=> (b2 = Len(s2) + 1))
  BY <1>1, <1>2, <1>3, <1>4, <1>8 DEF b1, b2, e1, e2
<1>. QED
  BY <1>6, <1>7, <1>8

(* So uriEquals() compares the segments. *)
LEMMA UriEqualsIs ==
  ASSUME NEW S, NEW s1 \in Seq(S), NEW s2 \in Seq(S), NEW check \in BOOLEAN
  PROVE  uriEquals(s1, s2, check) <=>
           /\ Segments(s1) = Segments(s2)
           /\ check => LeadingSlash(s1) = LeadingSlash(s2)
<1> DEFINE D == Positions(s1, s2)
           b1(i) == SkipSlashes(s1, i)
           b2(j) == SkipSlashes(s2, j)
           e1(i) == SegmentEnd(s1, b1(i))
           e2(j) == SegmentEnd(s2, b2(j))
           g == [at \in D |-> SegmentsAt(s1, at[1]) = SegmentsAt(s2, at[2])]
           h == CHOOSE f : EqualTable(s1, s2, f)
<1>0. Len(s1) \in Nat /\ Len(s2) \in Nat
  OBVIOUS
<1>1. \A i \in 1..(Len(s1) + 1), j \in 1..(Len(s2) + 1) :
        /\ e1(i) \in i..(Len(s1) + 1) /\ e2(j) \in j..(Len(s2) + 1)
        /\ (i <= Len(s1) => e1(i) > i) /\ (j <= Len(s2) => e2(j) > j)
  <2> SUFFICES ASSUME NEW i \in 1..(Len(s1) + 1), NEW j \in 1..(Len(s2) + 1)
               PROVE  /\ e1(i) \in i..(Len(s1) + 1) /\ e2(j) \in j..(Len(s2) + 1)
                      /\ (i <= Len(s1) => e1(i) > i) /\ (j <= Len(s2) => e2(j) > j)
    OBVIOUS
  <2>1. b1(i) \in i..(Len(s1) + 1) /\ e1(i) \in b1(i)..(Len(s1) + 1) /\ (i <= Len(s1) => e1(i) > i)
    BY NextSegment
  <2>2. b2(j) \in j..(Len(s2) + 1) /\ e2(j) \in b2(j)..(Len(s2) + 1) /\ (j <= Len(s2) => e2(j) > j)
    BY NextSegment
  <2> HIDE DEF b1, b2, e1, e2
  <2>. QED
    BY <2>1, <2>2
<1>2. \A i \in 1..(Len(s1) + 1), j \in 1..(Len(s2) + 1) :
        SegmentsAt(s1, i) = SegmentsAt(s2, j) <=>
          /\ SegmentAt(s1, b1(i)) = SegmentAt(s2, b2(j))
          /\ SegmentsAt(s1, e1(i)) = SegmentsAt(s2, e2(j))
  BY SameSegments
<1>3. ASSUME NEW i \in 1..(Len(s1) + 1), NEW j \in 1..(Len(s2) + 1), i > Len(s1), j > Len(s2)
      PROVE  SegmentsAt(s1, i) = SegmentsAt(s2, j)
  <2>1. i = Len(s1) + 1 /\ j = Len(s2) + 1
    BY <1>0, <1>3
  <2>2. b1(i) \in i..(Len(s1) + 1) /\ b2(j) \in j..(Len(s2) + 1)
    BY SkipFacts
  <2>3. IF b1(i) = Len(s1) + 1 THEN SegmentsAt(s1, i) = <<>> ELSE SegmentsAt(s1, i) # <<>>
    BY SegmentsFacts
  <2>4. IF b2(j) = Len(s2) + 1 THEN SegmentsAt(s2, j) = <<>> ELSE SegmentsAt(s2, j) # <<>>
    BY SegmentsFacts
  <2> HIDE DEF b1, b2
  <2>. QED
    BY <1>0, <2>1, <2>2, <2>3, <2>4
<1> HIDE DEF b1, b2, e1, e2, D
<1>4. \A at \in D : at[1] \in 1..(Len(s1) + 1) /\ at[2] \in 1..(Len(s2) + 1) /\ at = <<at[1], at[2]>>
  BY DEF D, Positions
<1>5. \A i \in 1..(Len(s1) + 1), j \in 1..(Len(s2) + 1) :
        <<i, j>> \in D /\ <<e1(i), e2(j)>> \in D
  BY <1>1 DEF D, Positions
<1>6. EqualTable(s1, s2, g)
  <2>1. \A at \in D :
          g[at] = IF at[1] > Len(s1) /\ at[2] > Len(s2) THEN TRUE
                  ELSE /\ SegmentAt(s1, b1(at[1])) = SegmentAt(s2, b2(at[2]))
                       /\ g[<<e1(at[1]), e2(at[2])>>]
    <3> SUFFICES ASSUME NEW at \in D
                 PROVE  g[at] = IF at[1] > Len(s1) /\ at[2] > Len(s2) THEN TRUE
                                ELSE /\ SegmentAt(s1, b1(at[1])) = SegmentAt(s2, b2(at[2]))
                                     /\ g[<<e1(at[1]), e2(at[2])>>]
      OBVIOUS
    <3> DEFINE i == at[1]
               j == at[2]
    <3>1. i \in 1..(Len(s1) + 1) /\ j \in 1..(Len(s2) + 1)
      BY <1>4
    <3>2. g[at] = (SegmentsAt(s1, i) = SegmentsAt(s2, j))
      BY Zenon
    <3> HIDE DEF i, j
    <3>3. g[<<e1(i), e2(j)>>] = (SegmentsAt(s1, e1(i)) = SegmentsAt(s2, e2(j)))
      <4>1. <<e1(i), e2(j)>> \in D
        BY <1>5, <3>1
      <4>2. <<e1(i), e2(j)>>[1] = e1(i) /\ <<e1(i), e2(j)>>[2] = e2(j)
        OBVIOUS
      <4> DEFINE nx == <<e1(i), e2(j)>>
      <4>3. g[nx] = (SegmentsAt(s1, nx[1]) = SegmentsAt(s2, nx[2]))
        <5> HIDE DEF nx
        <5>. QED
          BY <4>1, Zenon DEF nx
      <4>. QED
        BY <4>2, <4>3, Zenon
    <3> HIDE DEF g
    <3>4. CASE i > Len(s1) /\ j > Len(s2)
      <4>1. SegmentsAt(s1, i) = SegmentsAt(s2, j)
        BY <1>3, <3>1, <3>4
      <4>. QED
        BY <3>2, <3>4, <4>1, Zenon DEF i, j
    <3>5. CASE ~(i > Len(s1) /\ j > Len(s2))
      <4>1. (SegmentsAt(s1, i) = SegmentsAt(s2, j)) <=>
              (SegmentAt(s1, b1(i)) = SegmentAt(s2, b2(j)) /\ g[<<e1(i), e2(j)>>])
        BY <1>2, <3>1, <3>3, Zenon
      <4>. QED
        BY <3>2, <3>5, <4>1, Zenon DEF i, j
    <3>. QED
      BY <3>4, <3>5, Zenon DEF i, j
  <2>2. g = [at \in D |->
               IF at[1] > Len(s1) /\ at[2] > Len(s2) THEN TRUE
               ELSE /\ SegmentAt(s1, b1(at[1])) = SegmentAt(s2, b2(at[2]))
                    /\ g[<<e1(at[1]), e2(at[2])>>]]
    <3>1. g = [at \in D |-> g[at]]
      BY Zenon
    <3> HIDE DEF g
    <3>. QED
      BY <2>1, <3>1, Zenon
  <2> HIDE DEF g
  <2>. QED
    BY <2>2, Zenon DEF EqualTable, D, b1, b2, e1, e2
<1>7. EqualTable(s1, s2, h)
  <2> HIDE DEF g
  <2>. QED
    BY <1>6, Zenon
<1> HIDE DEF h
<1>8. \A at \in D :
        h[at] = IF at[1] > Len(s1) /\ at[2] > Len(s2) THEN TRUE
                ELSE /\ SegmentAt(s1, b1(at[1])) = SegmentAt(s2, b2(at[2]))
                     /\ h[<<e1(at[1]), e2(at[2])>>]
  BY <1>7, Zenon DEF EqualTable, D, b1, b2, e1, e2
<1> DEFINE P == {at \in D : h[at] = (SegmentsAt(s1, at[1]) = SegmentsAt(s2, at[2]))}
<1>9. ASSUME NEW i \in 1..(Len(s1) + 1), NEW j \in 1..(Len(s2) + 1),
             \A c \in i..(Len(s1) + 1), d \in j..(Len(s2) + 1) : c > i \/ d > j => <<c, d>> \in P
      PROVE  <<i, j>> \in P
  <2>0. <<i, j>>[1] = i /\ <<i, j>>[2] = j /\ <<i, j>> \in D
    BY <1>5
  <2>1. h[<<i, j>>] = IF i > Len(s1) /\ j > Len(s2) THEN TRUE
                      ELSE /\ SegmentAt(s1, b1(i)) = SegmentAt(s2, b2(j))
                           /\ h[<<e1(i), e2(j)>>]
    <3> DEFINE nx == <<i, j>>
    <3>1. h[nx] = IF nx[1] > Len(s1) /\ nx[2] > Len(s2) THEN TRUE
                ELSE /\ SegmentAt(s1, b1(nx[1])) = SegmentAt(s2, b2(nx[2]))
                     /\ h[<<e1(nx[1]), e2(nx[2])>>]
      <4> HIDE DEF nx
      <4>. QED
        BY <1>8, <2>0, Zenon DEF nx
    <3>. QED
      BY <2>0, <3>1, Zenon
  <2>2. h[<<i, j>>] = (SegmentsAt(s1, i) = SegmentsAt(s2, j))
    <3>1. CASE i > Len(s1) /\ j > Len(s2)
      <4>1. SegmentsAt(s1, i) = SegmentsAt(s2, j)
        BY <1>3, <3>1
      <4>. QED
        BY <2>1, <3>1, <4>1, Zenon
    <3>2. CASE ~(i > Len(s1) /\ j > Len(s2))
      <4>1. e1(i) > i \/ e2(j) > j
        BY <1>0, <1>1, <3>2
      <4>2. <<e1(i), e2(j)>> \in P
        BY <1>1, <1>9, <4>1
      <4>3. h[<<e1(i), e2(j)>>] = (SegmentsAt(s1, e1(i)) = SegmentsAt(s2, e2(j)))
        <5>1. <<e1(i), e2(j)>>[1] = e1(i) /\ <<e1(i), e2(j)>>[2] = e2(j)
          OBVIOUS
        <5> DEFINE nx == <<e1(i), e2(j)>>
        <5>2. h[nx] = (SegmentsAt(s1, nx[1]) = SegmentsAt(s2, nx[2]))
          <6> HIDE DEF nx
          <6>. QED
            BY <4>2, Zenon DEF nx
        <5>. QED
          BY <5>1, <5>2, Zenon
      <4>4. (SegmentsAt(s1, i) = SegmentsAt(s2, j)) <=>
              (SegmentAt(s1, b1(i)) = SegmentAt(s2, b2(j)) /\ h[<<e1(i), e2(j)>>])
        BY <1>2, <4>3, Zenon
      <4>. QED
        BY <2>1, <3>2, <4>4, Zenon
    <3>. QED
      BY <3>1, <3>2, Zenon
  <2>. QED
    <3> DEFINE nx == <<i, j>>
    <3>1. h[nx] = (SegmentsAt(s1, nx[1]) = SegmentsAt(s2, nx[2]))
      BY <2>0, <2>2, Zenon
    <3> HIDE DEF nx
    <3>. QED
      BY <2>0, <3>1, Zenon DEF nx
<1> HIDE DEF P
<1>10. <<1, 1>> \in P
  <2>1. \A i \in 1..(Len(s1) + 1), j \in 1..(Len(s2) + 1) : <<i, j>> \in P
    BY <1>0, <1>9, PairInduction
  <2>. QED
    BY <1>0, <2>1
<1>11. h[<<1, 1>>] = (SegmentsAt(s1, 1) = SegmentsAt(s2, 1))
  <2>1. <<1, 1>>[1] = 1 /\ <<1, 1>>[2] = 1
    OBVIOUS
  <2> DEFINE nx == <<1, 1>>
  <2>2. h[nx] = (SegmentsAt(s1, nx[1]) = SegmentsAt(s2, nx[2]))
    <3> HIDE DEF nx
    <3>. QED
      BY <1>10, Zenon DEF nx, P
  <2>. QED
    BY <2>1, <2>2, Zenon
<1>12. Segments(s1) = SegmentsAt(s1, 1) /\ Segments(s2) = SegmentsAt(s2, 1)
  BY SegmentsAreAll
<1>13. uriEquals(s1, s2, check) =
           (/\ check => LeadingSlash(s1) = LeadingSlash(s2)
            /\ h[<<1, 1>>])
  BY UriEqualsTable, Zenon DEF h
<1>. QED
  BY <1>11, <1>12, <1>13, Zenon

-----------------------------------------------------------------------------
(* Splitting a URI.                                                        *)

(* f is the table that splitString() fills when empty parts are discarded. *)
SplitTable(s, f) ==
  f = [i \in 1..Len(s) + 2 |->
        IF i > Len(s) THEN <<>>
        ELSE LET b == SkipSlashes(s, i)
                 e == SegmentEnd(s, b)
             IN  (IF b = e THEN <<>> ELSE <<SegmentAt(s, b)>>) \o f[e + 1]]

(* splitString() of StringUtils.cpp reads its result at the first position *)
(* of such a table.                                                        *)
LEMMA SplitStringTable ==
  ASSUME NEW s
  PROVE  splitString(s, "/", TRUE) = (CHOOSE f : SplitTable(s, f))[1]
BY Zenon DEF splitString, SplitTable, SkipSlashes, SegmentEnd, SegmentAt

(* What splitString() leaves of a URI are its segments. *)
LEMMA SplitStringIs ==
  ASSUME NEW S, NEW s \in Seq(S)
  PROVE  splitString(s, "/", TRUE) = Segments(s)
<1> DEFINE n == Len(s)
           b(i) == SkipSlashes(s, i)
           e(i) == SegmentEnd(s, b(i))
           g == [i \in 1..n + 2 |-> IF i = n + 2 THEN <<>> ELSE SegmentsAt(s, i)]
           h == CHOOSE f : SplitTable(s, f)
           Turn(i, rest) == IF i > n THEN <<>>
                            ELSE (IF b(i) = e(i) THEN <<>> ELSE <<SegmentAt(s, b(i))>>) \o rest
<1>0. n \in Nat
  OBVIOUS
<1>1. \A i \in 1..(n + 1) :
        /\ b(i) \in i..(n + 1) /\ e(i) \in b(i)..(n + 1) /\ SegmentAt(s, b(i)) \in Seq(S)
        /\ IF b(i) = n + 1 THEN e(i) = b(i) ELSE e(i) > b(i)
        /\ (i <= n => e(i) > i)
  BY NextSegment
<1>2. \A i \in 1..(n + 1) :
        /\ SegmentsAt(s, i) \in Seq(Seq(S))
        /\ IF b(i) = n + 1 THEN SegmentsAt(s, i) = <<>>
           ELSE SegmentsAt(s, i) = <<SegmentAt(s, b(i))>> \o SegmentsAt(s, e(i))
  BY SegmentsFacts
<1>3. \A i \in 1..(n + 1) : e(i) <= n => SegmentsAt(s, e(i)) = SegmentsAt(s, e(i) + 1)
  <2> SUFFICES ASSUME NEW i \in 1..(n + 1), e(i) <= n
               PROVE  SegmentsAt(s, e(i)) = SegmentsAt(s, e(i) + 1)
    OBVIOUS
  <2>1. b(i) \in 1..(n + 1)
    BY <1>1
  <2> HIDE DEF b
  <2>2. e(i) \in 1..n /\ s[e(i)] = "/"
    <3>1. e(i) \in b(i)..(n + 1) /\ (e(i) <= n => s[e(i)] = "/")
      BY <2>1, EndFacts
    <3>. QED
      BY <2>1, <3>1
  <2> HIDE DEF e
  <2>. QED
    BY <2>2, SlashIsSkipped
<1> HIDE DEF b, e, n
<1>4. SegmentsAt(s, n + 1) = <<>>
  <2>0. n + 1 \in 1..(n + 1)
    BY <1>0
  <2>1. b(n + 1) \in (n + 1)..(n + 1)
    BY <1>1, <2>0
  <2>2. b(n + 1) = n + 1
    BY <1>0, <2>1
  <2>. QED
    BY <1>2, <2>0, <2>2
<1>5. \A i \in 1..(n + 2) : g[i] = IF i = n + 2 THEN <<>> ELSE SegmentsAt(s, i)
  OBVIOUS
<1> HIDE DEF g
<1>6. ASSUME NEW i \in 1..(n + 2)
      PROVE  g[i] = Turn(i, g[e(i) + 1])
  <2>1. CASE i > n
    <3>1. i = n + 1 \/ i = n + 2
      BY <1>0, <2>1
    <3>. QED
      BY <1>0, <1>4, <1>5, <2>1, <3>1
  <2>2. CASE ~(i > n)
    <3>1. i \in 1..(n + 1) /\ i # n + 2 /\ i <= n
      BY <1>0, <2>2
    <3>2. g[i] = SegmentsAt(s, i)
      BY <1>5, <3>1
    <3>3. /\ b(i) \in i..(n + 1) /\ e(i) \in b(i)..(n + 1) /\ SegmentAt(s, b(i)) \in Seq(S)
          /\ IF b(i) = n + 1 THEN e(i) = b(i) ELSE e(i) > b(i)
      BY <1>1, <3>1
    <3>4. e(i) + 1 \in 1..(n + 2) /\ e(i) \in 1..(n + 1)
      BY <1>0, <3>1, <3>3
    <3>5. g[e(i) + 1] = SegmentsAt(s, e(i))
      <4>1. CASE e(i) = n + 1
        <5>1. e(i) + 1 = n + 2
          BY <1>0, <4>1
        <5>. QED
          BY <1>4, <1>5, <3>4, <4>1, <5>1
      <4>2. CASE e(i) # n + 1
        <5>1. e(i) <= n /\ e(i) + 1 # n + 2
          BY <1>0, <3>4, <4>2
        <5>. QED
          BY <1>3, <1>5, <3>1, <3>4, <5>1
      <4>. QED
        BY <4>1, <4>2
    <3>6. SegmentsAt(s, e(i)) \in Seq(Seq(S))
      BY <1>2, <3>4
    <3>7. CASE b(i) = n + 1
      <4>1. SegmentsAt(s, i) = <<>> /\ SegmentsAt(s, e(i)) = <<>> /\ b(i) = e(i)
        BY <1>2, <1>4, <3>1, <3>3, <3>7
      <4>2. Turn(i, g[e(i) + 1]) = <<>> \o g[e(i) + 1]
        BY <2>2, <4>1
      <4>3. <<>> \o <<>> = <<>>
        OBVIOUS
      <4>. QED
        BY <3>2, <3>5, <4>1, <4>2, <4>3
    <3>8. CASE b(i) # n + 1
      <4>1. SegmentsAt(s, i) = <<SegmentAt(s, b(i))>> \o SegmentsAt(s, e(i))
        BY <1>2, <3>1, <3>8
      <4>2. b(i) # e(i)
        BY <1>0, <3>3, <3>8
      <4>3. Turn(i, g[e(i) + 1]) = <<SegmentAt(s, b(i))>> \o g[e(i) + 1]
        BY <2>2, <4>2
      <4>. QED
        BY <3>2, <3>5, <4>1, <4>3
    <3>. QED
      BY <3>7, <3>8
  <2>. QED
    BY <2>1, <2>2
<1>7. SplitTable(s, g)
  <2>1. g = [i \in 1..n + 2 |-> g[i]]
    BY Zenon DEF g
  <2>2. g = [i \in 1..n + 2 |-> Turn(i, g[e(i) + 1])]
    <3> HIDE DEF Turn
    <3>. QED
      BY <1>6, <2>1, Zenon
  <2>. QED
    BY <2>2, Zenon DEF SplitTable, n, b, e, Turn
<1>8. SplitTable(s, h)
  BY <1>7, Zenon
<1> HIDE DEF h
<1>9. \A i \in 1..(n + 2) : h[i] = Turn(i, h[e(i) + 1])
  BY <1>8, Zenon DEF SplitTable, n, b, e, Turn
<1> DEFINE T == {i \in 1..(n + 2) : h[i] # g[i]}
<1>10. T = {}
  <2>1. SUFFICES ASSUME T # {}
                 PROVE  FALSE
    OBVIOUS
  <2>2. T \in SUBSET (0..(n + 2)) /\ n + 2 \in Nat
    BY <1>0
  <2> HIDE DEF T
  <2>3. PICK i \in T : \A k \in T : i >= k
    BY <2>1, <2>2, GreatestExists
  <2>4. i \in 1..(n + 2) /\ h[i] # g[i]
    BY <2>3 DEF T
  <2>5. h[i] = Turn(i, h[e(i) + 1]) /\ g[i] = Turn(i, g[e(i) + 1])
    BY <1>6, <1>9, <2>4
  <2>6. i <= n
    BY <1>0, <2>4, <2>5
  <2>7. e(i) + 1 \in 1..(n + 2) /\ e(i) + 1 > i
    <3>1. i \in 1..(n + 1)
      BY <1>0, <2>4, <2>6
    <3>2. b(i) \in i..(n + 1) /\ e(i) \in b(i)..(n + 1) /\ e(i) > i
      BY <1>1, <2>6, <3>1
    <3>. QED
      BY <1>0, <3>1, <3>2
  <2>8. e(i) + 1 \notin T
    BY <1>0, <2>3, <2>4, <2>7
  <2>9. h[e(i) + 1] = g[e(i) + 1]
    BY <2>7, <2>8 DEF T
  <2>. QED
    BY <2>4, <2>5, <2>9
<1>11. h[1] = SegmentsAt(s, 1)
  <2>1. 1 \in 1..(n + 2) /\ 1 # n + 2
    BY <1>0
  <2>. QED
    BY <1>5, <1>10, <2>1
<1>12. Segments(s) = SegmentsAt(s, 1)
  BY SegmentsAreAll
<1>13. splitString(s, "/", TRUE) = h[1]
  BY SplitStringTable, Zenon DEF h
<1>. QED
  BY <1>11, <1>12, <1>13

-----------------------------------------------------------------------------
(* Beginnings of lists.                                                    *)

(* A list begins another one if that is not shorter and has the same       *)
(* elements there.                                                         *)
LEMMA PrefixMeans ==
  ASSUME NEW T, NEW A \in Seq(T), NEW B \in Seq(T)
  PROVE  /\ IsPrefix(A, B) => Len(A) <= Len(B) /\ \A k \in 1..Len(A) : A[k] = B[k]
         /\ Len(A) <= Len(B) /\ (\A k \in 1..Len(A) : A[k] = B[k]) => IsPrefix(A, B)
<1>1. Len(A) \in Nat /\ Len(B) \in Nat /\ 0 \in Nat /\ 0 + 1 = 1
  OBVIOUS
<1>2. /\ SubSeq(A, 0 + 1, Len(A)) \in Seq(T) /\ Len(SubSeq(A, 0 + 1, Len(A))) = Len(A) - 0
      /\ \A x \in 1..(Len(A) - 0) : SubSeq(A, 0 + 1, Len(A))[x] = A[0 + x]
  BY <1>1, SliceFacts
<1> DEFINE u == SubSeq(A, 1, Len(A))
           v == SubSeq(B, 1, Len(A))
<1>3. u \in Seq(T) /\ Len(u) = Len(A) /\ \A x \in 1..Len(A) : u[x] = A[x]
  BY <1>1, <1>2
<1>4. CASE Len(A) <= Len(B)
  <2>1. /\ SubSeq(B, 0 + 1, Len(A)) \in Seq(T) /\ Len(SubSeq(B, 0 + 1, Len(A))) = Len(A) - 0
        /\ \A x \in 1..(Len(A) - 0) : SubSeq(B, 0 + 1, Len(A))[x] = B[0 + x]
    BY <1>1, <1>4, SliceFacts
  <2>2. v \in Seq(T) /\ Len(v) = Len(A) /\ \A x \in 1..Len(A) : v[x] = B[x]
    BY <1>1, <2>1
  <2>3. IsPrefix(A, B) <=> u = v
    BY <1>4 DEF IsPrefix
  <2> HIDE DEF u, v
  <2>4. (\A x \in 1..Len(A) : A[x] = B[x]) => u = v
    <3> HAVE \A x \in 1..Len(A) : A[x] = B[x]
    <3>1. \A x \in 1..Len(u) : u[x] = v[x]
      BY <1>3, <2>2
    <3>. QED
      BY <1>3, <2>2, <3>1, SeqEqual
  <2>. QED
    BY <1>3, <1>4, <2>2, <2>3, <2>4
<1>5. CASE ~(Len(A) <= Len(B))
  BY <1>5 DEF IsPrefix
<1>. QED
  BY <1>4, <1>5

(* Whether a list begins another one, one element at a time. *)
LEMMA PrefixCons ==
  ASSUME NEW T, NEW a \in T, NEW A \in Seq(T), NEW b \in T, NEW B \in Seq(T)
  PROVE  IsPrefix(<<a>> \o A, <<b>> \o B) <=> (a = b /\ IsPrefix(A, B))
<1> DEFINE u == <<a>> \o A
           v == <<b>> \o B
<1>1. /\ u \in Seq(T) /\ Len(u) = Len(A) + 1 /\ u[1] = a
      /\ \A k \in 1..Len(A) : u[k + 1] = A[k]
  BY ConsFacts
<1>2. /\ v \in Seq(T) /\ Len(v) = Len(B) + 1 /\ v[1] = b
      /\ \A k \in 1..Len(B) : v[k + 1] = B[k]
  BY ConsFacts
<1> HIDE DEF u, v
<1>3. /\ IsPrefix(u, v) => Len(u) <= Len(v) /\ \A k \in 1..Len(u) : u[k] = v[k]
      /\ Len(u) <= Len(v) /\ (\A k \in 1..Len(u) : u[k] = v[k]) => IsPrefix(u, v)
  <2>1. u \in Seq(T) /\ v \in Seq(T)
    BY <1>1, <1>2
  <2>. QED
    BY <2>1, PrefixMeans, Zenon
<1>4. IsPrefix(A, B) <=> Len(A) <= Len(B) /\ \A k \in 1..Len(A) : A[k] = B[k]
  BY PrefixMeans
<1>5. Len(A) \in Nat /\ Len(B) \in Nat
  OBVIOUS
<1>6. ASSUME IsPrefix(u, v)
      PROVE  a = b /\ IsPrefix(A, B)
  <2>1. 1 \in 1..Len(u) /\ Len(A) <= Len(B)
    BY <1>1, <1>2, <1>3, <1>5, <1>6
  <2>2. ASSUME NEW k \in 1..Len(A)
        PROVE  A[k] = B[k]
    <3>1. k + 1 \in 1..Len(u) /\ k \in 1..Len(B)
      BY <1>1, <1>5, <2>1
    <3>. QED
      BY <1>1, <1>2, <1>3, <1>6, <3>1
  <2>. QED
    BY <1>1, <1>2, <1>3, <1>4, <1>6, <2>1, <2>2
<1>7. ASSUME a = b, IsPrefix(A, B)
      PROVE  IsPrefix(u, v)
  <2>1. Len(u) <= Len(v)
    BY <1>1, <1>2, <1>4, <1>5, <1>7
  <2>2. ASSUME NEW k \in 1..Len(u)
        PROVE  u[k] = v[k]
    <3>1. CASE k = 1
      BY <1>1, <1>2, <1>7, <3>1
    <3>2. CASE k # 1
      <4>1. k - 1 \in 1..Len(A) /\ k - 1 \in 1..Len(B) /\ (k - 1) + 1 = k
        BY <1>1, <1>4, <1>5, <1>7, <3>2
      <4>2. A[k - 1] = B[k - 1] /\ u[(k - 1) + 1] = A[k - 1] /\ v[(k - 1) + 1] = B[k - 1]
        BY <1>1, <1>2, <1>4, <1>7, <4>1
      <4>. QED
        BY <4>1, <4>2
    <3>. QED
      BY <3>1, <3>2
  <2>. QED
    BY <1>3, <2>1, <2>2
<1>. QED
  BY <1>6, <1>7 DEF u, v

(* Nothing but the empty list begins the empty one, which begins them all. *)
LEMMA PrefixEmpty ==
  ASSUME NEW T, NEW A \in Seq(T)
  PROVE  IsPrefix(<<>>, A) /\ (IsPrefix(A, <<>>) => A = <<>>)
<1>1. <<>> \in Seq(T) /\ Len(<<>>) = 0 /\ Len(A) \in Nat
  OBVIOUS
<1> DEFINE e == <<>>
<1> HIDE DEF e
<1>2. e \in Seq(T) /\ Len(e) = 0 /\ e = <<>>
  BY <1>1 DEF e
<1>3. Len(e) <= Len(A) /\ (\A k \in 1..Len(e) : e[k] = A[k]) => IsPrefix(e, A)
  BY <1>2, PrefixMeans, Zenon
<1>4. IsPrefix(A, e) => Len(A) <= Len(e)
  BY <1>2, PrefixMeans, Zenon
<1>. QED
  BY <1>1, <1>2, <1>3, <1>4, EmptySeq

(* What two lists make together: the first one and then the second.        *)
LEMMA TakeAndDrop ==
  ASSUME NEW T, NEW A \in Seq(T), NEW B \in Seq(T)
  PROVE  /\ A \o B \in Seq(T) /\ Len(A \o B) = Len(A) + Len(B)
         /\ IsPrefix(A, A \o B)
         /\ SubSeq(A \o B, Len(A) + 1, Len(A \o B)) = B
<1> DEFINE u == A \o B
<1>1. /\ u \in Seq(T) /\ Len(u) = Len(A) + Len(B)
      /\ \A i \in 1..(Len(A) + Len(B)) : u[i] = IF i <= Len(A) THEN A[i] ELSE B[i - Len(A)]
  BY ConcatProperties
<1>2. Len(A) \in Nat /\ Len(B) \in Nat
  OBVIOUS
<1> HIDE DEF u
<1>3. IsPrefix(A, u)
  <2>1. Len(A) <= Len(u)
    BY <1>1, <1>2
  <2>2. ASSUME NEW k \in 1..Len(A)
        PROVE  A[k] = u[k]
    <3>1. k \in 1..(Len(A) + Len(B)) /\ k <= Len(A)
      BY <1>2
    <3>. QED
      BY <1>1, <3>1
  <2>. QED
    BY <1>1, <2>1, <2>2, PrefixMeans
<1> DEFINE v == SubSeq(u, Len(A) + 1, Len(u))
<1>4. /\ v \in Seq(T) /\ Len(v) = Len(u) - Len(A)
      /\ \A x \in 1..(Len(u) - Len(A)) : v[x] = u[Len(A) + x]
  <2>1. Len(u) \in Nat /\ Len(A) <= Len(u)
    BY <1>1, <1>2
  <2>. QED
    BY <1>1, <1>2, <2>1, SliceFacts
<1> HIDE DEF v
<1>5. Len(v) = Len(B)
  BY <1>1, <1>2, <1>4
<1>6. ASSUME NEW x \in 1..Len(v)
      PROVE  v[x] = B[x]
  <2>1. /\ x \in 1..(Len(u) - Len(A)) /\ Len(A) + x \in 1..(Len(A) + Len(B))
        /\ ~(Len(A) + x <= Len(A)) /\ (Len(A) + x) - Len(A) = x
    BY <1>1, <1>2, <1>5
  <2>2. v[x] = u[Len(A) + x]
    BY <1>4, <2>1
  <2>3. u[Len(A) + x] = B[(Len(A) + x) - Len(A)]
    BY <1>1, <2>1
  <2>. QED
    BY <2>1, <2>2, <2>3
<1>7. v = B
  BY <1>4, <1>5, <1>6, SeqEqual
<1>. QED
  BY <1>1, <1>3, <1>7 DEF u, v

(* The segments of what is left of a string are those from there on.       *)
LEMMA SegmentsOfRest ==
  ASSUME NEW S, NEW s \in Seq(S), NEW p \in 1..(Len(s) + 1)
  PROVE  /\ From(s, p) \in Seq(S) /\ Len(From(s, p)) = Len(s) + 1 - p
         /\ \A k \in 1..(Len(s) + 1 - p) : From(s, p)[k] = s[(p - 1) + k]
         /\ Segments(From(s, p)) = SegmentsAt(s, p)
<1> DEFINE t == From(s, p)
           n == Len(s)
           q == p - 1
           m == Len(t)
           P == {i \in 1..(n + 1) : i >= p => SegmentsAt(s, i) = SegmentsAt(t, i - q)}
<1>0. n \in Nat /\ q \in Nat /\ q <= n /\ p = q + 1
  OBVIOUS
<1>1. /\ t \in Seq(S) /\ m = n - q
      /\ \A k \in 1..(n - q) : t[k] = s[q + k]
  <2>1. /\ SubSeq(s, q + 1, n) \in Seq(S) /\ Len(SubSeq(s, q + 1, n)) = n - q
        /\ \A k \in 1..(n - q) : SubSeq(s, q + 1, n)[k] = s[q + k]
    BY <1>0, SliceFacts
  <2>. QED
    BY <1>0, <2>1 DEF From
<1>2. ASSUME NEW i \in 1..(n + 1),
             SkipSlashes(s, i) # Len(s) + 1 => SegmentEnd(s, SkipSlashes(s, i)) \in P
      PROVE  i \in P
  <2> SUFFICES ASSUME i >= p
               PROVE  SegmentsAt(s, i) = SegmentsAt(t, i - q)
    OBVIOUS
  <2> DEFINE b == SkipSlashes(s, i)
             e == SegmentEnd(s, b)
  <2>1. /\ b \in i..(n + 1) /\ (b <= n => s[b] # "/")
        /\ \A k \in i..(b - 1) : s[k] = "/"
    BY SkipFacts
  <2>2. b # n + 1 => e \in P
    BY <1>2
  <2>3. IF b = n + 1 THEN SegmentsAt(s, i) = <<>>
        ELSE SegmentsAt(s, i) = <<SegmentAt(s, b)>> \o SegmentsAt(s, e)
    BY SegmentsFacts
  <2> HIDE DEF b
  <2>4. b \in 1..(n + 1)
    BY <2>1
  <2>5. /\ e \in b..(n + 1) /\ (e <= n => s[e] = "/")
        /\ \A k \in b..(e - 1) : s[k] # "/"
    BY <2>4, EndFacts
  <2> HIDE DEF e, t, n, P
  <2>6. SkipSlashes(t, i - q) = b - q
    <3>1. i - q \in 1..(m + 1) /\ b - q \in (i - q)..(m + 1)
      BY <1>0, <1>1, <2>1
    <3>2. b - q <= m => t[b - q] # "/"
      <4> HAVE b - q <= m
      <4>1. b - q \in 1..(n - q) /\ q + (b - q) = b /\ b <= n
        BY <1>0, <1>1, <2>1
      <4>2. t[b - q] = s[b]
        BY <1>1, <4>1
      <4>. QED
        BY <2>1, <4>1, <4>2
    <3>3. ASSUME NEW k \in (i - q)..((b - q) - 1)
          PROVE  t[k] = "/"
      <4>1. q + k \in i..(b - 1) /\ k \in 1..(n - q)
        BY <1>0, <2>1
      <4>. QED
        BY <1>1, <2>1, <4>1
    <3>. QED
      BY <1>1, <3>1, <3>2, <3>3, SkipIs
  <2>7. SegmentEnd(t, b - q) = e - q
    <3>1. b - q \in 1..(m + 1) /\ e - q \in (b - q)..(m + 1)
      BY <1>0, <1>1, <2>1, <2>5
    <3>2. e - q <= m => t[e - q] = "/"
      <4> HAVE e - q <= m
      <4>1. e - q \in 1..(n - q) /\ q + (e - q) = e /\ e <= n
        BY <1>0, <1>1, <2>1, <2>5
      <4>2. t[e - q] = s[e]
        BY <1>1, <4>1
      <4>. QED
        BY <2>5, <4>1, <4>2
    <3>3. ASSUME NEW k \in (b - q)..((e - q) - 1)
          PROVE  t[k] # "/"
      <4>1. q + k \in b..(e - 1) /\ k \in 1..(n - q)
        BY <1>0, <2>1, <2>5
      <4>. QED
        BY <1>1, <2>5, <4>1
    <3>. QED
      BY <1>1, <3>1, <3>2, <3>3, EndIs
  <2>8. i - q \in 1..(m + 1)
    BY <1>0, <1>1
  <2>9. IF b - q = m + 1 THEN SegmentsAt(t, i - q) = <<>>
        ELSE SegmentsAt(t, i - q) = <<SegmentAt(t, b - q)>> \o SegmentsAt(t, e - q)
    <3>1. IF SkipSlashes(t, i - q) = m + 1 THEN SegmentsAt(t, i - q) = <<>>
          ELSE SegmentsAt(t, i - q) = <<SegmentAt(t, SkipSlashes(t, i - q))>>
                                        \o SegmentsAt(t, SegmentEnd(t, SkipSlashes(t, i - q)))
      BY <1>1, <2>8, SegmentsFacts
    <3>. QED
      BY <2>6, <2>7, <3>1
  <2>10. CASE b = n + 1
    <3>1. b - q = m + 1
      BY <1>0, <1>1, <2>10
    <3>. QED
      BY <2>3, <2>9, <2>10, <3>1
  <2>11. CASE b # n + 1
    <3>1. b - q # m + 1 /\ e >= p /\ e - q = (e - q)
      BY <1>0, <1>1, <2>1, <2>5, <2>11
    <3>2. SegmentsAt(s, e) = SegmentsAt(t, e - q)
      BY <2>2, <2>11, <3>1 DEF P
    <3>3. SegmentAt(t, b - q) = SegmentAt(s, b)
      <4> DEFINE x == SubSeq(s, (b - 1) + 1, e - 1)
                 c == (b - q) - 1
                 d == (e - q) - 1
                 y == SubSeq(t, c + 1, d)
      <4>1. (b - 1) + 1 = b /\ c + 1 = b - q
        BY <1>0, <2>1
      <4>2. SegmentAt(s, b) = x /\ SegmentAt(t, b - q) = y
        BY <2>7, <4>1 DEF SegmentAt, e
      <4>3. b - 1 \in Nat /\ e - 1 \in Nat /\ b - 1 <= e - 1 /\ e - 1 <= n
        BY <1>0, <2>4, <2>5
      <4>4. /\ c \in Nat /\ d \in Nat /\ c <= d /\ d <= m /\ q + c = b - 1 /\ q + d = e - 1
        BY <1>0, <1>1, <2>1, <2>5
      <4>5. /\ x \in Seq(S) /\ Len(x) = (e - 1) - (b - 1)
            /\ \A k \in 1..((e - 1) - (b - 1)) : x[k] = s[(b - 1) + k]
        BY <4>3, SliceFacts DEF n
      <4> HIDE DEF c, d
      <4>6. /\ y \in Seq(S) /\ Len(y) = d - c
            /\ \A k \in 1..(d - c) : y[k] = t[c + k]
        BY <1>1, <4>4, SliceFacts
      <4> HIDE DEF x, y
      <4>7. Len(x) = Len(y)
        BY <1>0, <2>1, <2>5, <4>4, <4>5, <4>6
      <4>8. ASSUME NEW k \in 1..Len(x)
            PROVE  x[k] = y[k]
        <5>1. /\ k \in 1..((e - 1) - (b - 1)) /\ k \in 1..(d - c)
              /\ c + k \in 1..(n - q) /\ q + (c + k) = (b - 1) + k
          BY <1>0, <1>1, <2>1, <2>5, <4>4, <4>5
        <5>2. x[k] = s[(b - 1) + k] /\ y[k] = t[c + k]
          BY <4>5, <4>6, <5>1
        <5>3. t[c + k] = s[q + (c + k)]
          BY <1>1, <5>1
        <5>. QED
          BY <5>1, <5>2, <5>3
      <4>. QED
        BY <4>2, <4>5, <4>6, <4>7, <4>8, SeqEqual
    <3>. QED
      BY <2>3, <2>9, <2>11, <3>1, <3>2, <3>3
  <2>. QED
    BY <2>10, <2>11
<1> HIDE DEF P
<1>3. \A i \in 1..(n + 1) : i \in P
  BY <1>2, SegmentInduction
<1>4. SegmentsAt(s, p) = SegmentsAt(t, 1)
  <2>1. p - q = 1 /\ p \in 1..(n + 1) /\ p >= p
    BY <1>0
  <2>. QED
    BY <1>3, <2>1 DEF P
<1>5. Segments(t) = SegmentsAt(t, 1)
  BY <1>1, SegmentsAreAll
<1>6. Len(s) + 1 - p = n - q /\ \A k : (p - 1) + k = q + k
  BY <1>0
<1>. QED
  BY <1>1, <1>4, <1>5, <1>6

-----------------------------------------------------------------------------
(* Skipping the beginning of a URI.                                        *)

(* One turn of the loop of uriSkip(). *)
SkipStep(data, toskip, f, at) ==
  IF at[2] > Len(toskip) THEN SkipSlashes(data, at[1]) - 1
  ELSE IF at[1] > Len(data) THEN -1
  ELSE LET b1 == SkipSlashes(data, at[1])
           b2 == SkipSlashes(toskip, at[2])
       IN  IF SegmentAt(data, b1) = SegmentAt(toskip, b2)
           THEN f[<<SegmentEnd(data, b1), SkipSlashes(toskip, SegmentEnd(toskip, b2))>>]
           ELSE -1

(* f is the table that uriSkip() fills. *)
SkipTable(data, toskip, f) ==
  f = [at \in Positions(data, toskip) |-> SkipStep(data, toskip, f, at)]

(* uriSkip() of StringUtils.cpp looks at such a table at the first         *)
(* positions, or behind the first slashes of what it skips.                *)
LEMMA UriSkipTable ==
  ASSUME NEW data, NEW toskip, NEW check \in BOOLEAN
  PROVE  LET h == CHOOSE f : SkipTable(data, toskip, f)
         IN  uriSkip(data, toskip, check) =
               IF ~check THEN h[<<1, SkipSlashes(toskip, 1)>>]
               ELSE IF LeadingSlash(data) = LeadingSlash(toskip) THEN h[<<1, 1>>] ELSE -1
BY Zenon DEF uriSkip, SkipTable, SkipStep, Positions

(* The segments of one string from a position on begin those of another    *)
(* one, as uriSkip() finds out.                                            *)
Begins(data, toskip, i, j) ==
  \/ j > Len(toskip)
  \/ /\ i <= Len(data)
     /\ IF SegmentsAt(toskip, j) = <<>> THEN SegmentsAt(data, i) = <<>>
        ELSE IsPrefix(SegmentsAt(toskip, j), SegmentsAt(data, i))

(* The last position before the segment that follows k others. *)
After(s, i, k) ==
  IF Cardinality(Starts(s, i)) = k THEN Len(s) ELSE Nth(Starts(s, i), k + 1) - 1

(* How far the first segments reach, one segment at a time. *)
LEMMA AfterFacts ==
  ASSUME NEW S, NEW s \in Seq(S), NEW i \in 1..(Len(s) + 1)
  PROVE  LET b == SkipSlashes(s, i)
         IN  /\ After(s, i, 0) = b - 1
             /\ b # Len(s) + 1 =>
                  \A k \in Nat : After(s, i, k + 1) = After(s, SegmentEnd(s, b), k)
<1> DEFINE b == SkipSlashes(s, i)
           e == SegmentEnd(s, b)
           A == Starts(s, e)
           B == Starts(s, i)
<1>0. Len(s) \in Nat
  OBVIOUS
<1>1. b \in i..(Len(s) + 1)
  BY SkipFacts
<1>2. /\ B \in SUBSET Nat /\ IsFiniteSet(B)
      /\ IF b = Len(s) + 1 THEN B = {} ELSE B = A \cup {b} /\ \A k \in A : b < k
  BY StartsFacts
<1>3. After(s, i, 0) = IF Cardinality(B) = 0 THEN Len(s) ELSE Nth(B, 0 + 1) - 1
  BY Zenon DEF After
<1>4. \A k \in Nat : After(s, i, k + 1) = IF Cardinality(B) = k + 1 THEN Len(s) ELSE Nth(B, (k + 1) + 1) - 1
  BY Zenon DEF After
<1>5. \A k \in Nat : After(s, e, k) = IF Cardinality(A) = k THEN Len(s) ELSE Nth(A, k + 1) - 1
  BY Zenon DEF After
<1> HIDE DEF A, B, b, e
<1>6. CASE b = Len(s) + 1
  <2>1. Cardinality(B) = 0
    BY <1>2, <1>6, FS_EmptySet
  <2>. QED
    BY <1>0, <1>3, <1>6, <2>1 DEF b
<1>7. CASE b # Len(s) + 1
  <2>1. B = A \cup {b} /\ (\A k \in A : b < k) /\ b \in Nat
    BY <1>0, <1>1, <1>2, <1>7
  <2>2. A \in SUBSET Nat /\ IsFiniteSet(A)
    BY <1>2, <2>1, FS_Subset
  <2>3. /\ Cardinality(B) = Cardinality(A) + 1
        /\ Nth(B, 1) = b
        /\ \A k \in Nat \ {0} : Nth(B, k + 1) = Nth(A, k)
    BY <2>1, <2>2, NthFacts
  <2>4. Cardinality(A) \in Nat
    BY <2>2, FS_CardinalityType
  <2>5. After(s, i, 0) = b - 1
    BY <1>3, <2>3, <2>4
  <2>6. ASSUME NEW k \in Nat
        PROVE  After(s, i, k + 1) = After(s, e, k)
    <3>1. k + 1 \in Nat \ {0} /\ (Cardinality(B) = k + 1 <=> Cardinality(A) = k)
      <4>1. Cardinality(B) = Cardinality(A) + 1
        BY <2>3
      <4>. QED
        BY <2>4, <4>1
    <3>2. Nth(B, (k + 1) + 1) = Nth(A, k + 1)
      BY <2>3, <3>1
    <3>. QED
      BY <1>4, <1>5, <3>1, <3>2
  <2>. QED
    BY <2>5, <2>6 DEF b, e
<1>. QED
  BY <1>6, <1>7

(* Where a segment starts, or none does, they begin them if they are the  *)
(* first ones.                                                             *)
LEMMA BeginsIsPrefix ==
  ASSUME NEW S, NEW data \in Seq(S), NEW toskip \in Seq(S),
         NEW i \in 1..(Len(data) + 1), NEW j \in 1..(Len(toskip) + 1), SkipSlashes(toskip, j) = j
  PROVE  Begins(data, toskip, i, j) <=> IsPrefix(SegmentsAt(toskip, j), SegmentsAt(data, i))
<1> DEFINE m == Len(data)
           n == Len(toskip)
           D == SegmentsAt(data, i)
           T == SegmentsAt(toskip, j)
           Q == Seq(S)
<1>0. m \in Nat /\ n \in Nat
  OBVIOUS
<1>1. T \in Seq(Q) /\ IF j = n + 1 THEN T = <<>> ELSE T # <<>>
  <2>1. T \in Seq(Q) /\ IF SkipSlashes(toskip, j) = n + 1 THEN T = <<>> ELSE T # <<>>
    BY SegmentsFacts
  <2>. QED
    BY <2>1
<1>2. D \in Seq(Q) /\ IF SkipSlashes(data, i) = m + 1 THEN D = <<>> ELSE D # <<>>
  BY SegmentsFacts
<1>3. SkipSlashes(data, i) \in i..(m + 1)
  BY SkipFacts
<1>4. Begins(data, toskip, i, j) <=>
         (j > n \/ (i <= m /\ IF T = <<>> THEN D = <<>> ELSE IsPrefix(T, D)))
  BY Zenon DEF Begins
<1> HIDE DEF m, n, D, T, Q
<1>5. IsPrefix(<<>>, D) /\ (IsPrefix(T, <<>>) => T = <<>>)
  BY <1>1, <1>2, PrefixEmpty
<1>6. j > n <=> T = <<>>
  BY <1>0, <1>1 DEF n
<1>7. i <= m \/ D = <<>>
  <2>1. ~(i <= m) => SkipSlashes(data, i) = m + 1
    BY <1>0, <1>3 DEF m
  <2>. QED
    BY <1>2, <2>1
<1>8. CASE T = <<>>
  BY <1>4, <1>5, <1>6, <1>8 DEF T, D
<1>9. CASE T # <<>>
  BY <1>4, <1>5, <1>6, <1>7, <1>9 DEF T, D
<1>. QED
  BY <1>8, <1>9

(* One turn of the loop compares two segments. *)
LEMMA BeginsStep ==
  ASSUME NEW S, NEW data \in Seq(S), NEW toskip \in Seq(S),
         NEW i \in 1..Len(data), NEW j \in 1..Len(toskip)
  PROVE  LET b1 == SkipSlashes(data, i)
             b2 == SkipSlashes(toskip, j)
             e1 == SegmentEnd(data, b1)
             j2 == SkipSlashes(toskip, SegmentEnd(toskip, b2))
         IN  /\ Begins(data, toskip, i, j) <=>
                  SegmentAt(data, b1) = SegmentAt(toskip, b2) /\ Begins(data, toskip, e1, j2)
             /\ SegmentAt(data, b1) = SegmentAt(toskip, b2) =>
                  IF SegmentsAt(toskip, j) = <<>>
                  THEN b1 = Len(data) + 1 /\ e1 = b1 /\ j2 = Len(toskip) + 1
                  ELSE /\ b1 # Len(data) + 1
                       /\ SegmentsAt(data, i) = <<SegmentAt(data, b1)>> \o SegmentsAt(data, e1)
                       /\ SegmentsAt(toskip, j) = <<SegmentAt(data, b1)>> \o SegmentsAt(toskip, j2)
<1> DEFINE m == Len(data)
           n == Len(toskip)
           b1 == SkipSlashes(data, i)
           b2 == SkipSlashes(toskip, j)
           e1 == SegmentEnd(data, b1)
           e2 == SegmentEnd(toskip, b2)
           j2 == SkipSlashes(toskip, e2)
           x == SegmentAt(data, b1)
           y == SegmentAt(toskip, b2)
           D == SegmentsAt(data, i)
           D2 == SegmentsAt(data, e1)
           T == SegmentsAt(toskip, j)
           T2 == SegmentsAt(toskip, j2)
           Q == Seq(S)
<1>0. m \in Nat /\ n \in Nat /\ i \in 1..(m + 1) /\ j \in 1..(n + 1) /\ i <= m /\ j <= n
  OBVIOUS
<1>1. /\ b1 \in i..(m + 1) /\ e1 \in b1..(m + 1) /\ x \in Q
      /\ IF b1 = m + 1 THEN e1 = b1 /\ x = <<>> ELSE x # <<>>
  BY <1>0, NextSegment
<1>2. /\ b2 \in j..(n + 1) /\ e2 \in b2..(n + 1) /\ y \in Q
      /\ IF b2 = n + 1 THEN e2 = b2 /\ y = <<>> ELSE y # <<>>
  BY <1>0, NextSegment
<1>3. IF b1 = m + 1 THEN D = <<>> ELSE D = <<x>> \o D2 /\ D # <<>>
  BY <1>0, SegmentsFacts
<1>4. IF b2 = n + 1 THEN T = <<>> ELSE T = <<y>> \o SegmentsAt(toskip, e2) /\ T # <<>>
  BY <1>0, SegmentsFacts
<1>5. e1 \in 1..(m + 1) /\ e2 \in 1..(n + 1)
  <2> HIDE DEF m, n, b1, b2, e1, e2
  <2>. QED
    BY <1>0, <1>1, <1>2
<1>6. /\ SegmentsAt(toskip, e2) = T2 /\ SegmentsAt(toskip, e2) \in Seq(Q)
      /\ IF j2 = n + 1 THEN T2 = <<>> ELSE T2 # <<>>
  <2> HIDE DEF e2
  <2>1. /\ SegmentsAt(toskip, e2) = T2 /\ SegmentsAt(toskip, e2) \in Seq(Q)
        /\ IF j2 = n + 1 THEN SegmentsAt(toskip, e2) = <<>> ELSE SegmentsAt(toskip, e2) # <<>>
    BY <1>5, SegmentsFacts
  <2>. QED
    BY <2>1
<1>7. D2 \in Seq(Q) /\ (e1 = m + 1 => D2 = <<>>)
  <2> HIDE DEF e1
  <2>1. D2 \in Seq(Q) /\ IF SkipSlashes(data, e1) = m + 1 THEN D2 = <<>> ELSE D2 # <<>>
    BY <1>5, SegmentsFacts
  <2>2. SkipSlashes(data, e1) \in e1..(m + 1)
    BY <1>5, SkipFacts
  <2> HIDE DEF m
  <2>3. e1 = m + 1 => SkipSlashes(data, e1) = m + 1
    BY <1>0, <2>2
  <2>. QED
    BY <2>1, <2>3
<1>8. j2 \in e2..(n + 1)
  <2> HIDE DEF e2
  <2>. QED
    BY <1>5, SkipFacts
<1>9. Begins(data, toskip, i, j) <=> IF T = <<>> THEN D = <<>> ELSE IsPrefix(T, D)
  <2>1. ~(j > n) /\ i <= m
    BY <1>0
  <2> HIDE DEF T, D, m, n
  <2>. QED
    BY <2>1, Zenon DEF Begins, T, D, m, n
<1>10. Begins(data, toskip, e1, j2) <=>
         (j2 > n \/ (e1 <= m /\ IF T2 = <<>> THEN D2 = <<>> ELSE IsPrefix(T2, D2)))
  BY Zenon DEF Begins
<1> HIDE DEF m, n, b1, b2, e1, e2, j2, x, y, D, D2, T, T2, Q
<1>11. Begins(data, toskip, e1, j2) <=> IsPrefix(T2, D2)
  <2>1. j2 \in 1..(n + 1)
    BY <1>0, <1>5, <1>8
  <2>2. SkipSlashes(toskip, j2) = j2
    BY <1>5, SkipTwice DEF j2, n
  <2>. QED
    BY <1>5, <2>1, <2>2, BeginsIsPrefix DEF m, n, D2, T2
<1>12. CASE b2 = n + 1
  <2>1. T = <<>> /\ y = <<>> /\ e2 = n + 1
    BY <1>2, <1>4, <1>12
  <2>2. j2 = n + 1 /\ j2 > n
    BY <1>0, <1>8, <2>1
  <2>3. Begins(data, toskip, e1, j2)
    BY <1>10, <2>2
  <2>4. x = y <=> D = <<>>
    BY <1>1, <1>3, <2>1
  <2>5. x = y => b1 = m + 1 /\ e1 = b1
    BY <1>1, <2>1
  <2>. QED
    BY <1>9, <2>1, <2>2, <2>3, <2>4, <2>5 DEF m, n, b1, b2, e1, e2, j2, x, y, D, D2, T, T2
<1>13. CASE b2 # n + 1 /\ b1 = m + 1
  <2>1. T # <<>> /\ D = <<>> /\ x # y
    BY <1>1, <1>2, <1>3, <1>4, <1>13
  <2>2. T = <<y>> \o T2
    BY <1>4, <1>6, <1>13
  <2>3. T2 \in Seq(Q)
    BY <1>6
  <2>4. T \in Seq(Q)
    BY <1>2, <2>2, <2>3, ConsFacts
  <2>5. ~IsPrefix(T, D)
    BY <2>1, <2>4, PrefixEmpty
  <2>. QED
    BY <1>9, <2>1, <2>5 DEF m, n, b1, b2, e1, e2, j2, x, y, D, D2, T, T2
<1>14. CASE b2 # n + 1 /\ b1 # m + 1
  <2>1. T # <<>> /\ T = <<y>> \o T2 /\ D = <<x>> \o D2
    BY <1>3, <1>4, <1>6, <1>14
  <2>2. IsPrefix(<<y>> \o T2, <<x>> \o D2) <=> (y = x /\ IsPrefix(T2, D2))
    <3>1. y \in Q /\ x \in Q /\ T2 \in Seq(Q) /\ D2 \in Seq(Q)
      BY <1>1, <1>2, <1>6, <1>7
    <3>. QED
      BY <3>1, PrefixCons, Zenon
  <2>3. Begins(data, toskip, i, j) <=> x = y /\ Begins(data, toskip, e1, j2)
    BY <1>9, <1>11, <2>1, <2>2
  <2>. QED
    BY <1>14, <2>1, <2>3 DEF m, n, b1, b2, e1, e2, j2, x, y, D, D2, T, T2
<1>. QED
  BY <1>12, <1>13, <1>14

(* What uriSkip() finds out from two positions on. *)
SkipMeans(data, toskip, v, i, j) ==
  /\ v \in -1..Len(data)
  /\ v >= 0 <=> Begins(data, toskip, i, j)
  /\ v >= 0 => SegmentsAt(data, i) = SegmentsAt(toskip, j) \o SegmentsAt(data, v + 1)

(* Every entry of the table says whether the segments of the one are the   *)
(* first ones of the other, and where they end.                            *)
LEMMA SkipTableMeans ==
  ASSUME NEW S, NEW data \in Seq(S), NEW toskip \in Seq(S)
  PROVE  LET h == CHOOSE f : SkipTable(data, toskip, f)
         IN  \A i \in 1..(Len(data) + 1), j \in 1..(Len(toskip) + 1) :
               SkipMeans(data, toskip, h[<<i, j>>], i, j)
<1> DEFINE m == Len(data)
           n == Len(toskip)
           D == Positions(data, toskip)
           b1(i) == SkipSlashes(data, i)
           b2(j) == SkipSlashes(toskip, j)
           e1(i) == SegmentEnd(data, b1(i))
           j2(j) == SkipSlashes(toskip, SegmentEnd(toskip, b2(j)))
           x(i) == SegmentAt(data, b1(i))
           y(j) == SegmentAt(toskip, b2(j))
           G(i, j) == IF Begins(data, toskip, i, j)
                      THEN After(data, i, Len(SegmentsAt(toskip, j))) ELSE -1
           g == [at \in D |-> G(at[1], at[2])]
           h == CHOOSE f : SkipTable(data, toskip, f)
           Turn(i, j, next) == IF j > n THEN b1(i) - 1
                               ELSE IF i > m THEN -1
                               ELSE IF x(i) = y(j) THEN next ELSE -1
<1>0. m \in Nat /\ n \in Nat
  OBVIOUS
<1>1. \A i \in 1..(m + 1) :
        /\ b1(i) \in i..(m + 1) /\ e1(i) \in b1(i)..(m + 1) /\ x(i) \in Seq(S)
        /\ IF b1(i) = m + 1 THEN e1(i) = b1(i) ELSE e1(i) > b1(i)
        /\ i <= m => e1(i) > i
  BY NextSegment
<1>2. \A j \in 1..(n + 1) : j2(j) \in j..(n + 1) /\ b2(j) \in j..(n + 1) /\ SkipSlashes(toskip, j2(j)) = j2(j)
  <2> SUFFICES ASSUME NEW j \in 1..(n + 1)
               PROVE  j2(j) \in j..(n + 1) /\ b2(j) \in j..(n + 1) /\ SkipSlashes(toskip, j2(j)) = j2(j)
    OBVIOUS
  <2> DEFINE e2 == SegmentEnd(toskip, b2(j))
  <2>1. b2(j) \in j..(n + 1) /\ e2 \in b2(j)..(n + 1)
    BY NextSegment
  <2>2. e2 \in 1..(n + 1) /\ e2 \in j..(n + 1)
    <3> HIDE DEF b2, e2
    <3>. QED
      BY <2>1
  <2> HIDE DEF e2
  <2>3. SkipSlashes(toskip, e2) \in e2..(n + 1) /\ SkipSlashes(toskip, SkipSlashes(toskip, e2)) = SkipSlashes(toskip, e2)
    BY <2>2, SkipFacts, SkipTwice
  <2>. QED
    BY <2>1, <2>2, <2>3 DEF e2
<1>3. \A i \in 1..m, j \in 1..n :
         /\ Begins(data, toskip, i, j) <=> x(i) = y(j) /\ Begins(data, toskip, e1(i), j2(j))
         /\ x(i) = y(j) =>
              IF SegmentsAt(toskip, j) = <<>>
              THEN b1(i) = m + 1 /\ e1(i) = b1(i) /\ j2(j) = n + 1
              ELSE /\ b1(i) # m + 1
                   /\ SegmentsAt(data, i) = <<x(i)>> \o SegmentsAt(data, e1(i))
                   /\ SegmentsAt(toskip, j) = <<x(i)>> \o SegmentsAt(toskip, j2(j))
  BY BeginsStep
<1>4. \A i \in 1..(m + 1), j \in 1..(n + 1) :
        /\ SegmentsAt(data, i) \in Seq(Seq(S)) /\ SegmentsAt(toskip, j) \in Seq(Seq(S))
        /\ SegmentsAt(data, b1(i)) = SegmentsAt(data, i)
        /\ IF b1(i) = m + 1 THEN SegmentsAt(data, i) = <<>> ELSE SegmentsAt(data, i) # <<>>
        /\ IF b2(j) = n + 1 THEN SegmentsAt(toskip, j) = <<>> ELSE SegmentsAt(toskip, j) # <<>>
  <2> SUFFICES ASSUME NEW i \in 1..(m + 1), NEW j \in 1..(n + 1)
               PROVE  /\ SegmentsAt(data, i) \in Seq(Seq(S)) /\ SegmentsAt(toskip, j) \in Seq(Seq(S))
                      /\ SegmentsAt(data, b1(i)) = SegmentsAt(data, i)
                      /\ IF b1(i) = m + 1 THEN SegmentsAt(data, i) = <<>> ELSE SegmentsAt(data, i) # <<>>
                      /\ IF b2(j) = n + 1 THEN SegmentsAt(toskip, j) = <<>> ELSE SegmentsAt(toskip, j) # <<>>
    OBVIOUS
  <2>1. /\ SegmentsAt(data, i) \in Seq(Seq(S)) /\ SegmentsAt(data, b1(i)) = SegmentsAt(data, i)
        /\ IF b1(i) = m + 1 THEN SegmentsAt(data, i) = <<>> ELSE SegmentsAt(data, i) # <<>>
    BY SegmentsFacts
  <2>2. /\ SegmentsAt(toskip, j) \in Seq(Seq(S))
        /\ IF b2(j) = n + 1 THEN SegmentsAt(toskip, j) = <<>> ELSE SegmentsAt(toskip, j) # <<>>
    BY SegmentsFacts
  <2>. QED
    BY <2>1, <2>2
<1>5. \A i \in 1..(m + 1) :
        /\ After(data, i, 0) = b1(i) - 1
        /\ b1(i) # m + 1 => \A k \in Nat : After(data, i, k + 1) = After(data, e1(i), k)
  BY AfterFacts
<1>6. \A i \in 1..(m + 1), j \in 1..(n + 1) : j > n \/ i > m =>
        (Begins(data, toskip, i, j) <=> j > n)
  <2> HIDE DEF m, n
  <2>. QED
    BY <1>0 DEF Begins, m, n
<1> HIDE DEF m, n, D, b1, b2, e1, j2, x, y
<1>7. \A i \in 1..(m + 1), j \in 1..(n + 1) : <<i, j>> \in D /\ g[<<i, j>>] = G(i, j)
  <2> SUFFICES ASSUME NEW i \in 1..(m + 1), NEW j \in 1..(n + 1)
               PROVE  <<i, j>> \in D /\ g[<<i, j>>] = G(i, j)
    OBVIOUS
  <2> DEFINE at == <<i, j>>
  <2>1. at \in D /\ at[1] = i /\ at[2] = j
    BY DEF D, Positions, m, n
  <2> HIDE DEF at, G
  <2>2. g[at] = G(at[1], at[2])
    BY <2>1
  <2>. QED
    BY <2>1, <2>2 DEF at
<1>8. \A at \in D : at[1] \in 1..(m + 1) /\ at[2] \in 1..(n + 1) /\ at = <<at[1], at[2]>>
  BY DEF D, Positions, m, n
<1>9. ASSUME NEW i \in 1..(m + 1), NEW j \in 1..(n + 1)
      PROVE  G(i, j) = Turn(i, j, G(e1(i), j2(j)))
  <2>0. b1(i) \in i..(m + 1) /\ e1(i) \in 1..(m + 1) /\ j2(j) \in 1..(n + 1) /\ b2(j) \in j..(n + 1)
    <3>1. b1(i) \in i..(m + 1) /\ e1(i) \in b1(i)..(m + 1)
      BY <1>1
    <3>2. j2(j) \in j..(n + 1) /\ b2(j) \in j..(n + 1)
      BY <1>2
    <3>. QED
      BY <3>1, <3>2
  <2>1. Len(<<>>) = 0
    OBVIOUS
  <2>2. CASE j > n
    <3>1. b2(j) = n + 1
      BY <1>0, <2>0, <2>2
    <3>2. SegmentsAt(toskip, j) = <<>>
      BY <1>4, <3>1
    <3>3. Begins(data, toskip, i, j)
      BY <1>6, <2>2
    <3>. QED
      BY <1>5, <2>1, <2>2, <3>2, <3>3
  <2>3. CASE ~(j > n) /\ i > m
    BY <1>6, <2>3
  <2>4. CASE ~(j > n) /\ ~(i > m)
    <3>1. i \in 1..m /\ j \in 1..n
      BY <1>0, <2>4
    <3>2. CASE x(i) # y(j)
      BY <1>3, <2>4, <3>1, <3>2
    <3>3. CASE x(i) = y(j) /\ ~Begins(data, toskip, e1(i), j2(j))
      BY <1>3, <2>4, <3>1, <3>3
    <3>4. CASE x(i) = y(j) /\ Begins(data, toskip, e1(i), j2(j))
      <4>1. Begins(data, toskip, i, j)
        BY <1>3, <3>1, <3>4
      <4>2. After(data, i, Len(SegmentsAt(toskip, j))) = After(data, e1(i), Len(SegmentsAt(toskip, j2(j))))
        <5>1. CASE SegmentsAt(toskip, j) = <<>>
          <6>1. b1(i) = m + 1 /\ e1(i) = m + 1 /\ j2(j) = n + 1
            BY <1>3, <3>1, <3>4, <5>1
          <6>2. n + 1 \in 1..(n + 1) /\ m + 1 \in 1..(m + 1)
            BY <1>0
          <6>3. b2(n + 1) = n + 1 /\ b1(m + 1) = m + 1
            <7>1. b2(n + 1) \in (n + 1)..(n + 1) /\ b1(m + 1) \in (m + 1)..(m + 1)
              BY <1>1, <1>2, <6>2
            <7>. QED
              BY <1>0, <7>1
          <6>4. SegmentsAt(toskip, n + 1) = <<>>
            BY <1>4, <6>2, <6>3
          <6>5. After(data, i, 0) = b1(i) - 1 /\ After(data, m + 1, 0) = b1(m + 1) - 1
            BY <1>5, <6>2
          <6>. QED
            BY <2>1, <5>1, <6>1, <6>3, <6>4, <6>5
        <5>2. CASE SegmentsAt(toskip, j) # <<>>
          <6>1. /\ b1(i) # m + 1
                /\ SegmentsAt(toskip, j) = <<x(i)>> \o SegmentsAt(toskip, j2(j))
            BY <1>3, <3>1, <3>4, <5>2
          <6>2. SegmentsAt(toskip, j2(j)) \in Seq(Seq(S)) /\ x(i) \in Seq(S)
            BY <1>1, <1>4, <2>0
          <6>3. Len(SegmentsAt(toskip, j)) = Len(SegmentsAt(toskip, j2(j))) + 1
            BY <6>1, <6>2, ConsFacts
          <6>4. Len(SegmentsAt(toskip, j2(j))) \in Nat
            BY <6>2
          <6>. QED
            BY <1>5, <6>1, <6>3, <6>4
        <5>. QED
          BY <5>1, <5>2
      <4>. QED
        BY <2>4, <3>4, <4>1, <4>2
    <3>. QED
      BY <3>2, <3>3, <3>4
  <2>. QED
    BY <2>2, <2>3, <2>4
<1>10. SkipTable(data, toskip, g)
  <2> HIDE DEF G
  <2>1. \A at \in D : g[at] = Turn(at[1], at[2], g[<<e1(at[1]), j2(at[2])>>])
    <3> SUFFICES ASSUME NEW at \in D
                 PROVE  g[at] = Turn(at[1], at[2], g[<<e1(at[1]), j2(at[2])>>])
      OBVIOUS
    <3> DEFINE i == at[1]
               j == at[2]
    <3>1. i \in 1..(m + 1) /\ j \in 1..(n + 1) /\ at = <<i, j>>
      BY <1>8
    <3> HIDE DEF i, j
    <3>2. e1(i) \in 1..(m + 1) /\ j2(j) \in 1..(n + 1)
      <4>1. b1(i) \in i..(m + 1) /\ e1(i) \in b1(i)..(m + 1) /\ j2(j) \in j..(n + 1)
        BY <1>1, <1>2, <3>1
      <4>. QED
        BY <3>1, <4>1
    <3>3. g[<<e1(i), j2(j)>>] = G(e1(i), j2(j)) /\ g[<<i, j>>] = G(i, j)
      BY <1>7, <3>1, <3>2
    <3>4. G(i, j) = Turn(i, j, G(e1(i), j2(j)))
      BY <1>9, <3>1
    <3> HIDE DEF g, Turn
    <3>. QED
      BY <3>1, <3>3, <3>4 DEF i, j
  <2>2. g = [at \in D |-> g[at]]
    BY Zenon
  <2>3. g = [at \in D |-> Turn(at[1], at[2], g[<<e1(at[1]), j2(at[2])>>])]
    <3> HIDE DEF g, Turn
    <3>. QED
      BY <2>1, <2>2, Zenon
  <2> HIDE DEF g
  <2>. QED
    BY <2>3, Zenon DEF SkipTable, SkipStep, Turn, D, b1, b2, e1, j2, x, y, m, n
<1> HIDE DEF g, G
<1>11. SkipTable(data, toskip, h)
  BY <1>10, Zenon
<1> HIDE DEF h
<1>12. \A i \in 1..(m + 1), j \in 1..(n + 1) :
         h[<<i, j>>] = Turn(i, j, h[<<e1(i), j2(j)>>])
  <2>1. \A at \in D : h[at] = Turn(at[1], at[2], h[<<e1(at[1]), j2(at[2])>>])
    BY <1>11, Zenon DEF SkipTable, SkipStep, Turn, D, b1, b2, e1, j2, x, y, m, n
  <2> HIDE DEF Turn
  <2> SUFFICES ASSUME NEW i \in 1..(m + 1), NEW j \in 1..(n + 1)
               PROVE  h[<<i, j>>] = Turn(i, j, h[<<e1(i), j2(j)>>])
    OBVIOUS
  <2> DEFINE at == <<i, j>>
  <2>2. at \in D /\ at[1] = i /\ at[2] = j
    BY <1>7
  <2> HIDE DEF at
  <2>3. h[at] = Turn(at[1], at[2], h[<<e1(at[1]), j2(at[2])>>])
    BY <2>1, <2>2
  <2>. QED
    BY <2>2, <2>3 DEF at
<1> DEFINE P == {at \in D : SkipMeans(data, toskip, h[at], at[1], at[2])}
<1>13. \A i \in 1..(m + 1), j \in 1..(n + 1) :
          <<i, j>> \in P <=> SkipMeans(data, toskip, h[<<i, j>>], i, j)
  <2> SUFFICES ASSUME NEW i \in 1..(m + 1), NEW j \in 1..(n + 1)
               PROVE  <<i, j>> \in P <=> SkipMeans(data, toskip, h[<<i, j>>], i, j)
    OBVIOUS
  <2> DEFINE at == <<i, j>>
  <2>1. at \in D /\ at[1] = i /\ at[2] = j
    BY <1>7
  <2> HIDE DEF at
  <2>2. at \in P <=> SkipMeans(data, toskip, h[at], at[1], at[2])
    BY <2>1
  <2> HIDE DEF P
  <2>. QED
    BY <2>1, <2>2 DEF at
<1> HIDE DEF P
<1>14. ASSUME NEW i \in 1..(m + 1), NEW j \in 1..(n + 1),
              \A c \in i..(m + 1), d \in j..(n + 1) : c > i \/ d > j => <<c, d>> \in P
       PROVE  <<i, j>> \in P
  <2> DEFINE v == h[<<i, j>>]
             w == h[<<e1(i), j2(j)>>]
  <2>0. /\ b1(i) \in i..(m + 1) /\ e1(i) \in i..(m + 1) /\ e1(i) \in 1..(m + 1)
        /\ j2(j) \in j..(n + 1) /\ j2(j) \in 1..(n + 1) /\ b2(j) \in j..(n + 1)
        /\ b1(i) \in 1..(m + 1)
    <3>1. b1(i) \in i..(m + 1) /\ e1(i) \in b1(i)..(m + 1)
      BY <1>1
    <3>2. j2(j) \in j..(n + 1) /\ b2(j) \in j..(n + 1)
      BY <1>2
    <3>. QED
      BY <3>1, <3>2
  <2>1. v = Turn(i, j, w)
    BY <1>12
  <2> HIDE DEF v, w
  <2>2. /\ SegmentsAt(data, i) \in Seq(Seq(S)) /\ SegmentsAt(toskip, j) \in Seq(Seq(S))
        /\ SegmentsAt(data, e1(i)) \in Seq(Seq(S)) /\ SegmentsAt(toskip, j2(j)) \in Seq(Seq(S))
    BY <1>4, <2>0
  <2>3. SkipMeans(data, toskip, v, i, j)
    <3>1. CASE j > n
      <4>1. b2(j) = n + 1
        BY <1>0, <2>0, <3>1
      <4>2. SegmentsAt(toskip, j) = <<>>
        BY <1>4, <4>1
      <4>3. Begins(data, toskip, i, j)
        BY <1>6, <3>1
      <4>4. v = b1(i) - 1
        BY <2>1, <3>1
      <4>5. v + 1 = b1(i) /\ v >= 0 /\ v \in -1..m
        BY <1>0, <2>0, <4>4
      <4>6. <<>> \o SegmentsAt(data, i) = SegmentsAt(data, i)
        BY <2>2
      <4>7. SegmentsAt(data, v + 1) = SegmentsAt(data, i)
        BY <1>4, <4>5
      <4>. QED
        BY <4>2, <4>3, <4>5, <4>6, <4>7 DEF SkipMeans, m
    <3>2. CASE ~(j > n) /\ i > m
      <4>1. ~Begins(data, toskip, i, j) /\ v = -1
        BY <1>6, <2>1, <3>2
      <4>2. v \in -1..m /\ ~(v >= 0)
        BY <1>0, <4>1
      <4>. QED
        BY <4>1, <4>2 DEF SkipMeans, m
    <3>3. CASE ~(j > n) /\ ~(i > m)
      <4>0. i \in 1..m /\ j \in 1..n
        BY <1>0, <3>3
      <4>1. CASE x(i) # y(j)
        <5>1. ~Begins(data, toskip, i, j) /\ v = -1
          BY <1>3, <2>1, <3>3, <4>0, <4>1
        <5>2. v \in -1..m /\ ~(v >= 0)
          BY <1>0, <5>1
        <5>. QED
          BY <5>1, <5>2 DEF SkipMeans, m
      <4>2. CASE x(i) = y(j)
        <5>1. v = w
          BY <2>1, <3>3, <4>2
        <5>2. e1(i) > i
          BY <1>1, <4>0
        <5>3. <<e1(i), j2(j)>> \in P
          BY <1>14, <2>0, <5>2
        <5>4. SkipMeans(data, toskip, w, e1(i), j2(j))
          BY <1>13, <2>0, <5>3 DEF w
        <5>5. Begins(data, toskip, i, j) <=> Begins(data, toskip, e1(i), j2(j))
          BY <1>3, <4>0, <4>2
        <5>6. v \in -1..m /\ (v >= 0 <=> Begins(data, toskip, i, j))
          BY <5>1, <5>4, <5>5 DEF SkipMeans, m
        <5>7. ASSUME v >= 0
              PROVE  SegmentsAt(data, i) = SegmentsAt(toskip, j) \o SegmentsAt(data, v + 1)
          <6> DEFINE R == SegmentsAt(data, v + 1)
          <6>1. SegmentsAt(data, e1(i)) = SegmentsAt(toskip, j2(j)) \o R
            BY <5>1, <5>4, <5>7 DEF SkipMeans
          <6>2. v + 1 \in 1..(m + 1)
            BY <1>0, <5>6, <5>7
          <6>3. R \in Seq(Seq(S))
            BY <1>4, <6>2
          <6> HIDE DEF R
          <6>4. CASE SegmentsAt(toskip, j) = <<>>
            <7>1. b1(i) = m + 1 /\ e1(i) = m + 1 /\ j2(j) = n + 1
              BY <1>3, <4>0, <4>2, <6>4
            <7>2. m + 1 \in 1..(m + 1) /\ n + 1 \in 1..(n + 1)
              BY <1>0
            <7>3. SegmentsAt(data, i) = <<>> /\ SegmentsAt(data, b1(i)) = SegmentsAt(data, i)
              BY <1>4, <7>1
            <7>4. SegmentsAt(toskip, n + 1) = <<>>
              <8>1. b2(n + 1) \in (n + 1)..(n + 1)
                BY <1>2, <7>2
              <8>2. b2(n + 1) = n + 1
                BY <1>0, <8>1
              <8>. QED
                BY <1>4, <7>2, <8>2
            <7>5. <<>> \o R = R
              BY <6>3
            <7>. QED
              BY <6>1, <6>4, <7>1, <7>3, <7>4, <7>5 DEF R
          <6>5. CASE SegmentsAt(toskip, j) # <<>>
            <7>1. /\ SegmentsAt(data, i) = <<x(i)>> \o SegmentsAt(data, e1(i))
                  /\ SegmentsAt(toskip, j) = <<x(i)>> \o SegmentsAt(toskip, j2(j))
              BY <1>3, <4>0, <4>2, <6>5
            <7>2. <<x(i)>> \in Seq(Seq(S))
              BY <1>1
            <7> DEFINE A == SegmentsAt(toskip, j2(j))
                       X == <<x(i)>>
                       Q == Seq(S)
            <7>3. A \in Seq(Q) /\ X \in Seq(Q) /\ R \in Seq(Q)
              BY <2>2, <6>3, <7>2
            <7> HIDE DEF A, X, Q
            <7>4. X \o (A \o R) = (X \o A) \o R
              BY <7>3, ConcatAssociative
            <7>. QED
              BY <6>1, <7>1, <7>4 DEF A, X, R
          <6>. QED
            BY <6>4, <6>5 DEF R
        <5>. QED
          BY <5>6, <5>7 DEF SkipMeans, m
      <4>. QED
        BY <4>1, <4>2
    <3>. QED
      BY <3>1, <3>2, <3>3
  <2>. QED
    BY <1>13, <2>3 DEF v
<1>15. \A i \in 1..(m + 1), j \in 1..(n + 1) : <<i, j>> \in P
  BY <1>0, <1>14, PairInduction
<1>. QED
  BY <1>13, <1>15 DEF h, m, n

(* When uriSkip() finds one URI at the beginning of another one. *)
CanSkip(s, r, check) ==
  /\ IsPrefix(Segments(r), Segments(s))
  /\ check => /\ LeadingSlash(s) = LeadingSlash(r)
              /\ LeadingSlash(r) /\ Segments(r) = <<>> => Segments(s) = <<>>

(* So uriSkip() skips the segments of one URI from another one. *)
LEMMA UriSkipIs ==
  ASSUME NEW S, NEW s \in Seq(S), NEW r \in Seq(S), NEW check \in BOOLEAN
  PROVE  LET n == uriSkip(s, r, check)
         IN  /\ n \in -1..Len(s)
             /\ n >= 0 <=> CanSkip(s, r, check)
             /\ n >= 0 => /\ Segments(r) \in Seq(Seq(S))
                          /\ Segments(From(s, n + 1)) \in Seq(Seq(S))
                          /\ Segments(s) = Segments(r) \o Segments(From(s, n + 1))
                          /\ splitString(From(s, n + 1), "/", TRUE) = Segments(From(s, n + 1))
<1> DEFINE m == Len(s)
           k == Len(r)
           h == CHOOSE f : SkipTable(s, r, f)
           j0 == SkipSlashes(r, 1)
           n == uriSkip(s, r, check)
           ok == CanSkip(s, r, check)
<1>0. m \in Nat /\ k \in Nat /\ 1 \in 1..(m + 1) /\ 1 \in 1..(k + 1)
  OBVIOUS
<1>1. n = IF ~check THEN h[<<1, j0>>] ELSE IF LeadingSlash(s) = LeadingSlash(r) THEN h[<<1, 1>>] ELSE -1
  BY UriSkipTable, Zenon
<1>2. \A i \in 1..(m + 1), j \in 1..(k + 1) : SkipMeans(s, r, h[<<i, j>>], i, j)
  BY SkipTableMeans
<1>3. /\ j0 \in 1..(k + 1) /\ SkipSlashes(r, j0) = j0
  BY <1>0, SkipFacts, SkipTwice
<1>4. /\ Segments(s) = SegmentsAt(s, 1) /\ Segments(r) = SegmentsAt(r, 1)
      /\ SegmentsAt(r, j0) = SegmentsAt(r, 1)
      /\ Segments(s) \in Seq(Seq(S)) /\ Segments(r) \in Seq(Seq(S))
  <2>1. Segments(s) = SegmentsAt(s, 1) /\ Segments(r) = SegmentsAt(r, 1)
    BY SegmentsAreAll
  <2>2. SegmentsAt(r, j0) = SegmentsAt(r, 1) /\ SegmentsAt(r, 1) \in Seq(Seq(S))
    BY <1>0, SegmentsFacts
  <2>3. SegmentsAt(s, 1) \in Seq(Seq(S))
    BY <1>0, SegmentsFacts
  <2>. QED
    BY <2>1, <2>2, <2>3
<1> HIDE DEF h, n, j0
<1>5. ASSUME NEW j \in 1..(k + 1), n = h[<<1, j>>], SegmentsAt(r, j) = SegmentsAt(r, 1)
      PROVE  /\ n \in -1..m
             /\ n >= 0 <=> Begins(s, r, 1, j)
             /\ n >= 0 => Segments(s) = Segments(r) \o SegmentsAt(s, n + 1)
  <2>1. SkipMeans(s, r, n, 1, j)
    BY <1>0, <1>2, <1>5
  <2>. QED
    BY <1>4, <1>5, <2>1, Zenon DEF SkipMeans
<1>6. /\ n \in -1..m
      /\ n >= 0 <=> ok
      /\ n >= 0 => Segments(s) = Segments(r) \o SegmentsAt(s, n + 1)
  <2>1. CASE ~check
    <3>1. n = h[<<1, j0>>]
      BY <1>1, <2>1
    <3>2. /\ n \in -1..m /\ (n >= 0 <=> Begins(s, r, 1, j0))
          /\ n >= 0 => Segments(s) = Segments(r) \o SegmentsAt(s, n + 1)
      BY <1>3, <1>4, <1>5, <3>1
    <3>3. Begins(s, r, 1, j0) <=> IsPrefix(SegmentsAt(r, j0), SegmentsAt(s, 1))
      BY <1>0, <1>3, BeginsIsPrefix
    <3>4. Begins(s, r, 1, j0) <=> IsPrefix(Segments(r), Segments(s))
      BY <1>4, <3>3, Zenon
    <3>. QED
      BY <2>1, <3>2, <3>4 DEF CanSkip
  <2>2. CASE check /\ LeadingSlash(s) # LeadingSlash(r)
    <3>1. n = -1
      BY <1>1, <2>2
    <3>2. n \in -1..m /\ ~(n >= 0)
      BY <1>0, <3>1
    <3>. QED
      BY <2>2, <3>2 DEF CanSkip
  <2>3. CASE check /\ LeadingSlash(s) = LeadingSlash(r)
    <3>1. n = h[<<1, 1>>]
      BY <1>1, <2>3
    <3>2. /\ n \in -1..m /\ (n >= 0 <=> Begins(s, r, 1, 1))
          /\ n >= 0 => Segments(s) = Segments(r) \o SegmentsAt(s, n + 1)
      BY <1>0, <1>5, <3>1
    <3>3. Begins(s, r, 1, 1) <=>
            (1 > k \/ (1 <= m /\ IF Segments(r) = <<>> THEN Segments(s) = <<>>
                                  ELSE IsPrefix(Segments(r), Segments(s))))
      <4>1. Begins(s, r, 1, 1) <=>
            (1 > k \/ (1 <= m /\ IF SegmentsAt(r, 1) = <<>> THEN SegmentsAt(s, 1) = <<>>
                                  ELSE IsPrefix(SegmentsAt(r, 1), SegmentsAt(s, 1))))
        BY Zenon DEF Begins
      <4>. QED
        BY <1>4, <4>1
    <3>4. IsPrefix(<<>>, Segments(s)) /\ (IsPrefix(Segments(r), <<>>) => Segments(r) = <<>>)
      BY <1>4, PrefixEmpty
    <3>5. ASSUME r = <<>>
          PROVE  1 > k /\ Segments(r) = <<>> /\ ~LeadingSlash(r)
      <4>1. k = 0
        BY <3>5
      <4>2. j0 \in 1..1
        BY <1>3, <4>1
      <4>3. IF j0 = k + 1 THEN SegmentsAt(r, 1) = <<>> ELSE SegmentsAt(r, 1) # <<>>
        BY <1>0, SegmentsFacts DEF j0
      <4>. QED
        BY <1>4, <3>5, <4>1, <4>2, <4>3 DEF LeadingSlash
    <3>6. ASSUME r # <<>>
          PROVE  ~(1 > k) /\ (Segments(r) = <<>> => LeadingSlash(r))
      <4>1. k # 0
        BY <3>6, EmptySeq
      <4>2. ASSUME ~LeadingSlash(r)
            PROVE  Segments(r) # <<>>
        <5>1. r[1] # "/"
          BY <3>6, <4>2 DEF LeadingSlash
        <5>2. 1 \in 1..(k + 1) /\ \A i \in 1..(1 - 1) : r[i] = "/"
          BY <1>0
        <5>3. j0 = 1
          <6>1. SkipSlashes(r, 1) = 1
            BY <5>1, <5>2, SkipIs
          <6>. QED
            BY <6>1 DEF j0
        <5>4. IF j0 = k + 1 THEN SegmentsAt(r, 1) = <<>> ELSE SegmentsAt(r, 1) # <<>>
          BY <1>0, SegmentsFacts DEF j0
        <5>. QED
          BY <1>0, <1>4, <4>1, <5>3, <5>4
      <4>. QED
        BY <1>0, <4>1, <4>2
    <3>7. Segments(s) # <<>> \/ LeadingSlash(s) => 1 <= m
      <4>1. SUFFICES ASSUME ~(1 <= m)
                     PROVE  Segments(s) = <<>> /\ ~LeadingSlash(s)
        OBVIOUS
      <4>2. m = 0
        BY <1>0, <4>1
      <4>3. s = <<>>
        BY <4>2, EmptySeq
      <4>4. SkipSlashes(s, 1) \in 1..(m + 1)
        BY <1>0, SkipFacts
      <4>5. SkipSlashes(s, 1) = m + 1
        BY <4>2, <4>4
      <4>6. IF SkipSlashes(s, 1) = m + 1 THEN SegmentsAt(s, 1) = <<>> ELSE SegmentsAt(s, 1) # <<>>
        BY <1>0, SegmentsFacts
      <4>. QED
        BY <1>4, <4>3, <4>5, <4>6 DEF LeadingSlash
    <3>8. Begins(s, r, 1, 1) <=> ok
      <4> HIDE DEF m, k
      <4>1. CASE r = <<>>
        BY <2>3, <3>3, <3>4, <3>5, <4>1 DEF CanSkip
      <4>2. CASE r # <<>> /\ Segments(r) = <<>>
        BY <2>3, <3>3, <3>4, <3>6, <3>7, <4>2 DEF CanSkip
      <4>3. CASE r # <<>> /\ Segments(r) # <<>>
        BY <2>3, <3>3, <3>4, <3>6, <3>7, <4>3 DEF CanSkip
      <4>. QED
        BY <4>1, <4>2, <4>3
    <3> HIDE DEF ok
    <3>. QED
      BY <3>2, <3>8
  <2>. QED
    BY <2>1, <2>2, <2>3
<1>7. ASSUME n >= 0
      PROVE  /\ SegmentsAt(s, n + 1) = Segments(From(s, n + 1))
             /\ Segments(From(s, n + 1)) \in Seq(Seq(S))
             /\ splitString(From(s, n + 1), "/", TRUE) = Segments(From(s, n + 1))
  <2>1. n + 1 \in 1..(m + 1)
    BY <1>0, <1>6, <1>7
  <2>2. From(s, n + 1) \in Seq(S) /\ Segments(From(s, n + 1)) = SegmentsAt(s, n + 1)
    BY <2>1, SegmentsOfRest
  <2>3. SegmentsAt(s, n + 1) \in Seq(Seq(S))
    BY <2>1, SegmentsFacts
  <2>. QED
    BY <2>2, <2>3, SplitStringIs
<1> HIDE DEF ok
<1>8. /\ n \in -1..m /\ (n >= 0 <=> ok)
      /\ n >= 0 => /\ Segments(r) \in Seq(Seq(S))
                   /\ Segments(From(s, n + 1)) \in Seq(Seq(S))
                   /\ Segments(s) = Segments(r) \o Segments(From(s, n + 1))
                   /\ splitString(From(s, n + 1), "/", TRUE) = Segments(From(s, n + 1))
  BY <1>4, <1>6, <1>7
<1>. QED
  BY <1>8 DEF n, ok

-----------------------------------------------------------------------------
(* The state: a URI and a root, both of them strings.                      *)

Strings ==
  /\ uri \in Seq(Characters) /\ Len(uri) <= MaxUri
  /\ root \in Seq(Characters) /\ Len(root) <= MaxRoot

(* The empty strings are strings that are short enough. *)
LEMMA StringsStart == Init => Strings
<1>1. <<>> \in Seq(Characters) /\ Len(<<>>) = 0
  OBVIOUS
<1>. QED
  BY <1>1, UriMatchingAssumption DEF Init, Strings

(* A string with a character more is one, and is not too long. *)
LEMMA StringsStep == Strings /\ [Next]_<<uri, root>> => Strings'
<1> SUFFICES ASSUME Strings, [Next]_<<uri, root>>
             PROVE  Strings'
  OBVIOUS
<1>0. /\ uri \in Seq(Characters) /\ root \in Seq(Characters) /\ Len(uri) \in Nat /\ Len(root) \in Nat
      /\ MaxUri \in Nat /\ MaxRoot \in Nat
  BY UriMatchingAssumption DEF Strings
<1>1. CASE ExtendUri
  <2>1. PICK c \in Characters : uri' = Append(uri, c)
    BY <1>1 DEF ExtendUri
  <2>2. uri' \in Seq(Characters) /\ Len(uri') = Len(uri) + 1
    BY <1>0, <2>1, AppendProperties
  <2>. QED
    BY <1>0, <1>1, <2>2 DEF ExtendUri, Strings
<1>2. CASE ExtendRoot
  <2>1. PICK c \in Characters : root' = Append(root, c)
    BY <1>2 DEF ExtendRoot
  <2>2. root' \in Seq(Characters) /\ Len(root') = Len(root) + 1
    BY <1>0, <2>1, AppendProperties
  <2>. QED
    BY <1>0, <1>2, <2>2 DEF ExtendRoot, Strings
<1>3. CASE UNCHANGED <<uri, root>>
  BY <1>3 DEF Strings
<1>. QED
  BY <1>1, <1>2, <1>3 DEF Next

(* The strings of the instance keep their type, on which the lemmas about  *)
(* StringUtils and Matching rest.                                          *)
LEMMA StringsStay == Spec => []Strings
  BY StringsStart, StringsStep, PTL DEF Spec

(* uriEquals() of StringUtils.cpp compares what two URIs mean: it holds    *)
(* iff both have the same segments and, if it is asked to look, both or    *)
(* neither begin with a slash. Slashes that are repeated or stand at the   *)
(* end are never significant.                                              *)
THEOREM UriEqualsProved == Spec => []UriEqualsComparesSegments
<1>1. Strings => UriEqualsComparesSegments
  <2> SUFFICES ASSUME Strings, NEW check \in BOOLEAN
               PROVE  uriEquals(uri, root, check) <=>
                        /\ Segments(uri) = Segments(root)
                        /\ check => LeadingSlash(uri) = LeadingSlash(root)
    BY Zenon DEF UriEqualsComparesSegments
  <2>1. uri \in Seq(Characters) /\ root \in Seq(Characters)
    BY DEF Strings
  <2>. QED
    BY <2>1, UriEqualsIs, Zenon
<1>. QED
  BY <1>1, StringsStay, PTL

(* uriSkip() of StringUtils.cpp succeeds iff the segments of a context     *)
(* root are the first ones of the URI, and what is left behind the         *)
(* position that it returns has exactly the other segments: these are the  *)
(* path IDs that createPathIDListFromRequest() of                          *)
(* C2SRestMatchMethodToRequest.cpp gives to the methods of a resource.     *)
THEOREM UriSkipProved == Spec => []UriSkipLeavesThePath
<1>1. Strings => UriSkipLeavesThePath
  <2> SUFFICES ASSUME Strings
               PROVE  UriSkipLeavesThePath
    OBVIOUS
  <2> DEFINE n(check) == uriSkip(uri, root, check)
             begins(check) == /\ IsPrefix(Segments(root), Segments(uri))
                              /\ check =>
                                   /\ LeadingSlash(uri) = LeadingSlash(root)
                                   /\ LeadingSlash(root) /\ Segments(root) = <<>> => Segments(uri) = <<>>
  <2>1. uri \in Seq(Characters) /\ root \in Seq(Characters)
    BY DEF Strings
  <2>2. ASSUME NEW check \in BOOLEAN
        PROVE  /\ n(check) >= 0 <=> begins(check)
               /\ n(check) >= 0 => splitString(From(uri, n(check) + 1), "/", TRUE)
                                     = SegmentsFrom(uri, Len(Segments(root)) + 1)
    <3> DEFINE rest == Segments(From(uri, n(check) + 1))
               Q == Seq(Characters)
    <3>1. /\ n(check) >= 0 <=> begins(check)
          /\ n(check) >= 0 => /\ Segments(root) \in Seq(Q) /\ rest \in Seq(Q)
                              /\ Segments(uri) = Segments(root) \o rest
                              /\ splitString(From(uri, n(check) + 1), "/", TRUE) = rest
      <4>1. n(check) >= 0 <=> CanSkip(uri, root, check)
        BY <2>1, UriSkipIs
      <4>2. CanSkip(uri, root, check) <=> begins(check)
        BY Zenon DEF CanSkip
      <4>3. n(check) >= 0 => /\ Segments(root) \in Seq(Q) /\ rest \in Seq(Q)
                             /\ Segments(uri) = Segments(root) \o rest
                             /\ splitString(From(uri, n(check) + 1), "/", TRUE) = rest
        BY <2>1, UriSkipIs
      <4>. QED
        BY <4>1, <4>2, <4>3, Zenon
    <3> HIDE DEF n, begins, rest, Q
    <3>2. ASSUME n(check) >= 0
          PROVE  rest = SegmentsFrom(uri, Len(Segments(root)) + 1)
      <4>1. SubSeq(Segments(root) \o rest, Len(Segments(root)) + 1, Len(Segments(root) \o rest)) = rest
        BY <3>1, <3>2, TakeAndDrop
      <4>. QED
        BY <3>1, <3>2, <4>1 DEF SegmentsFrom
    <3>. QED
      BY <3>1, <3>2 DEF rest
  <2>. QED
    BY <2>2, Zenon DEF UriSkipLeavesThePath
<1>. QED
  BY <1>1, StringsStay, PTL

-----------------------------------------------------------------------------
(* Which of two methods is closer to a request.                            *)

Elements == {PathSegment(<<c>>) : c \in Characters \ {"/"}} \cup {PathParameter(<<"x">>, "string")}

(* A segment of a path is an ID or a parameter, and a parameter of type    *)
(* string takes whatever stands in its place.                              *)
LEMMA ElementFacts ==
  ASSUME NEW x \in Elements
  PROVE  /\ x.segmentType \in {"ID", "Parameter"}
         /\ x.segmentType = "Parameter" => \A id : isValidPathID(x, id)
<1>1. CASE x \in {PathSegment(<<c>>) : c \in Characters \ {"/"}}
  <2>1. PICK c \in Characters \ {"/"} : x = PathSegment(<<c>>)
    BY <1>1
  <2>2. x.segmentType = "ID"
    BY <2>1 DEF PathSegment
  <2>. QED
    BY <2>2
<1>2. CASE x = PathParameter(<<"x">>, "string")
  <2>1. x.segmentType = "Parameter" /\ x.valueType = "string"
    BY <1>2 DEF PathParameter
  <2>. QED
    BY <2>1 DEF isValidPathID, isPossibleToConvert
<1>. QED
  BY <1>1, <1>2 DEF Elements

(* The paths are lists of such segments. *)
LEMMA PathFacts ==
  ASSUME NEW p \in Paths
  PROVE  /\ p \in Seq(Elements) /\ Len(p) \in Nat /\ DOMAIN p = 1..Len(p)
         /\ \A i \in 1..Len(p) : p[i] \in Elements
<1>1. Paths = UNION {[1..m -> Elements] : m \in 0..MaxPath}
  BY Zenon DEF Paths, BoundedSeq, SeqOf, Elements
<1>2. PICK m \in 0..MaxPath : p \in [1..m -> Elements]
  BY <1>1
<1>3. m \in Nat
  BY UriMatchingAssumption
<1>4. p \in Seq(Elements) /\ Len(p) = m
  BY <1>2, <1>3, FunctionIsSeq
<1>. QED
  BY <1>2, <1>3, <1>4

Late(p) ==
  {pair \in (1..Len(p)) \X (1..Len(p)) : p[pair[1]].segmentType = "Parameter" /\ pair[1] <= pair[2]}

(* Of two paths that match, the one that names more is closer. *)
LEMMA MoreSpecificIsCloser ==
  ASSUME NEW p \in Paths, NEW q \in Paths, NEW ids, MoreSpecific(p, q),
         getDistanceToPathIDs(p, ids) >= 0
  PROVE  LET dp == getDistanceToPathIDs(p, ids)
             dq == getDistanceToPathIDs(q, ids)
         IN  dp \in Nat /\ dq \in Nat /\ dp < dq
<1> DEFINE n == Len(p)
<1>0. n \in Nat /\ Len(q) = n /\ DOMAIN p = 1..n
  BY PathFacts DEF MoreSpecific
<1>1. /\ \A i \in 1..n : p[i] \in Elements /\ q[i] \in Elements
      /\ \A i \in 1..n : q[i] = p[i] \/ q[i].segmentType = "Parameter"
  BY <1>0, PathFacts DEF MoreSpecific
<1>2. PICK k \in 1..n : p[k].segmentType = "ID" /\ q[k].segmentType = "Parameter"
  BY <1>0 DEF MoreSpecific
<1>3. /\ Len(ids) = n
      /\ \A i \in 1..n : isValidPathID(p[i], ids[i])
      /\ getDistanceToPathIDs(p, ids) = Cardinality(Late(p))
  <2>1. ~(-1 >= 0)
    OBVIOUS
  <2>2. ~(Len(ids) # Len(p) \/ \E i \in DOMAIN p : ~isValidPathID(p[i], ids[i]))
    BY <2>1, Zenon DEF getDistanceToPathIDs
  <2>3. getDistanceToPathIDs(p, ids) = Cardinality(Late(p))
    BY <2>2, Zenon DEF getDistanceToPathIDs, Late
  <2>. QED
    BY <1>0, <2>2, <2>3
<1>4. \A i \in 1..n : isValidPathID(q[i], ids[i])
  <2> SUFFICES ASSUME NEW i \in 1..n
               PROVE  isValidPathID(q[i], ids[i])
    OBVIOUS
  <2>1. CASE q[i] = p[i]
    BY <1>3, <2>1
  <2>2. CASE q[i].segmentType = "Parameter"
    BY <1>1, <2>2, ElementFacts
  <2>. QED
    BY <1>1, <2>1, <2>2
<1>5. getDistanceToPathIDs(q, ids) = Cardinality(Late(q))
  <2>1. DOMAIN q = 1..n
    BY <1>0, PathFacts
  <2>2. ~(Len(ids) # Len(q) \/ \E i \in DOMAIN q : ~isValidPathID(q[i], ids[i]))
    BY <1>0, <1>3, <1>4, <2>1
  <2>. QED
    BY <2>2, Zenon DEF getDistanceToPathIDs, Late
<1> HIDE DEF n
<1>6. Late(p) \subseteq Late(q) /\ <<k, k>> \in Late(q) /\ <<k, k>> \notin Late(p)
  <2>1. \A i \in 1..n : p[i].segmentType = "Parameter" => q[i].segmentType = "Parameter"
    BY <1>1
  <2>2. Late(p) \subseteq Late(q)
    BY <1>0, <2>1 DEF Late, n
  <2>3. <<k, k>> \in Late(q)
    BY <1>0, <1>2 DEF Late
  <2>4. <<k, k>> \notin Late(p)
    BY <1>2 DEF Late
  <2>. QED
    BY <2>2, <2>3, <2>4
<1>7. IsFiniteSet(Late(q))
  <2>1. IsFiniteSet((1..n) \X (1..n))
    <3>1. IsFiniteSet(1..n)
      BY <1>0, FS_Interval
    <3>. QED
      BY <3>1, FS_Product
  <2>2. Late(q) \subseteq (1..n) \X (1..n)
    BY <1>0 DEF Late
  <2>. QED
    BY <2>1, <2>2, FS_Subset
<1>8. /\ IsFiniteSet(Late(p)) /\ Cardinality(Late(p)) <= Cardinality(Late(q))
      /\ Cardinality(Late(p)) # Cardinality(Late(q))
  BY <1>6, <1>7, FS_Subset
<1>9. Cardinality(Late(p)) \in Nat /\ Cardinality(Late(q)) \in Nat
  BY <1>7, <1>8, FS_CardinalityType
<1>. QED
  BY <1>3, <1>5, <1>8, <1>9

(* The closer of two methods is taken. *)
LEMMA CloserIsTaken ==
  ASSUME NEW distance \in [{1, 2} -> Nat], NEW methods, DOMAIN methods = {1, 2},
         NEW type, methods[1].methodType = type, methods[2].methodType = type,
         NEW k \in {1, 2}, \A j \in {1, 2} : j # k => distance[k] < distance[j]
  PROVE  closestOf(methods, distance, type) = MatchFound(k)
<1>1. {i \in DOMAIN methods : distance[i] >= 0} = {1, 2}
  OBVIOUS
<1>2. {i \in {1, 2} : methods[i].methodType = type} = {1, 2}
  OBVIOUS
<1>3. ~(\E i, j \in {1, 2} : i # j /\ distance[i] = distance[j])
  OBVIOUS
<1>4. closestOf(methods, distance, type) =
        IF \E i, j \in {1, 2} : i # j /\ distance[i] = distance[j]
        THEN MatchFails(InternalServerError)
        ELSE IF {1, 2} # {} THEN MatchFound(getPrototypeClosestToRequest(distance, {1, 2}))
        ELSE MatchFails(IF {1, 2} # {} THEN MethodNotAllowed ELSE NotFound)
  BY <1>1, <1>2, Zenon DEF closestOf
<1>5. closestOf(methods, distance, type) = MatchFound(getPrototypeClosestToRequest(distance, {1, 2}))
  BY <1>3, <1>4, Zenon
<1>6. getPrototypeClosestToRequest(distance, {1, 2}) = k
  BY DEF getPrototypeClosestToRequest
<1>. QED
  BY <1>5, <1>6, Zenon

(* Of two methods of a resource that both match a request, where one has   *)
(* an ID wherever the other one has a parameter,                           *)
(* getPrototypeWithBestMatch() of C2SRestMatchMethodToRequest.cpp finds    *)
(* the more specific one, whichever of them was registered first.          *)
THEOREM MoreSpecificProved == Spec => []MoreSpecificWins
<1>1. Strings => MoreSpecificWins
  <2> SUFFICES ASSUME Strings, root = <<>>, NEW p \in Paths, NEW q \in Paths, MoreSpecific(p, q),
                      getDistanceToPathIDs(p, Segments(uri)) >= 0
               PROVE  BestOf(p, q) = MatchFound(1) /\ BestOf(q, p) = MatchFound(2)
    BY Zenon DEF MoreSpecificWins
  <2> DEFINE n == uriSkip(uri, <<>>, FALSE)
             ids == Segments(uri)
             rest == From(uri, n + 1)
             d(x) == getDistanceToPathIDs(x, ids)
  <2>1. uri \in Seq(Characters) /\ <<>> \in Seq(Characters)
    BY DEF Strings
  <2>2. Segments(<<>>) = <<>>
    BY EmptyHasNone
  <2>3. ids \in Seq(Seq(Characters))
    BY <2>1, SegmentsListed
  <2>4. n >= 0 /\ splitString(rest, "/", TRUE) = ids
    <3>1. IsPrefix(<<>>, ids)
      BY <2>3, PrefixEmpty
    <3>2. CanSkip(uri, <<>>, FALSE)
      BY <2>2, <3>1 DEF CanSkip
    <3>3. n >= 0
      BY <2>1, <3>2, UriSkipIs
    <3>4. /\ Segments(rest) \in Seq(Seq(Characters))
          /\ ids = Segments(<<>>) \o Segments(rest)
          /\ splitString(rest, "/", TRUE) = Segments(rest)
      BY <2>1, <3>3, UriSkipIs
    <3> HIDE DEF ids, rest
    <3>5. <<>> \o Segments(rest) = Segments(rest)
      BY <3>4
    <3>. QED
      BY <2>2, <3>3, <3>4, <3>5
  <2>5. d(p) \in Nat /\ d(q) \in Nat /\ d(p) < d(q)
    BY MoreSpecificIsCloser
  <2>6. ASSUME NEW x \in Paths, NEW y \in Paths
        PROVE  BestOf(x, y) = closestOf(<<Get(x), Get(y)>>, [i \in {1, 2} |-> IF i = 1 THEN d(x) ELSE d(y)], "GET")
    <3> DEFINE ms == <<Get(x), Get(y)>>
    <3>1. ms # <<>> /\ DOMAIN ms = {1, 2} /\ ms[1].path = x /\ ms[2].path = y
      BY DEF Get
    <3>2. pathIDList(uri, <<>>) = ids
      BY <2>4 DEF pathIDList
    <3> HIDE DEF ms, ids, d, n
    <3>3. BestOf(x, y) = closestOf(ms, distances(ms, pathIDList(uri, <<>>)), "GET")
      <4>1. ~(n < 0)
        <5>1. n \in -1..Len(uri)
          BY <2>1, UriSkipIs DEF n
        <5>. QED
          BY <2>1, <2>4, <5>1
      <4>. QED
        BY <3>1, <4>1, Zenon DEF BestOf, getPrototypeWithBestMatch, ms, n
    <3>4. distances(ms, ids) = [i \in {1, 2} |-> getDistanceToPathIDs(ms[i].path, ids)]
      BY <3>1, Zenon DEF distances
    <3>5. \A i \in {1, 2} : getDistanceToPathIDs(ms[i].path, ids) = IF i = 1 THEN d(x) ELSE d(y)
      BY <3>1 DEF d
    <3>6. distances(ms, ids) = [i \in {1, 2} |-> IF i = 1 THEN d(x) ELSE d(y)]
      BY <3>4, <3>5, Zenon
    <3>. QED
      BY <3>2, <3>3, <3>6 DEF ms
  <2> HIDE DEF d
  <2>7. ASSUME NEW x, NEW y
        PROVE  /\ DOMAIN <<Get(x), Get(y)>> = {1, 2}
               /\ <<Get(x), Get(y)>>[1].methodType = "GET"
               /\ <<Get(x), Get(y)>>[2].methodType = "GET"
    BY DEF Get
  <2>8. BestOf(p, q) = MatchFound(1)
    <3> DEFINE f == [i \in {1, 2} |-> IF i = 1 THEN d(p) ELSE d(q)]
               ms == <<Get(p), Get(q)>>
    <3>1. f \in [{1, 2} -> Nat] /\ \A j \in {1, 2} : j # 1 => f[1] < f[j]
      BY <2>5
    <3>2. DOMAIN ms = {1, 2} /\ ms[1].methodType = "GET" /\ ms[2].methodType = "GET"
      BY <2>7
    <3>3. BestOf(p, q) = closestOf(ms, f, "GET")
      BY <2>6
    <3> HIDE DEF f, ms
    <3>4. closestOf(ms, f, "GET") = MatchFound(1)
      BY <3>1, <3>2, CloserIsTaken
    <3>. QED
      BY <3>3, <3>4
  <2>9. BestOf(q, p) = MatchFound(2)
    <3> DEFINE f == [i \in {1, 2} |-> IF i = 1 THEN d(q) ELSE d(p)]
               ms == <<Get(q), Get(p)>>
    <3>1. f \in [{1, 2} -> Nat] /\ \A j \in {1, 2} : j # 2 => f[2] < f[j]
      BY <2>5
    <3>2. DOMAIN ms = {1, 2} /\ ms[1].methodType = "GET" /\ ms[2].methodType = "GET"
      BY <2>7
    <3>3. BestOf(q, p) = closestOf(ms, f, "GET")
      BY <2>6
    <3> HIDE DEF f, ms
    <3>4. closestOf(ms, f, "GET") = MatchFound(2)
      BY <3>1, <3>2, CloserIsTaken
    <3>. QED
      BY <3>3, <3>4
  <2>. QED
    BY <2>8, <2>9
<1>. QED
  BY <1>1, StringsStay, PTL

-----------------------------------------------------------------------------
(* The context root that a request is for.                                 *)

(* Without the slashes that it begins with a string has the same segments. *)
LEMMA StrippedFacts ==
  ASSUME NEW S, NEW s \in Seq(S)
  PROVE  /\ Stripped(s) \in Seq(S)
         /\ Segments(Stripped(s)) = Segments(s)
         /\ Len(Stripped(s)) > 0 => Stripped(s)[1] # "/"
         /\ NormalForm(s) => NormalForm(Stripped(s))
<1> DEFINE b == SkipSlashes(s, 1)
           t == Stripped(s)
           q == b - 1
<1>0. Len(s) \in Nat /\ 1 \in 1..(Len(s) + 1) /\ DOMAIN s = 1..Len(s)
  OBVIOUS
<1>1. b \in 1..(Len(s) + 1) /\ (b <= Len(s) => s[b] # "/")
  BY <1>0, SkipFacts
<1>2. Segments(s) = SegmentsAt(s, 1) /\ SegmentsAt(s, b) = SegmentsAt(s, 1)
  BY <1>0, SegmentsAreAll, SegmentsFacts
<1>3. t = From(s, b)
  BY Zenon DEF Stripped
<1> HIDE DEF b, t
<1>4. /\ t \in Seq(S) /\ Len(t) = Len(s) + 1 - b
      /\ \A k \in 1..(Len(s) + 1 - b) : t[k] = s[(b - 1) + k]
      /\ Segments(t) = SegmentsAt(s, b)
  BY <1>1, <1>3, SegmentsOfRest
<1>5. Len(t) > 0 => t[1] # "/"
  <2> HAVE Len(t) > 0
  <2>1. 1 \in 1..(Len(s) + 1 - b) /\ (b - 1) + 1 = b /\ b <= Len(s)
    BY <1>0, <1>1, <1>4
  <2>. QED
    BY <1>1, <1>4, <2>1
<1>6. ASSUME NormalForm(s)
      PROVE  NormalForm(t)
  <2>1. DOMAIN t = 1..Len(t)
    BY <1>4
  <2>2. ASSUME NEW i \in 1..Len(t), t[i] = "/"
        PROVE  i < Len(t) /\ t[i + 1] # "/"
    <3>1. q + i \in 1..Len(s) /\ i \in 1..(Len(s) + 1 - b) /\ q \in Nat
      BY <1>0, <1>1, <1>4
    <3>2. s[q + i] = "/"
      BY <1>4, <2>2, <3>1
    <3>3. q + i < Len(s) /\ s[(q + i) + 1] # "/"
      BY <1>0, <1>6, <3>1, <3>2 DEF NormalForm
    <3>4. i < Len(t) /\ i + 1 \in 1..(Len(s) + 1 - b) /\ (q + i) + 1 = (b - 1) + (i + 1)
      BY <1>0, <1>1, <1>4, <3>1, <3>3
    <3>. QED
      BY <1>4, <3>3, <3>4
  <2>. QED
    BY <2>1, <2>2 DEF NormalForm
<1>. QED
  BY <1>2, <1>4, <1>5, <1>6 DEF t

(* One string begins another one, and a segment of that ends with it. *)
AtBoundary(t, s) ==
  /\ IsPrefix(t, s)
  /\ Len(s) = Len(t) \/ s[Len(t) + 1] = "/"

(* Such a string has the first segments of the other one. *)
LEMMA BoundaryPrefix ==
  ASSUME NEW S, NEW t \in Seq(S), NEW s \in Seq(S), AtBoundary(t, s)
  PROVE  IsPrefix(Segments(t), Segments(s))
<1> DEFINE n == Len(t)
           m == Len(s)
           P == {i \in 1..(n + 1) : IsPrefix(SegmentsAt(t, i), SegmentsAt(s, i))}
           Q == Seq(S)
<1>0. n \in Nat /\ m \in Nat
  OBVIOUS
<1>1. n <= m /\ \A k \in 1..n : t[k] = s[k]
  BY PrefixMeans, Zenon DEF AtBoundary
<1>2. m = n \/ s[n + 1] = "/"
  BY Zenon DEF AtBoundary
<1>3. ASSUME NEW i \in 1..(n + 1),
             SkipSlashes(t, i) # n + 1 => SegmentEnd(t, SkipSlashes(t, i)) \in P
      PROVE  i \in P
  <2> DEFINE b == SkipSlashes(t, i)
             e == SegmentEnd(t, b)
             x == SegmentAt(t, b)
             T2 == SegmentsAt(t, e)
             D2 == SegmentsAt(s, e)
  <2>0. i \in 1..(m + 1)
    BY <1>0, <1>1
  <2>1. /\ b \in i..(n + 1) /\ (b <= n => t[b] # "/")
        /\ \A k \in i..(b - 1) : t[k] = "/"
    BY SkipFacts
  <2>2. b # n + 1 => e \in P
    BY <1>3
  <2>3. IF b = n + 1 THEN SegmentsAt(t, i) = <<>>
        ELSE SegmentsAt(t, i) = <<x>> \o T2
    BY SegmentsFacts
  <2>4. x \in Q
    BY NextSegment
  <2> HIDE DEF b, n, m, P, Q
  <2>5. b \in 1..(n + 1)
    BY <1>0, <2>1
  <2>6. /\ e \in b..(n + 1) /\ (e <= n => t[e] = "/")
        /\ \A k \in b..(e - 1) : t[k] # "/"
    BY <2>5, EndFacts DEF n
  <2> HIDE DEF e, x, T2, D2
  <2>7. SegmentsAt(s, i) \in Seq(Q)
    BY <2>0, SegmentsFacts DEF m, Q
  <2>8. CASE b = n + 1
    <3>1. IsPrefix(<<>>, SegmentsAt(s, i))
      BY <2>7, PrefixEmpty, Zenon
    <3>. QED
      BY <2>3, <2>8, <3>1 DEF P
  <2>9. CASE b # n + 1
    <3>0. b <= n /\ b <= m /\ b \in i..(m + 1) /\ b \in 1..(m + 1) /\ e \in b..(m + 1) /\ e \in 1..(n + 1)
          /\ e \in 1..(m + 1)
      BY <1>0, <1>1, <2>1, <2>5, <2>6, <2>9
    <3>1. SkipSlashes(s, i) = b
      <4>1. b <= m => s[b] # "/"
        BY <1>1, <2>1, <2>5, <3>0
      <4>2. ASSUME NEW k \in i..(b - 1)
            PROVE  s[k] = "/"
        <5>1. k \in 1..n
          BY <1>0, <2>5
        <5>. QED
          BY <1>1, <2>1, <5>1
      <4>. QED
        BY <2>0, <3>0, <4>1, <4>2, SkipIs DEF m
    <3>2. SegmentEnd(s, b) = e
      <4>1. e <= m => s[e] = "/"
        <5> HAVE e <= m
        <5>1. CASE e <= n
          <6>1. e \in 1..n
            BY <1>0, <3>0, <5>1
          <6>. QED
            BY <1>1, <2>6, <5>1, <6>1
        <5>2. CASE ~(e <= n)
          <6>1. e = n + 1 /\ m # n
            BY <1>0, <3>0, <5>2
          <6>. QED
            BY <1>2, <6>1
        <5>. QED
          BY <5>1, <5>2
      <4>2. ASSUME NEW k \in b..(e - 1)
            PROVE  s[k] # "/"
        <5>1. k \in 1..n
          BY <1>0, <2>5, <2>6
        <5>. QED
          BY <1>1, <2>6, <5>1
      <4>. QED
        BY <3>0, <4>1, <4>2, EndIs DEF m
    <3>3. SegmentAt(s, b) = x
      <4> DEFINE c == b - 1
                 d == e - 1
                 u == SubSeq(t, c + 1, d)
                 v == SubSeq(s, c + 1, d)
      <4>1. /\ c \in Nat /\ d \in Nat /\ c <= d /\ d <= n /\ d <= m /\ c + 1 = b
        BY <1>0, <1>1, <2>5, <2>6
      <4>2. x = u /\ SegmentAt(s, b) = v
        BY <3>2, <4>1 DEF SegmentAt, e, x
      <4> HIDE DEF c, d
      <4>3. u \in Seq(S) /\ Len(u) = d - c /\ \A k \in 1..(d - c) : u[k] = t[c + k]
        BY <4>1, SliceFacts DEF n
      <4>4. v \in Seq(S) /\ Len(v) = d - c /\ \A k \in 1..(d - c) : v[k] = s[c + k]
        BY <4>1, SliceFacts DEF m
      <4> HIDE DEF u, v
      <4>5. ASSUME NEW k \in 1..Len(u)
            PROVE  u[k] = v[k]
        <5>1. k \in 1..(d - c) /\ c + k \in 1..n
          BY <1>0, <4>1, <4>3
        <5>. QED
          BY <1>1, <4>3, <4>4, <5>1
      <4>. QED
        BY <4>2, <4>3, <4>4, <4>5, SeqEqual
    <3>4. SegmentsAt(s, i) = <<x>> \o D2
      <4>1. IF SkipSlashes(s, i) = m + 1 THEN SegmentsAt(s, i) = <<>>
            ELSE SegmentsAt(s, i) = <<SegmentAt(s, SkipSlashes(s, i))>>
                                      \o SegmentsAt(s, SegmentEnd(s, SkipSlashes(s, i)))
        BY <2>0, SegmentsFacts DEF m
      <4>2. b # m + 1
        BY <1>0, <3>0
      <4>. QED
        BY <3>1, <3>2, <3>3, <4>1, <4>2 DEF D2
    <3>5. T2 \in Seq(Q) /\ D2 \in Seq(Q)
      BY <3>0, SegmentsFacts DEF T2, D2, n, m, Q
    <3>6. IsPrefix(T2, D2)
      BY <2>2, <2>9 DEF P, T2, D2
    <3>7. IsPrefix(<<x>> \o T2, <<x>> \o D2)
      BY <2>4, <3>5, <3>6, PrefixCons, Zenon
    <3>. QED
      BY <2>3, <2>9, <3>4, <3>7 DEF P
  <2>. QED
    BY <2>8, <2>9
<1> HIDE DEF P
<1>4. 1 \in P
  <2>1. 1 \in 1..(n + 1)
    BY <1>0
  <2>. QED
    BY <1>3, <2>1, SegmentInduction
<1>5. IsPrefix(SegmentsAt(t, 1), SegmentsAt(s, 1))
  BY <1>4 DEF P
<1>. QED
  BY <1>5, SegmentsAreAll

(* Written without needless slashes, a string that has the first segments  *)
(* of another one is what that begins with.                                *)
LEMMA NormalPrefix ==
  ASSUME NEW S, NEW t \in Seq(S), NEW s \in Seq(S), NormalForm(t), NormalForm(s),
         Len(t) > 0 => t[1] # "/", Len(s) > 0 => s[1] # "/",
         Segments(t) # <<>>, IsPrefix(Segments(t), Segments(s))
  PROVE  AtBoundary(t, s)
<1> DEFINE n == Len(t)
           m == Len(s)
           Q == Seq(S)
           End(i) == /\ i = n + 1 \/ t[i] = "/"
                     /\ i = m + 1 \/ s[i] = "/"
           Agree(i) == i <= m + 1 /\ \A k \in 1..(i - 1) : t[k] = s[k]
           P == {i \in 1..(n + 1) :
                   /\ Agree(i)
                   /\ IF i = 1 THEN SegmentsAt(t, i) # <<>> ELSE End(i)
                   /\ IsPrefix(SegmentsAt(t, i), SegmentsAt(s, i))
                   => AtBoundary(t, s)}
<1>0. n \in Nat /\ m \in Nat /\ DOMAIN t = 1..n /\ DOMAIN s = 1..m
  OBVIOUS
<1>1. /\ \A i \in 1..n : t[i] = "/" => i < n /\ t[i + 1] # "/"
      /\ \A i \in 1..m : s[i] = "/" => i < m /\ s[i + 1] # "/"
  BY <1>0 DEF NormalForm
<1>2. (n > 0 => t[1] # "/") /\ (m > 0 => s[1] # "/")
  OBVIOUS
<1>3. ASSUME NEW i \in 1..(n + 1),
             SkipSlashes(t, i) # n + 1 => SegmentEnd(t, SkipSlashes(t, i)) \in P
      PROVE  i \in P
  <2> SUFFICES ASSUME Agree(i), IF i = 1 THEN SegmentsAt(t, i) # <<>> ELSE End(i),
                      IsPrefix(SegmentsAt(t, i), SegmentsAt(s, i))
               PROVE  AtBoundary(t, s)
    OBVIOUS
  <2> DEFINE b == SkipSlashes(t, i)
             e == SegmentEnd(t, b)
             c == SkipSlashes(s, i)
             f == SegmentEnd(s, c)
             x == SegmentAt(t, b)
             y == SegmentAt(s, c)
             T2 == SegmentsAt(t, e)
             D2 == SegmentsAt(s, f)
  <2>0. i \in 1..(m + 1) /\ Agree(i)
    BY <1>0
  <2>1. /\ b \in i..(n + 1) /\ (b <= n => t[b] # "/")
        /\ \A k \in i..(b - 1) : t[k] = "/"
    BY SkipFacts
  <2>2. b # n + 1 => e \in P
    BY <1>3
  <2>3. IF b = n + 1 THEN SegmentsAt(t, i) = <<>>
        ELSE SegmentsAt(t, i) = <<x>> \o T2 /\ SegmentsAt(t, i) # <<>>
    BY SegmentsFacts
  <2>4. x \in Q
    BY NextSegment
  <2>5. /\ c \in i..(m + 1) /\ (c <= m => s[c] # "/")
        /\ \A k \in i..(c - 1) : s[k] = "/"
    BY <2>0, SkipFacts
  <2>6. IF c = m + 1 THEN SegmentsAt(s, i) = <<>>
        ELSE SegmentsAt(s, i) = <<y>> \o D2 /\ SegmentsAt(s, i) # <<>>
    BY <2>0, SegmentsFacts
  <2>7. y \in Q
    BY <2>0, NextSegment
  <2>8. SegmentsAt(t, i) \in Seq(Q) /\ SegmentsAt(s, i) \in Seq(Q)
    BY <2>0, SegmentsFacts
  <2>9. IF i = 1 THEN SegmentsAt(t, i) # <<>> ELSE End(i)
    OBVIOUS
  <2>10. IsPrefix(SegmentsAt(t, i), SegmentsAt(s, i))
    OBVIOUS
  <2> HIDE DEF b, c, n, m, P, Q, Agree
  <2>11. b \in 1..(n + 1) /\ c \in 1..(m + 1)
    BY <1>0, <2>0, <2>1, <2>5
  <2>12. /\ e \in b..(n + 1) /\ (e <= n => t[e] = "/")
         /\ \A k \in b..(e - 1) : t[k] # "/"
    BY <2>11, EndFacts DEF n
  <2>13. /\ f \in c..(m + 1) /\ (f <= m => s[f] = "/")
         /\ \A k \in c..(f - 1) : s[k] # "/"
    BY <2>11, EndFacts DEF m
  <2>14. e \in 1..(n + 1) /\ f \in 1..(m + 1)
    BY <1>0, <2>11, <2>12, <2>13
  <2> HIDE DEF e, f, x, y
  <2>15. T2 \in Seq(Q) /\ D2 \in Seq(Q)
    BY <2>14, SegmentsFacts DEF n, m, Q
  <2> HIDE DEF T2, D2
  <2>16. CASE b = n + 1
    <3>1. i # 1 /\ End(i)
      BY <2>3, <2>9, <2>16
    <3>2. i = n + 1
      <4>1. SUFFICES ASSUME i # n + 1
                     PROVE  FALSE
        OBVIOUS
      <4>2. i \in 1..n /\ t[i] = "/"
        BY <1>0, <3>1, <4>1
      <4>3. i < n /\ t[i + 1] # "/"
        BY <1>1, <4>2
      <4>4. i + 1 \in i..(b - 1)
        BY <1>0, <2>16, <4>2, <4>3
      <4>. QED
        BY <2>1, <4>3, <4>4
    <3>3. n <= m /\ \A k \in 1..n : t[k] = s[k]
      BY <1>0, <2>0, <3>2 DEF Agree
    <3>4. IsPrefix(t, s)
      BY <3>3, PrefixMeans DEF n, m
    <3>5. m = n \/ s[n + 1] = "/"
      BY <1>0, <3>1, <3>2
    <3>. QED
      BY <3>4, <3>5 DEF AtBoundary, n, m
  <2>17. CASE b # n + 1
    <3>1. c # m + 1
      <4>1. SUFFICES ASSUME c = m + 1
                     PROVE  FALSE
        OBVIOUS
      <4>2. SegmentsAt(t, i) = <<>>
        BY <2>6, <2>8, <2>10, <4>1, PrefixEmpty
      <4>. QED
        BY <2>3, <2>17, <4>2
    <3>2. x = y /\ IsPrefix(T2, D2)
      <4>1. IsPrefix(<<x>> \o T2, <<y>> \o D2)
        BY <2>3, <2>6, <2>10, <2>17, <3>1
      <4>. QED
        BY <2>4, <2>7, <2>15, <4>1, PrefixCons, Zenon
    <3>3. i <= n /\ i <= m
      BY <1>0, <2>1, <2>5, <2>11, <2>17, <3>1
    <3>4. b = c /\ \A k \in i..(b - 1) : t[k] = s[k]
      <4>1. CASE i = 1
        <5>1. t[1] # "/" /\ s[1] # "/"
          BY <1>0, <1>2, <3>3, <4>1
        <5>2. ~(b > 1) /\ ~(c > 1)
          <6>1. b > 1 => 1 \in i..(b - 1)
            BY <1>0, <2>11, <4>1
          <6>2. c > 1 => 1 \in i..(c - 1)
            BY <1>0, <2>11, <4>1
          <6>. QED
            BY <2>1, <2>5, <5>1, <6>1, <6>2
        <5>3. b = 1 /\ c = 1
          BY <1>0, <2>11, <5>2
        <5>. QED
          BY <4>1, <5>3
      <4>2. CASE i # 1
        <5>1. t[i] = "/" /\ s[i] = "/"
          BY <1>0, <2>9, <3>3, <4>2
        <5>2. i \in 1..n /\ i \in 1..m
          BY <1>0, <3>3
        <5>3. i < n /\ t[i + 1] # "/" /\ i < m /\ s[i + 1] # "/"
          BY <1>1, <5>1, <5>2
        <5>4. b # i /\ c # i
          BY <2>1, <2>5, <3>3, <5>1
        <5>5. ~(b > i + 1) /\ ~(c > i + 1)
          <6>1. b > i + 1 => i + 1 \in i..(b - 1)
            BY <1>0, <2>11, <5>2
          <6>2. c > i + 1 => i + 1 \in i..(c - 1)
            BY <1>0, <2>11, <5>2
          <6>. QED
            BY <2>1, <2>5, <5>3, <6>1, <6>2
        <5>6. b = i + 1 /\ c = i + 1
          BY <1>0, <2>1, <2>5, <5>2, <5>4, <5>5
        <5>7. \A k \in i..(b - 1) : k = i
          BY <5>2, <5>6
        <5>. QED
          BY <5>1, <5>6, <5>7
      <4>. QED
        BY <4>1, <4>2
    <3>5. e = f /\ \A k \in b..(e - 1) : t[k] = s[k]
      <4> DEFINE p == b - 1
                 d == e - 1
                 g == f - 1
                 u == SubSeq(t, p + 1, d)
                 v == SubSeq(s, p + 1, g)
      <4>1. /\ p \in Nat /\ d \in Nat /\ g \in Nat /\ p <= d /\ d <= n /\ p <= g /\ g <= m
            /\ p + 1 = b /\ d + 1 = e /\ g + 1 = f
        BY <1>0, <2>11, <2>12, <2>13, <3>4
      <4>2. x = u /\ y = v
        BY <3>4, <4>1 DEF SegmentAt, e, f, x, y
      <4> HIDE DEF p, d, g
      <4>3. u \in Seq(S) /\ Len(u) = d - p /\ \A k \in 1..(d - p) : u[k] = t[p + k]
        BY <4>1, SliceFacts DEF n
      <4>4. v \in Seq(S) /\ Len(v) = g - p /\ \A k \in 1..(g - p) : v[k] = s[p + k]
        BY <4>1, SliceFacts DEF m
      <4> HIDE DEF u, v
      <4>5. d = g
        <5>1. u = v
          BY <3>2, <4>2
        <5>2. d - p = g - p
          BY <4>3, <4>4, <5>1
        <5>. QED
          BY <4>1, <5>2
      <4>6. ASSUME NEW k \in b..(e - 1)
            PROVE  t[k] = s[k]
        <5>1. k - p \in 1..(d - p) /\ k - p \in 1..(g - p) /\ p + (k - p) = k
          BY <4>1, <4>5
        <5>2. u[k - p] = t[p + (k - p)] /\ v[k - p] = s[p + (k - p)]
          BY <4>3, <4>4, <5>1
        <5>. QED
          BY <3>2, <4>2, <5>1, <5>2
      <4>. QED
        BY <4>1, <4>5, <4>6
    <3>6. Agree(e)
      <4>1. ASSUME NEW k \in 1..(e - 1)
            PROVE  t[k] = s[k]
        <5>1. CASE k \in 1..(i - 1)
          BY <2>0, <5>1 DEF Agree
        <5>2. CASE k \in i..(b - 1)
          BY <3>4, <5>2
        <5>3. CASE k \in b..(e - 1)
          BY <3>5, <5>3
        <5>. QED
          BY <1>0, <2>11, <2>14, <5>1, <5>2, <5>3
      <4>2. e <= m + 1
        BY <1>0, <2>14, <3>5
      <4>. QED
        BY <4>1, <4>2 DEF Agree
    <3>7. e # 1 /\ End(e)
      <4>1. e # b
        BY <1>0, <2>1, <2>11, <2>12, <2>17
      <4>2. e # 1
        BY <1>0, <2>11, <2>12, <4>1
      <4>3. e <= n \/ e = n + 1
        BY <1>0, <2>14
      <4>4. e <= m \/ e = m + 1
        BY <1>0, <2>14, <3>5
      <4>. QED
        BY <2>12, <2>13, <3>5, <4>2, <4>3, <4>4
    <3>8. IsPrefix(SegmentsAt(t, e), SegmentsAt(s, e))
      BY <3>2, <3>5 DEF T2, D2
    <3>. QED
      BY <2>2, <2>17, <3>6, <3>7, <3>8 DEF P
  <2>. QED
    BY <2>16, <2>17
<1> HIDE DEF P
<1>4. 1 \in P
  <2>1. 1 \in 1..(n + 1)
    BY <1>0
  <2>. QED
    BY <1>3, <2>1, SegmentInduction
<1>5. Agree(1) /\ SegmentsAt(t, 1) # <<>> /\ IsPrefix(SegmentsAt(t, 1), SegmentsAt(s, 1))
  <2>1. 1 <= m + 1 /\ \A k \in 1..(1 - 1) : t[k] = s[k]
    BY <1>0
  <2>2. Segments(t) = SegmentsAt(t, 1) /\ Segments(s) = SegmentsAt(s, 1)
    BY SegmentsAreAll
  <2>. QED
    BY <2>1, <2>2
<1>. QED
  BY <1>4, <1>5 DEF P

(* The root that is found is one of those that match, and none is longer.  *)
LEMMA LongestIsFound ==
  ASSUME NEW a \in Seq(Characters), NEW b \in Seq(Characters), NEW s \in Seq(Characters)
  PROVE  LET roots == {a, b}
             match == findLongestMatchString(s, roots)
         IN  match # NoResource =>
               /\ match \in roots /\ MatchesRoot(s, match)
               /\ \A r \in roots : MatchesRoot(s, r) => Len(Stripped(r)) <= Len(Stripped(match))
<1> DEFINE roots == {a, b}
           match == findLongestMatchString(s, roots)
           M == {r \in roots : MatchesRoot(s, r)}
           Longest(r) == \A q \in M : Len(Stripped(q)) <= Len(Stripped(r))
<1>1. match = IF M = {} THEN NoResource ELSE CHOOSE r \in M : Longest(r)
  BY Zenon DEF findLongestMatchString
<1>2. SUFFICES ASSUME M # {}
               PROVE  match \in M /\ Longest(match)
  BY <1>1
<1>3. Len(Stripped(a)) \in Nat /\ Len(Stripped(b)) \in Nat
  <2>1. Stripped(a) \in Seq(Characters) /\ Stripped(b) \in Seq(Characters)
    BY StrippedFacts
  <2>. QED
    BY <2>1
<1>4. \A r \in M : r = a \/ r = b
  OBVIOUS
<1>5. \E r \in M : Longest(r)
  <2>1. PICK r \in M : TRUE
    BY <1>2
  <2>2. CASE \A q \in M : q = r
    BY <1>3, <1>4, <2>1, <2>2
  <2>3. CASE \E q \in M : q # r
    <3>1. a \in M /\ b \in M
      BY <1>4, <2>1, <2>3
    <3>2. Longest(a) \/ Longest(b)
      <4>1. Len(Stripped(a)) <= Len(Stripped(b)) \/ Len(Stripped(b)) <= Len(Stripped(a))
        BY <1>3
      <4> HIDE DEF M
      <4>. QED
        BY <1>3, <1>4, <4>1
    <3>. QED
      BY <3>1, <3>2
  <2>. QED
    BY <2>2, <2>3
<1> HIDE DEF M, Longest, match
<1>6. match = CHOOSE r \in M : Longest(r)
  BY <1>1, <1>2
<1>. QED
  BY <1>5, <1>6, Zenon

(* A root matches if it is no bare slash and the URI begins with it, up to *)
(* the end of a segment.                                                   *)
LEMMA MatchIsBoundary ==
  ASSUME NEW s, NEW r
  PROVE  MatchesRoot(s, r) <=> r \notin {<<>>, <<"/">>} /\ AtBoundary(Stripped(r), Stripped(s))
BY Zenon DEF MatchesRoot, AtBoundary, startsWith

(* So the segments of a root that matches are the first ones of the URI. *)
LEMMA MatchBeginsUri ==
  ASSUME NEW s \in Seq(Characters), NEW r \in Seq(Characters), MatchesRoot(s, r)
  PROVE  IsPrefix(Segments(r), Segments(s))
<1>1. /\ Stripped(s) \in Seq(Characters) /\ Segments(Stripped(s)) = Segments(s)
      /\ Stripped(r) \in Seq(Characters) /\ Segments(Stripped(r)) = Segments(r)
  BY StrippedFacts
<1>2. AtBoundary(Stripped(r), Stripped(s))
  BY MatchIsBoundary
<1>3. IsPrefix(Segments(Stripped(r)), Segments(Stripped(s)))
  BY <1>1, <1>2, BoundaryPrefix
<1>. QED
  BY <1>1, <1>3

(* A slash has no segments. *)
LEMMA SlashHasNone == Segments(<<"/">>) = <<>>
<1> DEFINE e == <<"/">>
           S == {"/"}
<1>1. e \in Seq(S) /\ Len(e) = 1 /\ e[1] = "/" /\ 1 \in 1..(Len(e) + 1) /\ 2 \in 1..(Len(e) + 1)
  OBVIOUS
<1> HIDE DEF e, S
<1>2. SkipSlashes(e, 1) = 2
  <2>1. 2 \in 1..(Len(e) + 1) /\ (2 <= Len(e) => e[2] # "/") /\ \A k \in 1..(2 - 1) : e[k] = "/"
    BY <1>1
  <2>. QED
    BY <1>1, <2>1, SkipIs
<1>3. IF SkipSlashes(e, 1) = Len(e) + 1 THEN SegmentsAt(e, 1) = <<>> ELSE SegmentsAt(e, 1) # <<>>
  BY <1>1, SegmentsFacts
<1>4. Segments(e) = <<>>
  BY <1>1, <1>2, <1>3, SegmentsAreAll
<1>. QED
  BY <1>4 DEF e

(* And without needless slashes a root matches if its segments are the     *)
(* first ones of the URI and it has any.                                   *)
LEMMA NormalRootMatches ==
  ASSUME NEW s \in Seq(Characters), NEW r \in Seq(Characters), NormalForm(r), NormalForm(s),
         Segments(r) # <<>>, IsPrefix(Segments(r), Segments(s))
  PROVE  MatchesRoot(s, r)
<1>1. /\ Stripped(s) \in Seq(Characters) /\ Segments(Stripped(s)) = Segments(s)
      /\ Len(Stripped(s)) > 0 => Stripped(s)[1] # "/"
      /\ NormalForm(Stripped(s))
  BY StrippedFacts
<1>2. /\ Stripped(r) \in Seq(Characters) /\ Segments(Stripped(r)) = Segments(r)
      /\ Len(Stripped(r)) > 0 => Stripped(r)[1] # "/"
      /\ NormalForm(Stripped(r))
  BY StrippedFacts
<1> DEFINE t == Stripped(r)
           u == Stripped(s)
<1> HIDE DEF t, u
<1>3. /\ u \in Seq(Characters) /\ NormalForm(u) /\ (Len(u) > 0 => u[1] # "/")
      /\ t \in Seq(Characters) /\ NormalForm(t) /\ (Len(t) > 0 => t[1] # "/")
      /\ Segments(t) # <<>> /\ IsPrefix(Segments(t), Segments(u))
  BY <1>1, <1>2 DEF t, u
<1>4. AtBoundary(t, u)
  BY <1>3, NormalPrefix
<1>5. r # <<>> /\ r # <<"/">>
  BY EmptyHasNone, SlashHasNone
<1>. QED
  BY <1>4, <1>5, MatchIsBoundary, Zenon DEF t, u

(* Of two roots that match the longer one has at least as many segments,   *)
(* and if they are equally long they are the same but for leading slashes. *)
LEMMA LongerHasMore ==
  ASSUME NEW s \in Seq(Characters), NEW r \in Seq(Characters), NEW q \in Seq(Characters),
         MatchesRoot(s, r), MatchesRoot(s, q), Len(Stripped(r)) <= Len(Stripped(q))
  PROVE  /\ Len(Segments(r)) <= Len(Segments(q))
         /\ Len(Stripped(r)) = Len(Stripped(q)) => Stripped(r) = Stripped(q)
<1> DEFINE u == Stripped(s)
           t == Stripped(r)
           v == Stripped(q)
<1>1. /\ u \in Seq(Characters) /\ t \in Seq(Characters) /\ v \in Seq(Characters)
      /\ Segments(t) = Segments(r) /\ Segments(v) = Segments(q)
  BY StrippedFacts
<1>2. AtBoundary(t, u) /\ AtBoundary(v, u) /\ Len(t) <= Len(v)
  BY MatchIsBoundary
<1> HIDE DEF t, u, v
<1>3. Len(t) <= Len(u) /\ \A k \in 1..Len(t) : t[k] = u[k]
  BY <1>1, <1>2, PrefixMeans, Zenon DEF AtBoundary
<1>4. Len(v) <= Len(u) /\ \A k \in 1..Len(v) : v[k] = u[k]
  BY <1>1, <1>2, PrefixMeans, Zenon DEF AtBoundary
<1>5. (Len(u) = Len(t) \/ u[Len(t) + 1] = "/")
  BY <1>2 DEF AtBoundary
<1>6. Len(t) \in Nat /\ Len(u) \in Nat /\ Len(v) \in Nat
  BY <1>1
<1>7. \A k \in 1..Len(t) : t[k] = v[k]
  <2>1. \A k \in 1..Len(t) : k \in 1..Len(v)
    BY <1>2, <1>6
  <2>. QED
    BY <1>3, <1>4, <2>1
<1>8. IsPrefix(t, v)
  BY <1>1, <1>2, <1>7, PrefixMeans, Zenon
<1>9. Len(v) = Len(t) \/ v[Len(t) + 1] = "/"
  <2> SUFFICES ASSUME Len(v) # Len(t)
               PROVE  v[Len(t) + 1] = "/"
    OBVIOUS
  <2>1. Len(t) + 1 \in 1..Len(v) /\ Len(u) # Len(t)
    BY <1>2, <1>4, <1>6
  <2>. QED
    BY <1>4, <1>5, <2>1
<1>10. IsPrefix(Segments(t), Segments(v))
  <2>1. AtBoundary(t, v)
    BY <1>8, <1>9 DEF AtBoundary
  <2>. QED
    BY <1>1, <2>1, BoundaryPrefix
<1>11. Len(Segments(t)) <= Len(Segments(v))
  BY <1>10 DEF IsPrefix
<1>12. Len(t) = Len(v) => t = v
  BY <1>1, <1>7, SeqEqual
<1>. QED
  BY <1>1, <1>11, <1>12 DEF t, v

(* The root that findLongestMatchString() of C2SHttpMatching.cpp finds for *)
(* a URI can be skipped from it, so that the matching of methods does not  *)
(* throw, and no other root without needless slashes that begins the URI   *)
(* has more segments; two roots match at the same length, and its          *)
(* assertion fails, only if they differ in their leading slashes alone.    *)
THEOREM LongestMatchProved == Spec => []LongestMatchIsNearest
<1>1. Strings => LongestMatchIsNearest
  <2> SUFFICES ASSUME Strings, NEW other \in OtherRoots
               PROVE  LET roots == {root, other}
                          match == findLongestMatchString(uri, roots)
                      IN  /\ match # NoResource =>
                               /\ uriSkip(uri, match, FALSE) >= 0
                               /\ \A r \in roots :
                                    NormalForm(r) /\ NormalForm(uri) /\ IsPrefix(Segments(r), Segments(uri)) =>
                                      Len(Segments(r)) <= Len(Segments(match))
                          /\ UniqueMatches(uri, roots) \/ Stripped(root) = Stripped(other)
    BY Zenon DEF LongestMatchIsNearest
  <2> DEFINE roots == {root, other}
             match == findLongestMatchString(uri, roots)
  <2>1. uri \in Seq(Characters) /\ \A r \in roots : r \in Seq(Characters)
    BY UriMatchingAssumption DEF Strings
  <2>2. match # NoResource =>
               /\ match \in roots /\ MatchesRoot(uri, match)
               /\ \A r \in roots : MatchesRoot(uri, r) => Len(Stripped(r)) <= Len(Stripped(match))
    BY <2>1, LongestIsFound
  <2> HIDE DEF match
  <2>3. ASSUME match # NoResource
        PROVE  uriSkip(uri, match, FALSE) >= 0
    <3>1. match \in Seq(Characters) /\ IsPrefix(Segments(match), Segments(uri))
      BY <2>1, <2>2, <2>3, MatchBeginsUri
    <3>2. CanSkip(uri, match, FALSE)
      BY <3>1 DEF CanSkip
    <3>. QED
      BY <2>1, <3>1, <3>2, UriSkipIs
  <2>4. ASSUME match # NoResource, NEW r \in roots, NormalForm(r), NormalForm(uri),
               IsPrefix(Segments(r), Segments(uri))
        PROVE  Len(Segments(r)) <= Len(Segments(match))
    <3>0. r \in Seq(Characters) /\ match \in Seq(Characters) /\ MatchesRoot(uri, match)
      BY <2>1, <2>2, <2>4
    <3>1. CASE Segments(r) = <<>>
      <4>1. Segments(match) \in Seq(Seq(Characters))
        BY <3>0, SegmentsListed
      <4>2. Len(Segments(match)) \in Nat /\ Len(<<>>) = 0
        BY <4>1
      <4>. QED
        BY <3>1, <4>2
    <3>2. CASE Segments(r) # <<>>
      <4>1. MatchesRoot(uri, r)
        BY <2>1, <2>4, <3>0, <3>2, NormalRootMatches
      <4>2. Len(Stripped(r)) <= Len(Stripped(match))
        BY <2>2, <2>4, <4>1
      <4>. QED
        BY <2>1, <3>0, <4>1, <4>2, LongerHasMore
    <3>. QED
      BY <3>1, <3>2
  <2>5. UniqueMatches(uri, roots) \/ Stripped(root) = Stripped(other)
    <3>1. SUFFICES ASSUME NEW r \in roots, NEW q \in roots, MatchesRoot(uri, r), MatchesRoot(uri, q),
                          Len(Stripped(r)) = Len(Stripped(q)), r # q
                   PROVE  Stripped(root) = Stripped(other)
      BY DEF UniqueMatches
    <3>2. r \in Seq(Characters) /\ q \in Seq(Characters)
      BY <2>1
    <3>3. Stripped(r) \in Seq(Characters)
      BY <3>2, StrippedFacts
    <3>4. Len(Stripped(r)) <= Len(Stripped(q))
      BY <3>1, <3>3
    <3>5. Stripped(r) = Stripped(q)
      BY <2>1, <3>1, <3>2, <3>4, LongerHasMore
    <3>6. (r = root /\ q = other) \/ (r = other /\ q = root)
      BY <3>1
    <3>. QED
      BY <3>5, <3>6
  <2>. QED
    BY <2>3, <2>4, <2>5 DEF match
<1>. QED
  BY <1>1, StringsStay, PTL

-----------------------------------------------------------------------------
(* Splitting into parts, and joining them again.                           *)

(* The two folds: the handler of splitNhandle(), and the join of Joined(). *)
Step(kind, x, c) ==
  IF kind = "join" THEN x \o <<"/">> \o c
  ELSE IF c = "/" /\ Last(x) # <<>> THEN Append(x, <<>>)
  ELSE Append(Front(x), Append(Last(x), c))

(* What a fold yields for every set of elements, the last one of each in   *)
(* front of the others.                                                    *)
IsTable(kind, table, s, data, m) ==
  table = [d \in SUBSET (1..m) |->
             IF d = {} THEN s ELSE Step(kind, table[d \ {Max(d)}], data[Max(d)])]

(* What a fold over all elements yields. *)
Fold(kind, s, data) == (CHOOSE t : IsTable(kind, t, s, data, Len(data)))[1..Len(data)]

(* splitNhandle() of StringUtils.cpp goes through a string from left to    *)
(* right.                                                                  *)
LEMMA SplitIsFold ==
  ASSUME NEW S, NEW data \in Seq(S)
  PROVE  splitNhandle(data, "/") = Fold("handle", <<<<>>>>, data)
<1>1. DOMAIN data = 1..Len(data)
  OBVIOUS
<1>2. splitNhandle(data, "/")
        = (CHOOSE t : t = [d \in SUBSET DOMAIN data |->
              IF d = {} THEN <<<<>>>>
              ELSE IF data[Max(d)] = "/" /\ Last(t[d \ {Max(d)}]) # <<>> THEN Append(t[d \ {Max(d)}], <<>>)
              ELSE Append(Front(t[d \ {Max(d)}]), Append(Last(t[d \ {Max(d)}]), data[Max(d)]))])[DOMAIN data]
  BY Zenon DEF splitNhandle, FoldLeft, MapThenFoldSet
<1>3. \A x, c : Step("handle", x, c) = IF c = "/" /\ Last(x) # <<>> THEN Append(x, <<>>)
                                       ELSE Append(Front(x), Append(Last(x), c))
  <2>1. "handle" # "join"
    OBVIOUS
  <2>. QED
    BY <2>1, Zenon DEF Step
<1>4. splitNhandle(data, "/")
        = (CHOOSE t : t = [d \in SUBSET DOMAIN data |->
              IF d = {} THEN <<<<>>>> ELSE Step("handle", t[d \ {Max(d)}], data[Max(d)])])[DOMAIN data]
  <2>1. "handle" # "join"
    OBVIOUS
  <2>. QED
    BY <1>2, <2>1, Zenon DEF Step
<1>. QED
  BY <1>1, <1>4, Zenon DEF Fold, IsTable

(* So does Joined() through the parts that follow the first one. *)
LEMMA JoinedIsFold ==
  ASSUME NEW S, NEW parts \in Seq(S), parts # <<>>
  PROVE  Joined(parts, "/") = Fold("join", Head(parts), Tail(parts))
<1>1. DOMAIN Tail(parts) = 1..Len(Tail(parts))
  <2>1. Tail(parts) \in Seq(S)
    BY TailFacts
  <2>. QED
    BY <2>1
<1>2. Joined(parts, "/")
        = (CHOOSE t : t = [d \in SUBSET DOMAIN Tail(parts) |->
              IF d = {} THEN Head(parts)
              ELSE t[d \ {Max(d)}] \o <<"/">> \o Tail(parts)[Max(d)]])[DOMAIN Tail(parts)]
  BY Zenon DEF Joined, FoldLeft, MapThenFoldSet
<1>3. Joined(parts, "/")
        = (CHOOSE t : t = [d \in SUBSET DOMAIN Tail(parts) |->
              IF d = {} THEN Head(parts) ELSE Step("join", t[d \ {Max(d)}], Tail(parts)[Max(d)])])[DOMAIN Tail(parts)]
  BY <1>2, Zenon DEF Step
<1>. QED
  BY <1>1, <1>3, Zenon DEF Fold, IsTable

(* A table for some elements can be extended to one element more. *)
LEMMA TableGrows ==
  ASSUME NEW kind, NEW s, NEW data, NEW m \in Nat, NEW table, IsTable(kind, table, s, data, m)
  PROVE  \E bigger : IsTable(kind, bigger, s, data, m + 1)
<1> DEFINE bigger == [d \in SUBSET (1..(m + 1)) |->
                        IF m + 1 \in d THEN Step(kind, table[d \ {m + 1}], data[m + 1]) ELSE table[d]]
           Entry(d) == IF d = {} THEN s ELSE Step(kind, bigger[d \ {Max(d)}], data[Max(d)])
<1>1. \A d \in SUBSET (1..m) : bigger[d] = table[d]
  OBVIOUS
<1>2. ASSUME NEW d \in SUBSET (1..(m + 1))
      PROVE  bigger[d] = Entry(d)
  <2>1. CASE m + 1 \in d
    <3>1. Max(d) \in d /\ \A k \in d : Max(d) >= k
      <4>1. m + 1 \in Nat /\ d # {}
        BY <2>1
      <4> HIDE DEF bigger
      <4>. QED
        BY <4>1, MaxFacts
    <3>2. Max(d) = m + 1
      <4>1. Max(d) >= m + 1 /\ Max(d) \in 1..(m + 1)
        BY <2>1, <3>1
      <4>. QED
        BY <4>1
    <3>3. d \ {m + 1} \in SUBSET (1..m)
      OBVIOUS
    <3>4. bigger[d] = Step(kind, table[d \ {m + 1}], data[m + 1])
      BY <2>1
    <3>5. bigger[d \ {m + 1}] = table[d \ {m + 1}]
      BY <1>1, <3>3
    <3> HIDE DEF bigger
    <3>. QED
      BY <2>1, <3>2, <3>4, <3>5
  <2>2. CASE m + 1 \notin d
    <3>1. d \in SUBSET (1..m)
      BY <2>2
    <3>2. bigger[d] = table[d]
      BY <2>2
    <3>3. d \ {Max(d)} \in SUBSET (1..m)
      BY <3>1
    <3>4. bigger[d \ {Max(d)}] = table[d \ {Max(d)}]
      BY <1>1, <3>3
    <3>5. table[d] = IF d = {} THEN s ELSE Step(kind, table[d \ {Max(d)}], data[Max(d)])
      BY <3>1 DEF IsTable
    <3> HIDE DEF bigger
    <3>. QED
      BY <3>2, <3>4, <3>5
  <2>. QED
    BY <2>1, <2>2
<1>3. bigger = [d \in SUBSET (1..(m + 1)) |-> Entry(d)]
  <2>1. bigger = [d \in SUBSET (1..(m + 1)) |-> bigger[d]]
    OBVIOUS
  <2> HIDE DEF bigger, Entry
  <2>. QED
    BY <1>2, <2>1
<1>. QED
  BY <1>3 DEF IsTable

(* So there is one for any number of elements. *)
LEMMA TableExists ==
  ASSUME NEW kind, NEW s, NEW data, NEW m \in Nat
  PROVE  \E table : IsTable(kind, table, s, data, m)
<1> DEFINE P == {k \in Nat : \E table : IsTable(kind, table, s, data, k)}
<1>1. 0 \in P
  <2>1. IsTable(kind, [d \in SUBSET (1..0) |-> s], s, data, 0)
    <3>1. \A d \in SUBSET (1..0) : d = {}
      OBVIOUS
    <3>. QED
      BY <3>1 DEF IsTable
  <2>. QED
    BY <2>1
<1>2. \A k \in 0..(m - 1) : k \in P => k + 1 \in P
  BY TableGrows
<1> HIDE DEF P
<1>3. \A k \in 0..m : k \in P
  BY <1>1, <1>2, CountUp
<1>. QED
  BY <1>3 DEF P

(* What is in a table for the first elements. *)
Follows(kind, table, s, data, m) ==
  /\ table[1..0] = s
  /\ \A k \in 1..m : table[1..k] = Step(kind, table[1..(k - 1)], data[k])

(* Of the sets of elements only the first ones matter. *)
LEMMA TableFacts ==
  ASSUME NEW kind, NEW s, NEW data, NEW m \in Nat, NEW table, IsTable(kind, table, s, data, m)
  PROVE  Follows(kind, table, s, data, m)
<1>1. \A d \in SUBSET (1..m) :
        table[d] = IF d = {} THEN s ELSE Step(kind, table[d \ {Max(d)}], data[Max(d)])
  BY DEF IsTable
<1>2. table[1..0] = s
  <2>1. 1..0 = {} /\ 1..0 \in SUBSET (1..m)
    OBVIOUS
  <2>. QED
    BY <1>1, <2>1
<1>3. ASSUME NEW k \in 1..m
      PROVE  table[1..k] = Step(kind, table[1..(k - 1)], data[k])
  <2>1. k \in Nat \ {0} /\ 1..k \in SUBSET (1..m)
    OBVIOUS
  <2>2. Max(1..k) = k /\ (1..k) \ {k} = 1..(k - 1) /\ 1..k # {}
    BY <2>1, IntervalFacts
  <2>. QED
    BY <1>1, <2>1, <2>2
<1>. QED
  BY <1>2, <1>3 DEF Follows

(* What a fold is, from one element to the next. *)
LEMMA FoldTable ==
  ASSUME NEW kind, NEW s, NEW data, NEW n \in Nat, n = Len(data)
  PROVE  \E t : Fold(kind, s, data) = t[1..n] /\ Follows(kind, t, s, data, n)
<1> DEFINE t == CHOOSE table : IsTable(kind, table, s, data, n)
<1>1. Fold(kind, s, data) = t[1..n]
  BY Zenon DEF Fold
<1>2. IsTable(kind, t, s, data, n)
  BY TableExists, Zenon
<1> HIDE DEF t
<1>3. Follows(kind, t, s, data, n)
  BY <1>2, TableFacts, Zenon
<1>. QED
  BY <1>1, <1>3, Zenon

(* One more element is one more step. *)
LEMMA FoldFacts ==
  ASSUME NEW kind, NEW s, NEW S, NEW data \in Seq(S), NEW x \in S
  PROVE  /\ Len(data) = 0 => Fold(kind, s, data) = s
         /\ Fold(kind, s, Append(data, x)) = Step(kind, Fold(kind, s, data), x)
<1> DEFINE more == Append(data, x)
           n == Len(data)
           m == n + 1
<1>1. n \in Nat /\ m \in Nat /\ m = n + 1
  OBVIOUS
<1>2. /\ more \in Seq(S) /\ Len(more) = m
      /\ \A k \in 1..n : more[k] = data[k]
      /\ more[m] = x
  BY AppendProperties
<1>3. n = Len(data)
  OBVIOUS
<1> HIDE DEF more, n, m
<1>4. PICK t : Fold(kind, s, data) = t[1..n] /\ Follows(kind, t, s, data, n)
  BY <1>1, <1>3, FoldTable, Zenon
<1>5. PICK u : Fold(kind, s, more) = u[1..m] /\ Follows(kind, u, s, more, m)
  BY <1>1, <1>2, FoldTable, Zenon
<1> DEFINE P == {k \in 0..n : t[1..k] = u[1..k]}
<1>6. 0 \in P
  BY <1>1, <1>4, <1>5 DEF Follows
<1>7. \A k \in 0..(n - 1) : k \in P => k + 1 \in P
  <2>1. SUFFICES ASSUME NEW k \in 0..(n - 1), t[1..k] = u[1..k]
                 PROVE  t[1..(k + 1)] = u[1..(k + 1)]
    BY <1>1
  <2>2. k + 1 \in 1..n /\ k + 1 \in 1..m /\ (k + 1) - 1 = k
    BY <1>1
  <2>3. more[k + 1] = data[k + 1]
    BY <1>2, <2>2
  <2>. QED
    BY <1>4, <1>5, <2>1, <2>2, <2>3 DEF Follows
<1> HIDE DEF P
<1>8. n \in P
  <2>1. \A k \in 0..n : k \in P
    BY <1>1, <1>6, <1>7, CountUp
  <2>. QED
    BY <1>1, <2>1
<1>9. t[1..n] = u[1..n]
  BY <1>8 DEF P
<1>10. u[1..m] = Step(kind, u[1..n], x)
  <2>1. m \in 1..m /\ m - 1 = n
    BY <1>1
  <2>. QED
    BY <1>2, <1>5, <2>1 DEF Follows
<1>11. n = 0 => t[1..n] = s
  BY <1>4 DEF Follows
<1>. QED
  BY <1>3, <1>4, <1>5, <1>9, <1>10, <1>11 DEF more

(* A sequence is what comes before its last element, and that one. *)
LEMMA FrontFacts ==
  ASSUME NEW S, NEW s \in Seq(S), s # <<>>
  PROVE  /\ Front(s) \in Seq(S) /\ Last(s) \in S /\ Len(s) \in Nat /\ Len(s) >= 1
         /\ Len(Front(s)) = Len(s) - 1
         /\ \A i \in 1..(Len(s) - 1) : Front(s)[i] = s[i]
         /\ Last(s) = s[Len(s)]
         /\ s = Append(Front(s), Last(s))
<1> DEFINE n == Len(s)
<1>1. n \in Nat /\ n >= 1 /\ n \in 1..n /\ n - 1 \in Nat
  OBVIOUS
<1>2. s[n] \in S
  BY <1>1
<1>3. ASSUME NEW k \in Nat, k + 1 = n
      PROVE  /\ SubSeq(s, 1, k) \in Seq(S) /\ Len(SubSeq(s, 1, k)) = k
             /\ \A i \in 1..k : SubSeq(s, 1, k)[i] = s[i]
  <2>1. 1 \in Int /\ k \in Int /\ \A i \in 1..k : s[i] \in S
    BY <1>1, <1>3
  <2>2. /\ SubSeq(s, 1, k) \in Seq(S)
        /\ Len(SubSeq(s, 1, k)) = IF 1 <= k THEN k - 1 + 1 ELSE 0
        /\ \A i \in 1..(k - 1 + 1) : SubSeq(s, 1, k)[i] = s[1 + i - 1]
    BY <2>1, SubSeqProperties
  <2>. QED
    BY <1>3, <2>2
<1>4. /\ Front(s) \in Seq(S) /\ Len(Front(s)) = n - 1
      /\ \A i \in 1..(n - 1) : Front(s)[i] = s[i]
  <2>1. (n - 1) \in Nat /\ (n - 1) + 1 = n
    BY <1>1
  <2> HIDE DEF n
  <2>. QED
    BY <1>3, <2>1 DEF Front, n
<1> DEFINE f == Front(s)
           u == Append(f, s[n])
<1> HIDE DEF f
<1>5. u \in Seq(S) /\ Len(u) = (n - 1) + 1 /\ (\A i \in 1..(n - 1) : u[i] = f[i]) /\ u[(n - 1) + 1] = s[n]
  BY <1>2, <1>4, AppendProperties DEF f
<1> HIDE DEF u
<1>6. \A i \in 1..n : u[i] = s[i]
  BY <1>1, <1>4, <1>5 DEF f
<1> HIDE DEF n
<1>7. u = s
  BY <1>1, <1>5, <1>6, SeqEqual DEF n
<1>. QED
  BY <1>1, <1>2, <1>4, <1>7 DEF u, f, Last, n

(* Strings joined are a string. *)
LEMMA JoinIsString ==
  ASSUME NEW S, "/" \in S, NEW s \in Seq(S), NEW data \in Seq(Seq(S))
  PROVE  Fold("join", s, data) \in Seq(S)
<1> DEFINE n == Len(data)
<1>1. n \in Nat /\ n = Len(data)
  OBVIOUS
<1> HIDE DEF n
<1>2. PICK t : Fold("join", s, data) = t[1..n] /\ Follows("join", t, s, data, n)
  BY <1>1, FoldTable, Zenon
<1> DEFINE P == {k \in 0..n : t[1..k] \in Seq(S)}
<1>3. 0 \in P
  BY <1>1, <1>2 DEF Follows
<1>4. \A k \in 0..(n - 1) : k \in P => k + 1 \in P
  <2>1. SUFFICES ASSUME NEW k \in 0..(n - 1), t[1..k] \in Seq(S)
                 PROVE  t[1..(k + 1)] \in Seq(S)
    <3>1. \A k \in 0..(n - 1) : k + 1 \in 0..n
      BY <1>1
    <3>. QED
      BY <3>1
  <2>2. k + 1 \in 1..n /\ (k + 1) - 1 = k
    BY <1>1
  <2>3. data[k + 1] \in Seq(S)
    BY <1>1, <2>2
  <2>4. <<"/">> \in Seq(S)
    OBVIOUS
  <2>5. t[1..(k + 1)] = t[1..k] \o <<"/">> \o data[k + 1]
    BY <1>2, <2>2 DEF Step, Follows
  <2>. QED
    BY <2>1, <2>3, <2>4, <2>5, ConcatProperties
<1> HIDE DEF P
<1>5. n \in P
  <2>1. \A k \in 0..n : k \in P
    BY <1>1, <1>3, <1>4, CountUp
  <2>. QED
    BY <1>1, <2>1
<1>. QED
  BY <1>2, <1>5 DEF P

(* Joining one part, and joining one part more. *)
LEMMA JoinedOne ==
  ASSUME NEW S, NEW x \in Seq(S)
  PROVE  Joined(<<x>>, "/") = x
<1>1. <<x>> \in Seq(Seq(S)) /\ <<x>> # <<>> /\ Head(<<x>>) = x /\ Tail(<<x>>) = <<>>
  OBVIOUS
<1>2. Joined(<<x>>, "/") = Fold("join", x, <<>>)
  BY <1>1, JoinedIsFold
<1>3. <<>> \in Seq(Seq(S)) /\ Len(<<>>) = 0
  OBVIOUS
<1>4. Fold("join", x, <<>>) = x
  BY <1>3, FoldFacts, Zenon
<1>. QED
  BY <1>2, <1>4

(* A part more is joined behind a separator. *)
LEMMA JoinedAppend ==
  ASSUME NEW S, "/" \in S, NEW parts \in Seq(Seq(S)), parts # <<>>, NEW x \in Seq(S)
  PROVE  /\ Joined(parts, "/") \in Seq(S)
         /\ Joined(Append(parts, x), "/") = Joined(parts, "/") \o <<"/">> \o x
<1> DEFINE more == Append(parts, x)
           h == Head(parts)
           t == Tail(parts)
<1>1. /\ more \in Seq(Seq(S)) /\ more # <<>>
      /\ Head(more) = h /\ Tail(more) = Append(t, x)
  BY AppendProperties, HeadTailAppend
<1>2. h \in Seq(S) /\ t \in Seq(Seq(S))
  BY HeadTailProperties
<1>3. Joined(parts, "/") = Fold("join", h, t)
  BY JoinedIsFold
<1> HIDE DEF more
<1>4. Joined(more, "/") = Fold("join", h, Append(t, x))
  BY <1>1, JoinedIsFold
<1> HIDE DEF h, t
<1>5. Fold("join", h, t) \in Seq(S)
  BY <1>2, JoinIsString
<1>6. Fold("join", h, Append(t, x)) = Step("join", Fold("join", h, t), x)
  <2> DEFINE Q == Seq(S)
  <2>1. t \in Seq(Q) /\ x \in Q
    BY <1>2
  <2> HIDE DEF Q
  <2>. QED
    BY <2>1, FoldFacts
<1>7. Step("join", Fold("join", h, t), x) = Fold("join", h, t) \o <<"/">> \o x
  BY Zenon DEF Step
<1>. QED
  BY <1>3, <1>4, <1>5, <1>6, <1>7 DEF more

(* A character more at the end of the last part is one more at the end of  *)
(* the whole.                                                              *)
LEMMA JoinedLast ==
  ASSUME NEW S, "/" \in S, NEW parts \in Seq(Seq(S)), parts # <<>>, NEW c \in S
  PROVE  Joined(Append(Front(parts), Append(Last(parts), c)), "/") = Append(Joined(parts, "/"), c)
<1> DEFINE f == Front(parts)
           l == Last(parts)
<1>1. f \in Seq(Seq(S)) /\ l \in Seq(S) /\ parts = Append(f, l)
  BY FrontFacts
<1>2. Append(l, c) \in Seq(S)
  BY <1>1, AppendProperties
<1> HIDE DEF f, l
<1>3. CASE f = <<>>
  <2>1. parts = <<l>> /\ Append(f, Append(l, c)) = <<Append(l, c)>>
    BY <1>1, <1>2, <1>3
  <2>2. Joined(<<l>>, "/") = l
    BY <1>1, JoinedOne
  <2>3. Joined(<<Append(l, c)>>, "/") = Append(l, c)
    BY <1>2, JoinedOne
  <2>. QED
    BY <2>1, <2>2, <2>3 DEF f, l
<1>4. CASE f # <<>>
  <2> DEFINE j == Joined(f, "/") \o <<"/">>
  <2>1. Joined(f, "/") \in Seq(S) /\ Joined(Append(f, l), "/") = j \o l
    BY <1>1, <1>4, JoinedAppend
  <2>2. Joined(Append(f, Append(l, c)), "/") = j \o Append(l, c)
    BY <1>1, <1>2, <1>4, JoinedAppend
  <2>3. j \in Seq(S)
    <3>1. <<"/">> \in Seq(S)
      OBVIOUS
    <3>. QED
      BY <2>1, <3>1, ConcatProperties
  <2> HIDE DEF j
  <2>4. j \o Append(l, c) = Append(j \o l, c)
    BY <1>1, <2>3, ConcatAppend
  <2>. QED
    BY <1>1, <2>1, <2>2, <2>4 DEF f, l
<1>. QED
  BY <1>3, <1>4

(* What SplitLosesNothing says of the parts of a string. *)
SplitOf(u, parts) ==
  /\ parts \in Seq(Seq(Characters)) /\ parts # <<>>
  /\ Joined(parts, "/") = u
  /\ \A i \in DOMAIN parts :
       IF parts[i] = <<>> THEN i = Len(parts) ELSE "/" \notin Range(Tail(parts[i]))

(* Where a separator can be, after a character that is none, or as the     *)
(* first one.                                                              *)
LEMMA OneMore ==
  ASSUME NEW p \in Seq(Characters), NEW c \in Characters,
         p # <<>> => "/" \notin Range(Tail(p)) /\ c # "/"
  PROVE  "/" \notin Range(Tail(Append(p, c)))
<1>1. CASE p = <<>>
  <2>1. Tail(Append(p, c)) = <<>>
    BY <1>1, HeadTailAppend
  <2>. QED
    BY <2>1 DEF Range
<1>2. CASE p # <<>>
  <2>1. Tail(Append(p, c)) = Append(Tail(p), c)
    BY <1>2, HeadTailAppend
  <2>2. Tail(p) \in Seq(Characters)
    BY <1>2, TailFacts
  <2>3. Range(Append(Tail(p), c)) = Range(Tail(p)) \cup {c}
    BY <2>2, AppendFacts
  <2>4. "/" \notin Range(Tail(p)) /\ c # "/"
    BY <1>2
  <2>5. "/" \notin Range(Tail(p)) \cup {c}
    <3> DEFINE R == Range(Tail(p))
    <3>1. "/" \notin R /\ c # "/"
      BY <2>4
    <3> HIDE DEF R
    <3>2. "/" \notin R \cup {c}
      BY <3>1
    <3>. QED
      BY <3>2 DEF R
  <2>. QED
    BY <2>1, <2>3, <2>5, Zenon
<1>. QED
  BY <1>1, <1>2

(* The handler keeps the parts of a string the parts of what is longer.    *)
LEMMA HandleKeeps ==
  ASSUME NEW u \in Seq(Characters), NEW parts, SplitOf(u, parts), NEW c \in Characters
  PROVE  SplitOf(Append(u, c), Step("handle", parts, c))
<1> DEFINE n == Len(parts)
           f == Front(parts)
           l == Last(parts)
           more == Append(f, Append(l, c))
<1>0. "/" \in Characters
  BY UriMatchingAssumption
<1>1. /\ parts \in Seq(Seq(Characters)) /\ parts # <<>> /\ Joined(parts, "/") = u
      /\ DOMAIN parts = 1..n
      /\ \A i \in 1..n : IF parts[i] = <<>> THEN i = n ELSE "/" \notin Range(Tail(parts[i]))
  BY DEF SplitOf
<1>2. /\ f \in Seq(Seq(Characters)) /\ l \in Seq(Characters) /\ n \in Nat /\ n >= 1
      /\ Len(f) = n - 1 /\ (\A i \in 1..(n - 1) : f[i] = parts[i]) /\ l = parts[n]
  BY <1>1, FrontFacts
<1>3. CASE c = "/" /\ l # <<>>
  <2> DEFINE new == Append(parts, <<>>)
  <2>1. Step("handle", parts, c) = new
    BY <1>3, Zenon DEF Step
  <2>2. <<>> \in Seq(Characters)
    OBVIOUS
  <2>3. /\ new \in Seq(Seq(Characters)) /\ new # <<>> /\ Len(new) = n + 1
        /\ (\A i \in 1..n : new[i] = parts[i]) /\ new[n + 1] = <<>>
    <3> DEFINE Q == Seq(Characters)
    <3>1. parts \in Seq(Q) /\ <<>> \in Q
      BY <1>1, <2>2
    <3> HIDE DEF Q
    <3>2. /\ new \in Seq(Q) /\ new # <<>> /\ Len(new) = Len(parts) + 1
          /\ (\A i \in 1..Len(parts) : new[i] = parts[i]) /\ new[Len(parts) + 1] = <<>>
      BY <3>1, AppendProperties
    <3>. QED
      BY <3>2 DEF Q
  <2>4. Joined(new, "/") = Append(u, c)
    <3>1. Joined(new, "/") = u \o <<"/">> \o <<>>
      BY <1>0, <1>1, <2>2, JoinedAppend
    <3>2. u \o <<"/">> \in Seq(Characters) /\ Append(u, "/") = u \o <<"/">>
      BY <1>0, AppendIsConcat, AppendProperties
    <3>3. u \o <<"/">> \o <<>> = u \o <<"/">>
      BY <3>2, ConcatEmptySeq
    <3>. QED
      BY <1>3, <3>1, <3>2, <3>3
  <2> HIDE DEF new, l, n, f, more
  <2>5. \A i \in 1..(n + 1) : IF new[i] = <<>> THEN i = n + 1 ELSE "/" \notin Range(Tail(new[i]))
    BY <1>1, <1>2, <1>3, <2>3
  <2>6. DOMAIN new = 1..(n + 1)
    BY <2>3
  <2>. QED
    BY <2>1, <2>3, <2>4, <2>5, <2>6 DEF SplitOf
<1>4. CASE ~(c = "/" /\ l # <<>>)
  <2>1. Step("handle", parts, c) = more
    BY <1>4, Zenon DEF Step
  <2>2. Append(l, c) \in Seq(Characters) /\ Append(l, c) # <<>>
    BY <1>2, AppendProperties
  <2>3. /\ more \in Seq(Seq(Characters)) /\ more # <<>> /\ Len(more) = n
        /\ (\A i \in 1..(n - 1) : more[i] = parts[i]) /\ more[n] = Append(l, c)
    <3> HIDE DEF l, n, f
    <3> DEFINE x == Append(l, c)
    <3>1. x \in Seq(Characters)
      BY <2>2
    <3> HIDE DEF x
    <3>2. /\ Append(f, x) \in Seq(Seq(Characters)) /\ Append(f, x) # <<>> /\ Len(Append(f, x)) = Len(f) + 1
          /\ (\A i \in 1..Len(f) : Append(f, x)[i] = f[i]) /\ Append(f, x)[Len(f) + 1] = x
      BY <1>2, <3>1, AppendProperties
    <3>. QED
      BY <1>2, <3>2 DEF x
  <2>4. Joined(more, "/") = Append(u, c)
    BY <1>0, <1>1, JoinedLast
  <2>5. "/" \notin Range(Tail(Append(l, c)))
    <3>1. IF l = <<>> THEN n = n ELSE "/" \notin Range(Tail(l))
      <4> HIDE DEF l, n
      <4>1. n \in 1..n
        BY <1>2
      <4>2. IF parts[n] = <<>> THEN n = n ELSE "/" \notin Range(Tail(parts[n]))
        BY <1>1, <4>1, Zenon
      <4>. QED
        BY <1>2, <4>2, Zenon
    <3> HIDE DEF l
    <3>2. l # <<>> => "/" \notin Range(Tail(l)) /\ c # "/"
      BY <1>4, <3>1
    <3>. QED
      BY <1>2, <3>2, OneMore
  <2> HIDE DEF l, n, f, more
  <2>6. \A i \in 1..n : IF more[i] = <<>> THEN i = n ELSE "/" \notin Range(Tail(more[i]))
    <3>1. ASSUME NEW i \in 1..n
          PROVE  IF more[i] = <<>> THEN i = n ELSE "/" \notin Range(Tail(more[i]))
      <4>1. CASE i = n
        BY <2>2, <2>3, <2>5, <4>1
      <4>2. CASE i # n
        <5>1. i \in 1..(n - 1)
          BY <1>2, <3>1, <4>2
        <5>. QED
          BY <1>1, <2>3, <3>1, <4>2, <5>1
      <4>. QED
        BY <4>1, <4>2
    <3>. QED
      BY <3>1
  <2>7. DOMAIN more = 1..n
    BY <2>3
  <2>. QED
    BY <2>1, <2>3, <2>4, <2>6, <2>7 DEF SplitOf
<1>. QED
  BY <1>3, <1>4

(* splitNhandle() of StringUtils.cpp loses nothing and cuts as early as it *)
(* can, for a string of any length: joined by the separator the parts are  *)
(* the string, a separator can only be the first character of a part, and  *)
(* only the last part can be empty. By induction on the string, one turn   *)
(* of the loop for each character.                                         *)
THEOREM SplitProved == Spec => []SplitLosesNothing
<1> DEFINE Inv == Strings /\ SplitOf(uri, splitNhandle(uri, "/"))
<1>1. Init => Inv
  <2> SUFFICES ASSUME Init
               PROVE  Inv
    OBVIOUS
  <2>1. Strings
    BY StringsStart
  <2>2. uri = <<>> /\ uri \in Seq(Characters) /\ Len(uri) = 0
    BY DEF Init
  <2>3. splitNhandle(uri, "/") = <<<<>>>>
    <3>1. splitNhandle(uri, "/") = Fold("handle", <<<<>>>>, uri)
      BY <2>2, SplitIsFold
    <3>2. "/" \in Characters
      BY UriMatchingAssumption
    <3>3. Fold("handle", <<<<>>>>, uri) = <<<<>>>>
      BY <2>2, <3>2, FoldFacts
    <3>. QED
      BY <3>1, <3>3
  <2>4. <<>> \in Seq(Characters)
    OBVIOUS
  <2>5. Joined(<<<<>>>>, "/") = <<>>
    BY <2>4, JoinedOne
  <2>6. SplitOf(uri, <<<<>>>>)
    BY <2>2, <2>4, <2>5 DEF SplitOf
  <2>. QED
    BY <2>1, <2>3, <2>6
<1>2. Inv /\ [Next]_<<uri, root>> => Inv'
  <2> SUFFICES ASSUME Inv, [Next]_<<uri, root>>
               PROVE  Inv'
    OBVIOUS
  <2>1. Strings'
    BY StringsStep
  <2>2. uri \in Seq(Characters)
    BY DEF Strings
  <2>3. CASE ExtendUri
    <3>1. PICK c \in Characters : uri' = Append(uri, c)
      BY <2>3 DEF ExtendUri
    <3>2. Append(uri, c) \in Seq(Characters)
      BY <2>2, AppendProperties
    <3>3. splitNhandle(uri', "/") = Fold("handle", <<<<>>>>, Append(uri, c))
      BY <3>1, <3>2, SplitIsFold
    <3>4. Fold("handle", <<<<>>>>, Append(uri, c)) = Step("handle", Fold("handle", <<<<>>>>, uri), c)
      BY <2>2, FoldFacts
    <3>5. splitNhandle(uri, "/") = Fold("handle", <<<<>>>>, uri)
      BY <2>2, SplitIsFold
    <3>6. SplitOf(Append(uri, c), Step("handle", splitNhandle(uri, "/"), c))
      BY <2>2, HandleKeeps
    <3>. QED
      BY <2>1, <3>1, <3>3, <3>4, <3>5, <3>6
  <2>4. CASE UNCHANGED uri
    BY <2>1, <2>4
  <2>. QED
    BY <2>3, <2>4 DEF Next, ExtendRoot
<1>3. Inv => SplitLosesNothing
  BY Zenon DEF SplitOf, SplitLosesNothing
<1>. QED
  BY <1>1, <1>2, <1>3, PTL DEF Spec

=============================================================================

---------------------------- MODULE SequenceFacts ----------------------------
(***************************************************************************)
(* Facts about the lists of the models, which the proofs about the queues, *)
(* the listener and the connection need: what Append and Tail do to a      *)
(* sequence without duplicates, as a list and as a set, and slices.        *)
(***************************************************************************)
EXTENDS Integers, Sequences, Functions, FiniteSetsExt, SequenceTheorems, WellFoundedInduction, TLAPS

(* A list without duplicates has none when an element that is not in it is  *)
(* added, and holds that element besides.                                   *)
LEMMA AppendFacts ==
  ASSUME NEW S, NEW s \in Seq(S), NEW x \in S
  PROVE  /\ Append(s, x) \in Seq(S)
         /\ Append(s, x) # <<>>
         /\ Len(Append(s, x)) = Len(s) + 1
         /\ Range(Append(s, x)) = Range(s) \cup {x}
         /\ IsInjective(s) /\ x \notin Range(s) => IsInjective(Append(s, x))
<1> DEFINE a == Append(s, x)
<1>1. /\ a \in Seq(S) /\ a # <<>> /\ Len(a) = Len(s) + 1
      /\ \A i \in 1..Len(s) : a[i] = s[i]
      /\ a[Len(s) + 1] = x
  BY AppendProperties
<1>2. Len(s) \in Nat /\ DOMAIN s = 1..Len(s) /\ DOMAIN a = 1..Len(a)
  BY <1>1
<1> HIDE DEF a
<1>3. 1..Len(a) = 1..Len(s) \cup {Len(s) + 1}
  BY <1>1, <1>2
<1>4. Range(a) = Range(s) \cup {x}
  BY <1>1, <1>2, <1>3 DEF Range
<1>5. IsInjective(s) /\ x \notin Range(s) => IsInjective(a)
  BY <1>1, <1>2, <1>3 DEF IsInjective, Range
<1>6. QED
  BY <1>1, <1>4, <1>5 DEF a

(* The tail of a list without duplicates has none, and holds all but the head. *)
LEMMA TailFacts ==
  ASSUME NEW S, NEW s \in Seq(S), s # <<>>
  PROVE  /\ Head(s) \in S
         /\ Head(s) \in Range(s)
         /\ Tail(s) \in Seq(S)
         /\ Len(Tail(s)) = Len(s) - 1
         /\ IsInjective(s) => /\ Range(Tail(s)) = Range(s) \ {Head(s)}
                              /\ IsInjective(Tail(s))
<1> DEFINE u == Tail(s)
<1>1. /\ Head(s) \in S /\ u \in Seq(S) /\ Len(u) = Len(s) - 1
      /\ \A i \in 1..Len(u) : u[i] = s[i + 1]
  BY HeadTailProperties
<1>2. /\ Len(s) \in Nat \ {0} /\ Head(s) = s[1]
      /\ DOMAIN s = 1..Len(s) /\ DOMAIN u = 1..Len(u)
  BY <1>1
<1> HIDE DEF u
<1>3. Head(s) \in Range(s)
  BY <1>2 DEF Range
<1>4. ASSUME IsInjective(s)
      PROVE  Range(u) = Range(s) \ {Head(s)} /\ IsInjective(u)
  <2>1. \A i \in 1..Len(u) : i + 1 \in 1..Len(s) /\ i + 1 # 1
    BY <1>1, <1>2
  <2>2. \A j \in 1..Len(s) : j # 1 => j - 1 \in 1..Len(u) /\ u[j - 1] = s[j]
    BY <1>1, <1>2
  <2>3. Range(s) = {s[j] : j \in 1..Len(s)} /\ Range(u) = {u[i] : i \in 1..Len(u)}
    BY <1>2 DEF Range
  <2>4. \A i, j \in 1..Len(s) : s[i] = s[j] => i = j
    BY <1>2, <1>4 DEF IsInjective
  <2>5. \A i, j \in 1..Len(u) : u[i] = u[j] => i = j
    <3>1. SUFFICES ASSUME NEW i \in 1..Len(u), NEW j \in 1..Len(u), u[i] = u[j]
                   PROVE  i = j
      OBVIOUS
    <3>2. s[i + 1] = s[j + 1]
      BY <1>1, <3>1
    <3>3. i + 1 = j + 1
      BY <2>1, <2>4, <3>2
    <3>4. QED
      BY <1>1, <3>3
  <2>6. Range(u) \subseteq Range(s) \ {Head(s)}
    <3>1. SUFFICES ASSUME NEW i \in 1..Len(u)
                   PROVE  u[i] \in Range(s) \ {Head(s)}
      BY <2>3
    <3>2. u[i] = s[i + 1] /\ i + 1 \in 1..Len(s) /\ i + 1 # 1 /\ 1 \in 1..Len(s)
      BY <1>1, <1>2, <2>1
    <3>3. s[i + 1] # s[1]
      BY <2>4, <3>2
    <3>4. QED
      BY <1>2, <2>3, <3>2, <3>3
  <2>7. Range(s) \ {Head(s)} \subseteq Range(u)
    <3>1. SUFFICES ASSUME NEW j \in 1..Len(s), j # 1
                   PROVE  s[j] \in Range(u)
      BY <1>2, <2>3
    <3>2. QED
      BY <2>2, <2>3, <3>1
  <2>8. QED
    BY <1>2, <2>5, <2>6, <2>7 DEF IsInjective
<1>5. QED
  BY <1>1, <1>3, <1>4 DEF u

(* A function on 1..n is a list of length n. *)
LEMMA FunctionIsSeq ==
  ASSUME NEW S, NEW n \in Nat, NEW f \in [1..n -> S]
  PROVE  f \in Seq(S) /\ Len(f) = n
<1>1. f \in Seq(S)
  OBVIOUS
<1>2. DOMAIN f = 1..n /\ DOMAIN f = 1..Len(f) /\ Len(f) \in Nat
  BY <1>1
<1>3. QED
  BY <1>1, <1>2


(* A slice of a list: the elements after position i up to position j.       *)
LEMMA SliceFacts ==
  ASSUME NEW S, NEW s \in Seq(S), NEW i \in Nat, NEW j \in Nat, i <= j, j <= Len(s)
  PROVE  /\ SubSeq(s, i + 1, j) \in Seq(S)
         /\ Len(SubSeq(s, i + 1, j)) = j - i
         /\ \A x \in 1..(j - i) : SubSeq(s, i + 1, j)[x] = s[i + x]
<1>1. i + 1 \in Int /\ j \in Int /\ \A x \in (i + 1)..j : s[x] \in S
  OBVIOUS
<1>2. /\ SubSeq(s, i + 1, j) \in Seq(S)
      /\ Len(SubSeq(s, i + 1, j)) = IF i + 1 <= j THEN j - (i + 1) + 1 ELSE 0
      /\ \A x \in 1..(j - (i + 1) + 1) : SubSeq(s, i + 1, j)[x] = s[(i + 1) + x - 1]
  BY <1>1, SubSeqProperties
<1>3. j - (i + 1) + 1 = j - i /\ \A x \in 1..(j - i) : (i + 1) + x - 1 = i + x
  OBVIOUS
<1>. QED
  BY <1>2, <1>3

(* The first n elements of a slice and those that follow them are slices.   *)
LEMMA SliceOfSlice ==
  ASSUME NEW S, NEW s \in Seq(S), NEW i \in Nat, NEW j \in Nat, i <= j, j <= Len(s),
         NEW n \in 0..(j - i)
  PROVE  /\ SubSeq(SubSeq(s, i + 1, j), 1, n) = SubSeq(s, i + 1, i + n)
         /\ SubSeq(SubSeq(s, i + 1, j), n + 1, Len(SubSeq(s, i + 1, j))) = SubSeq(s, i + n + 1, j)
<1> DEFINE t == SubSeq(s, i + 1, j)
<1>1. /\ t \in Seq(S) /\ Len(t) = j - i
      /\ \A x \in 1..(j - i) : t[x] = s[i + x]
  BY SliceFacts
<1>2. SubSeq(t, 1, n) = SubSeq(s, i + 1, i + n)
  <2>1. /\ SubSeq(t, 0 + 1, n) \in Seq(S) /\ Len(SubSeq(t, 0 + 1, n)) = n - 0
        /\ \A x \in 1..(n - 0) : SubSeq(t, 0 + 1, n)[x] = t[0 + x]
    <3>1. 0 \in Nat /\ n \in Nat /\ 0 <= n /\ n <= Len(t)
      BY <1>1
    <3>. QED
      BY <1>1, <3>1, SliceFacts
  <2>2. /\ SubSeq(s, i + 1, i + n) \in Seq(S) /\ Len(SubSeq(s, i + 1, i + n)) = (i + n) - i
        /\ \A x \in 1..((i + n) - i) : SubSeq(s, i + 1, i + n)[x] = s[i + x]
    <3>1. i + n \in Nat /\ i <= i + n /\ i + n <= Len(s)
      OBVIOUS
    <3>. QED
      BY <3>1, SliceFacts
  <2> HIDE DEF t
  <2>. QED
    BY <1>1, <2>1, <2>2, SeqEqual
<1>3. SubSeq(t, n + 1, Len(t)) = SubSeq(s, i + n + 1, j)
  <2>1. /\ SubSeq(t, n + 1, j - i) \in Seq(S) /\ Len(SubSeq(t, n + 1, j - i)) = (j - i) - n
        /\ \A x \in 1..((j - i) - n) : SubSeq(t, n + 1, j - i)[x] = t[n + x]
    <3>1. n \in Nat /\ j - i \in Nat /\ n <= j - i /\ j - i <= Len(t)
      BY <1>1
    <3>. QED
      BY <1>1, <3>1, SliceFacts
  <2>2. /\ SubSeq(s, (i + n) + 1, j) \in Seq(S) /\ Len(SubSeq(s, (i + n) + 1, j)) = j - (i + n)
        /\ \A x \in 1..(j - (i + n)) : SubSeq(s, (i + n) + 1, j)[x] = s[(i + n) + x]
    <3>1. i + n \in Nat /\ i + n <= j
      OBVIOUS
    <3>. QED
      BY <3>1, SliceFacts
  <2> HIDE DEF t
  <2>3. (j - i) - n = j - (i + n)
    OBVIOUS
  <2>4. \A x \in 1..(j - (i + n)) : SubSeq(t, n + 1, j - i)[x] = SubSeq(s, (i + n) + 1, j)[x]
    <3> SUFFICES ASSUME NEW x \in 1..(j - (i + n))
                 PROVE  SubSeq(t, n + 1, j - i)[x] = SubSeq(s, (i + n) + 1, j)[x]
      OBVIOUS
    <3>1. n + x \in 1..(j - i) /\ i + (n + x) = (i + n) + x
      OBVIOUS
    <3>. QED
      BY <1>1, <2>1, <2>2, <2>3, <3>1
  <2>. QED
    BY <1>1, <2>1, <2>2, <2>3, <2>4, SeqEqual
<1>. QED
  BY <1>2, <1>3

(* Concatenation: a list that is extended, and the words of two lists.     *)
LEMMA ConcatAppend ==
  ASSUME NEW S, NEW s \in Seq(S), NEW t \in Seq(S), NEW x \in S
  PROVE  s \o Append(t, x) = Append(s \o t, x)
<1> DEFINE u == Append(t, x)
           v == s \o t
<1>1. u \in Seq(S) /\ Len(u) = Len(t) + 1 /\ (\A i \in 1..Len(t) : u[i] = t[i]) /\ u[Len(t) + 1] = x
  BY AppendProperties
<1>2. /\ v \in Seq(S) /\ Len(v) = Len(s) + Len(t)
      /\ \A i \in 1..(Len(s) + Len(t)) : v[i] = IF i <= Len(s) THEN s[i] ELSE t[i - Len(s)]
  BY ConcatProperties
<1>3. Len(s) \in Nat /\ Len(t) \in Nat
  OBVIOUS
<1> HIDE DEF u, v
<1>4. /\ s \o u \in Seq(S) /\ Len(s \o u) = Len(s) + Len(u)
      /\ \A i \in 1..(Len(s) + Len(u)) : (s \o u)[i] = IF i <= Len(s) THEN s[i] ELSE u[i - Len(s)]
  BY <1>1, ConcatProperties
<1>5. /\ Append(v, x) \in Seq(S) /\ Len(Append(v, x)) = Len(v) + 1
      /\ (\A i \in 1..Len(v) : Append(v, x)[i] = v[i]) /\ Append(v, x)[Len(v) + 1] = x
  BY <1>2, AppendProperties
<1>6. ASSUME NEW i \in 1..Len(s \o u)
      PROVE  (s \o u)[i] = Append(v, x)[i]
  <2>1. CASE i = Len(s) + Len(t) + 1
    <3>1. ~(i <= Len(s)) /\ i - Len(s) = Len(t) + 1 /\ i \in 1..(Len(s) + Len(u)) /\ i = Len(v) + 1
      BY <1>1, <1>2, <1>3, <2>1
    <3>. QED
      BY <1>1, <1>4, <1>5, <3>1
  <2>2. CASE i # Len(s) + Len(t) + 1
    <3>1. i \in 1..(Len(s) + Len(t)) /\ i \in 1..Len(v) /\ i \in 1..(Len(s) + Len(u))
      BY <1>1, <1>2, <1>3, <1>4, <2>2
    <3>2. Append(v, x)[i] = IF i <= Len(s) THEN s[i] ELSE t[i - Len(s)]
      BY <1>2, <1>5, <3>1
    <3>3. (s \o u)[i] = IF i <= Len(s) THEN s[i] ELSE u[i - Len(s)]
      BY <1>4, <3>1
    <3>4. ~(i <= Len(s)) => i - Len(s) \in 1..Len(t)
      BY <1>3, <3>1
    <3>. QED
      BY <1>1, <3>2, <3>3, <3>4
  <2>. QED
    BY <2>1, <2>2
<1>7. Len(s \o u) = Len(Append(v, x))
  BY <1>1, <1>2, <1>3, <1>4, <1>5
<1>. QED
  BY <1>4, <1>5, <1>6, <1>7, SeqEqual DEF u, v

-----------------------------------------------------------------------------
(* Natural numbers: least and greatest elements, and counting up.          *)

(* A set of natural numbers has a least element. *)
LEMMA LeastExists ==
  ASSUME NEW S \in SUBSET Nat, S # {}
  PROVE  \E n \in S : \A k \in S : n <= k
<1>1. PICK n \in S : \A k \in S : ~(<<k, n>> \in OpToRel(<, Nat))
  <2>1. \E x \in S : \A y \in S : ~(<<y, x>> \in OpToRel(<, Nat))
    BY NatLessThanWellFounded, WFMin, Zenon
  <2>. QED
    BY <2>1
<1>2. ASSUME NEW k \in S
      PROVE  n <= k
  <2>1. ~(k < n)
    BY <1>1 DEF OpToRel
  <2>. QED
    BY <2>1
<1>. QED
  BY <1>2

(* A bounded one has a greatest element. *)
LEMMA GreatestExists ==
  ASSUME NEW m \in Nat, NEW S \in SUBSET (0..m), S # {}
  PROVE  \E n \in S : \A k \in S : n >= k
<1> DEFINE T == {m - k : k \in S}
<1>0. \A k \in S : k \in 0..m
  OBVIOUS
<1>1. T \in SUBSET Nat /\ T # {}
  <2>1. \A k \in S : m - k \in Nat
    BY <1>0
  <2>. QED
    BY <2>1
<1>2. PICK t \in T : \A u \in T : t <= u
  BY <1>1, LeastExists
<1>3. PICK n \in S : t = m - n
  BY <1>2
<1>4. \A k \in S : m - n <= m - k
  BY <1>2, <1>3
<1>. QED
  BY <1>0, <1>4

(* What holds of 0 and of the successor of each number that it holds of,   *)
(* up to a bound, holds up to that bound.                                  *)
LEMMA CountUp ==
  ASSUME NEW m \in Nat, NEW P, 0 \in P, \A k \in 0..(m - 1) : k \in P => k + 1 \in P
  PROVE  \A k \in 0..m : k \in P
<1> DEFINE T == {k \in 0..m : k \notin P}
<1>1. SUFFICES ASSUME T # {}
               PROVE  FALSE
  OBVIOUS
<1>2. T \in SUBSET Nat
  OBVIOUS
<1>3. PICK n \in T : \A k \in T : n <= k
  BY <1>1, <1>2, LeastExists
<1>4. n \in 0..m /\ n \notin P /\ n # 0
  BY <1>3
<1>5. n - 1 \in 0..(m - 1) /\ n - 1 \notin T
  BY <1>3, <1>4
<1>6. n - 1 \in P
  BY <1>5
<1>. QED
  BY <1>4, <1>5, <1>6

(* Max of some numbers up to m is the greatest of them. *)
LEMMA MaxFacts ==
  ASSUME NEW m \in Nat, NEW d \in SUBSET (1..m), d # {}
  PROVE  Max(d) \in d /\ \A k \in d : Max(d) >= k
<1>1. d \in SUBSET (0..m)
  OBVIOUS
<1>2. \E n \in d : \A k \in d : n >= k
  BY <1>1, GreatestExists
<1>. QED
  BY <1>2 DEF Max

(* Without its greatest number an interval from 1 on is one up to the next *)
(* smaller number.                                                         *)
LEMMA IntervalFacts ==
  ASSUME NEW k \in Nat \ {0}
  PROVE  Max(1..k) = k /\ (1..k) \ {k} = 1..(k - 1) /\ 1..k # {}
<1>1. k \in 1..k /\ 1..k \in SUBSET (1..k)
  OBVIOUS
<1>2. Max(1..k) \in 1..k /\ Max(1..k) >= k
  BY <1>1, MaxFacts
<1>3. Max(1..k) = k
  BY <1>2
<1>. QED
  BY <1>1, <1>3

=============================================================================

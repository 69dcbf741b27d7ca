------------------------- MODULE HttpExchange_proofs -------------------------
(***************************************************************************)
(* Proofs about HttpExchange, for all messages and answers that the parser *)
(* reads as ReadsMessages and ReadsReplies say: RequestIntact,             *)
(* ParsersAccept and ResponseIntact are invariants, and the exchange       *)
(* implements RequestResponse.  They rest on what is proved first of the   *)
(* parser: it makes of a message in pieces what it makes of it at once.    *)
(***************************************************************************)
EXTENDS HttpExchange, SequenceFacts

-----------------------------------------------------------------------------
(* The parser, chunk by chunk. *)

(* FoldLeft() folds a set of positions at a time, the greatest last: what  *)
(* it makes of each of them is in a table.                                 *)
IsTable(table, s, data, m) ==
  table = [d \in SUBSET (1..m) |->
             IF d = {} THEN s ELSE parseCharacter(table[d \ {Max(d)}], data[Max(d)])]

LEMMA TableGrows ==
  ASSUME NEW s, NEW data, NEW m \in Nat, NEW table, IsTable(table, s, data, m)
  PROVE  \E bigger : IsTable(bigger, s, data, m + 1)
<1> DEFINE bigger == [d \in SUBSET (1..(m + 1)) |->
                        IF m + 1 \in d THEN parseCharacter(table[d \ {m + 1}], data[m + 1]) ELSE table[d]]
           Entry(d) == IF d = {} THEN s ELSE parseCharacter(bigger[d \ {Max(d)}], data[Max(d)])
<1>1. \A d \in SUBSET (1..m) : bigger[d] = table[d]
  OBVIOUS
<1>2. ASSUME NEW d \in SUBSET (1..(m + 1))
      PROVE  bigger[d] = Entry(d)
  <2>1. CASE m + 1 \in d
    <3>1. Max(d) \in d /\ \A k \in d : Max(d) >= k
      BY <2>1, MaxFacts
    <3>2. Max(d) = m + 1
      <4>1. Max(d) >= m + 1 /\ Max(d) \in 1..(m + 1)
        BY <2>1, <3>1
      <4>. QED
        BY <4>1
    <3>3. d \ {m + 1} \in SUBSET (1..m)
      OBVIOUS
    <3>4. bigger[d] = parseCharacter(table[d \ {m + 1}], data[m + 1])
      BY <2>1
    <3>5. bigger[d \ {m + 1}] = table[d \ {m + 1}]
      BY <1>1, <3>3
    <3> HIDE DEF bigger
    <3>. QED
      BY <2>1, <3>2, <3>4, <3>5
  <2>2. CASE m + 1 \notin d
    <3>1. d \in SUBSET (1..m)
      BY <2>2
    <3>2. bigger[d] = table[d]
      BY <2>2
    <3>3. d \ {Max(d)} \in SUBSET (1..m)
      BY <3>1
    <3>4. bigger[d \ {Max(d)}] = table[d \ {Max(d)}]
      BY <1>1, <3>3
    <3>5. table[d] = IF d = {} THEN s ELSE parseCharacter(table[d \ {Max(d)}], data[Max(d)])
      BY <3>1 DEF IsTable
    <3> HIDE DEF bigger
    <3>. QED
      BY <3>2, <3>4, <3>5
  <2>. QED
    BY <2>1, <2>2
<1>3. bigger = [d \in SUBSET (1..(m + 1)) |-> Entry(d)]
  <2>1. bigger = [d \in SUBSET (1..(m + 1)) |-> bigger[d]]
    OBVIOUS
  <2> HIDE DEF bigger, Entry
  <2>. QED
    BY <1>2, <2>1
<1>. QED
  BY <1>3 DEF IsTable

(* The scan of a chunk, character by character. *)
Runs(run, s, data, n) ==
  run[0] = s /\ \A k \in 1..n : run[k] = parseCharacter(run[k - 1], data[k])

LEMMA ScanRuns ==
  ASSUME NEW S, NEW data \in Seq(S), NEW s
  PROVE  \E run : /\ run = [k \in 0..Len(data) |-> run[k]]
                  /\ Runs(run, s, data, Len(data))
                  /\ FoldLeft(parseCharacter, s, data) = run[Len(data)]
<1> DEFINE n == Len(data)
           P == {m \in Nat : \E table : IsTable(table, s, data, m)}
           table == CHOOSE t : IsTable(t, s, data, n)
           run == [k \in 0..n |-> table[1..k]]
<1>1. n \in Nat /\ DOMAIN data = 1..n
  OBVIOUS
<1>2. n \in P
  <2>1. 0 \in P
    <3>1. IsTable([d \in SUBSET (1..0) |-> s], s, data, 0)
      <4>1. \A d \in SUBSET (1..0) : d = {}
        OBVIOUS
      <4>. QED
        BY <4>1 DEF IsTable
    <3>. QED
      BY <3>1
  <2>2. \A k \in 0..(n - 1) : k \in P => k + 1 \in P
    BY TableGrows
  <2> HIDE DEF P
  <2>3. \A k \in 0..n : k \in P
    BY <1>1, <2>1, <2>2, CountUp
  <2>. QED
    BY <1>1, <2>3
<1>3. IsTable(table, s, data, n)
  BY <1>2
<1>4. FoldLeft(parseCharacter, s, data) = (CHOOSE t : IsTable(t, s, data, n))[1..n]
  <2>1. FoldLeft(parseCharacter, s, data)
          = (CHOOSE t : t = [d \in SUBSET DOMAIN data |->
               IF d = {} THEN s ELSE parseCharacter(t[d \ {Max(d)}], data[Max(d)])])[DOMAIN data]
    BY Zenon DEF FoldLeft, MapThenFoldSet
  <2> HIDE DEF n
  <2>. QED
    BY <1>1, <2>1, Zenon DEF IsTable
<1> HIDE DEF table, n
<1>5. \A d \in SUBSET (1..n) :
        table[d] = IF d = {} THEN s ELSE parseCharacter(table[d \ {Max(d)}], data[Max(d)])
  BY <1>3 DEF IsTable
<1>6. run[0] = s
  <2>1. 1..0 = {} /\ 1..0 \in SUBSET (1..n) /\ 0 \in 0..n
    BY <1>1
  <2>. QED
    BY <1>5, <2>1
<1>7. ASSUME NEW k \in 1..n
      PROVE  run[k] = parseCharacter(run[k - 1], data[k])
  <2>1. k \in Nat \ {0} /\ k <= n
    BY <1>1
  <2>2. Max(1..k) = k /\ (1..k) \ {k} = 1..(k - 1) /\ 1..k # {}
    BY <2>1, IntervalFacts
  <2>4. k \in 0..n /\ k - 1 \in 0..n /\ 1..k \in SUBSET (1..n)
    BY <1>1, <2>1
  <2>3. run[k] = table[1..k] /\ run[k - 1] = table[1..(k - 1)]
    BY <2>4
  <2>. QED
    BY <1>5, <2>2, <2>3, <2>4
<1>8. n \in 0..n /\ run[n] = table[1..n]
  BY <1>1
<1>9. run = [k \in 0..n |-> run[k]]
  OBVIOUS
<1> HIDE DEF run
<1>. QED
  BY <1>4, <1>6, <1>7, <1>8, <1>9 DEF Runs, table, n

(* A scan that passes through a state ends as a scan of the rest from it.  *)
LEMMA RunIsScan ==
  ASSUME NEW S, NEW data \in Seq(S), NEW s, NEW run, Runs(run, s, data, Len(data))
  PROVE  FoldLeft(parseCharacter, s, data) = run[Len(data)]
<1>1. Len(data) \in Nat
  OBVIOUS
<1>2. PICK other : /\ Runs(other, s, data, Len(data))
                   /\ FoldLeft(parseCharacter, s, data) = other[Len(data)]
  BY ScanRuns
<1> DEFINE P == {k \in 0..Len(data) : run[k] = other[k]}
<1>3. 0 \in P
  BY <1>1, <1>2 DEF Runs
<1>4. \A k \in 0..(Len(data) - 1) : k \in P => k + 1 \in P
  <2>1. SUFFICES ASSUME NEW k \in 0..(Len(data) - 1), run[k] = other[k]
                 PROVE  run[k + 1] = other[k + 1]
    BY <1>1
  <2>2. k + 1 \in 1..Len(data) /\ (k + 1) - 1 = k
    BY <1>1
  <2>. QED
    BY <1>2, <2>1, <2>2 DEF Runs
<1> HIDE DEF P
<1>5. \A k \in 0..Len(data) : k \in P
  BY <1>1, <1>3, <1>4, CountUp
<1>6. Len(data) \in P
  BY <1>1, <1>5
<1>. QED
  BY <1>2, <1>6 DEF P

(* The state of a scan: an incomplete line of earlier chunks is kept until *)
(* this one ends a line, and nothing is left over before the header ends.  *)
ScanState(s, S) ==
  /\ s = [header |-> s.header, last |-> s.last, lines |-> s.lines, line |-> s.line,
          adjacent |-> s.adjacent, totalLines |-> s.totalLines, rest |-> s.rest]
  /\ s.last \in Seq(S) /\ s.line \in Seq(S) /\ s.rest \in Seq(S)
  /\ s.lines \in Nat /\ s.adjacent \in 0..2 /\ s.totalLines \in Nat
  /\ s.last # <<>> => s.lines = 0
  /\ IF s.adjacent = 2 THEN s.last = <<>> /\ s.line = <<>> ELSE s.rest = <<>>

(* The incomplete line, of this chunk and of those before. *)
LineOf(s) == s.last \o s.line

HeaderAfter(s) == IF LineOf(s) = <<>> THEN s.header ELSE parseLine(s, LineOf(s))

(* What the end of a line comes to. *)
LEMMA LineEnds ==
  ASSUME NEW S, NEW s, ScanState(s, S)
  PROVE  endLine(s) = [header |-> HeaderAfter(s), last |-> <<>>,
                       lines |-> IF s.line = <<>> THEN s.lines ELSE s.lines + 1, line |-> <<>>,
                       adjacent |-> s.adjacent + 1, totalLines |-> s.totalLines + 1, rest |-> s.rest]
<1> DEFINE continued == s.lines = 0 /\ s.last # <<>>
           text == IF continued THEN s.last \o s.line ELSE s.line
           next == [s EXCEPT !.header = IF text = <<>> THEN @ ELSE parseLine(s, text),
                             !.last = IF continued THEN <<>> ELSE @,
                             !.lines = IF s.line = <<>> THEN @ ELSE @ + 1,
                             !.line = <<>>, !.adjacent = @ + 1, !.totalLines = @ + 1]
<1>1. s.last \in Seq(S) /\ s.line \in Seq(S) /\ (s.last # <<>> => s.lines = 0)
  BY DEF ScanState
<1>2. ~continued => s.last = <<>>
  BY <1>1
<1>3. <<>> \o s.line = s.line
  BY <1>1, ConcatEmptySeq
<1>4. text = LineOf(s)
  BY <1>2, <1>3 DEF LineOf
<1>5. endLine(s) = next
  BY DEF endLine
<1>6. HeaderAfter(s) = IF text = <<>> THEN s.header ELSE parseLine(s, text)
  BY <1>4, Zenon DEF HeaderAfter
<1>7. s = [header |-> s.header, last |-> s.last, lines |-> s.lines, line |-> s.line,
           adjacent |-> s.adjacent, totalLines |-> s.totalLines, rest |-> s.rest]
  BY DEF ScanState
<1>8. (IF continued THEN <<>> ELSE s.last) = <<>>
  BY <1>2
<1> HIDE DEF text, continued
<1>9. next = [header |-> IF text = <<>> THEN s.header ELSE parseLine(s, text),
              last |-> <<>>,
              lines |-> IF s.line = <<>> THEN s.lines ELSE s.lines + 1, line |-> <<>>,
              adjacent |-> s.adjacent + 1, totalLines |-> s.totalLines + 1, rest |-> s.rest]
  <2> DEFINE h == IF text = <<>> THEN s.header ELSE parseLine(s, text)
             l == IF continued THEN <<>> ELSE s.last
             n == IF s.line = <<>> THEN s.lines ELSE s.lines + 1
  <2>1. next = [s EXCEPT !.header = h, !.last = l, !.lines = n, !.line = <<>>,
                         !.adjacent = s.adjacent + 1, !.totalLines = s.totalLines + 1]
    OBVIOUS
  <2> HIDE DEF h, l, n, next
  <2>2. next = [header |-> h, last |-> l, lines |-> n, line |-> <<>>,
                adjacent |-> s.adjacent + 1, totalLines |-> s.totalLines + 1, rest |-> s.rest]
    BY <1>7, <2>1
  <2>3. l = <<>>
    BY <1>8 DEF l
  <2>. QED
    BY <2>2, <2>3 DEF h, n
<1> HIDE DEF next
<1>. QED
  BY <1>5, <1>6, <1>9, Zenon

(* What each character comes to. *)
LEMMA CharacterParsed ==
  ASSUME NEW s, NEW c
  PROVE  parseCharacter(s, c) =
           IF s.adjacent = 2 THEN [s EXCEPT !.rest = Append(@, c)]
           ELSE IF c = "CR" THEN s
           ELSE IF c = "LF" THEN IF IgnoredLine(s) THEN s ELSE endLine(s)
           ELSE [s EXCEPT !.line = Append(@, c), !.adjacent = 0]
BY Zenon DEF parseCharacter

LEMMA CharacterKeeps ==
  ASSUME NEW S, NEW s, ScanState(s, S), NEW c \in S
  PROVE  ScanState(parseCharacter(s, c), S)
<1>1. /\ s = [header |-> s.header, last |-> s.last, lines |-> s.lines, line |-> s.line,
              adjacent |-> s.adjacent, totalLines |-> s.totalLines, rest |-> s.rest]
      /\ s.last \in Seq(S) /\ s.line \in Seq(S) /\ s.rest \in Seq(S)
      /\ s.lines \in Nat /\ s.adjacent \in 0..2 /\ s.totalLines \in Nat
      /\ s.last # <<>> => s.lines = 0
      /\ IF s.adjacent = 2 THEN s.last = <<>> /\ s.line = <<>> ELSE s.rest = <<>>
  BY DEF ScanState
<1>2. CASE s.adjacent = 2
  <2>1. parseCharacter(s, c) = [s EXCEPT !.rest = Append(@, c)]
    BY <1>2, CharacterParsed
  <2>2. Append(s.rest, c) \in Seq(S)
    BY <1>1, AppendProperties
  <2>3. parseCharacter(s, c)
          = [header |-> s.header, last |-> <<>>, lines |-> s.lines, line |-> <<>>,
             adjacent |-> 2, totalLines |-> s.totalLines, rest |-> Append(s.rest, c)]
    BY <1>1, <1>2, <2>1
  <2>4. <<>> \in Seq(S)
    OBVIOUS
  <2>. QED
    BY <1>1, <1>2, <2>2, <2>3, <2>4 DEF ScanState
<1>3. CASE s.adjacent # 2 /\ (c = "CR" \/ (c = "LF" /\ IgnoredLine(s)))
  <2>1. parseCharacter(s, c) = s
    BY <1>3, CharacterParsed
  <2>. QED
    BY <2>1
<1>4. CASE s.adjacent # 2 /\ c = "LF" /\ ~IgnoredLine(s)
  <2>1. parseCharacter(s, c) = endLine(s)
    BY <1>4, CharacterParsed
  <2>2. s.rest = <<>> /\ s.adjacent + 1 \in 0..2 /\ s.totalLines + 1 \in Nat
    BY <1>1, <1>4
  <2>3. (IF s.line = <<>> THEN s.lines ELSE s.lines + 1) \in Nat
    BY <1>1
  <2>4. parseCharacter(s, c)
          = [header |-> HeaderAfter(s), last |-> <<>>,
             lines |-> IF s.line = <<>> THEN s.lines ELSE s.lines + 1, line |-> <<>>,
             adjacent |-> s.adjacent + 1, totalLines |-> s.totalLines + 1, rest |-> <<>>]
    BY <2>1, <2>2, LineEnds
  <2>5. <<>> \in Seq(S)
    OBVIOUS
  <2>. QED
    BY <2>2, <2>3, <2>4, <2>5 DEF ScanState
<1>5. CASE s.adjacent # 2 /\ c # "CR" /\ c # "LF"
  <2>1. parseCharacter(s, c) = [s EXCEPT !.line = Append(@, c), !.adjacent = 0]
    BY <1>5, CharacterParsed
  <2>2. Append(s.line, c) \in Seq(S)
    BY <1>1, AppendProperties
  <2>3. parseCharacter(s, c)
          = [header |-> s.header, last |-> s.last, lines |-> s.lines, line |-> Append(s.line, c),
             adjacent |-> 0, totalLines |-> s.totalLines, rest |-> s.rest]
    BY <1>1, <2>1
  <2>4. s.rest = <<>>
    BY <1>1, <1>5
  <2>5. 0 \in 0..2 /\ 0 # 2
    OBVIOUS
  <2>. QED
    BY <1>1, <2>2, <2>3, <2>4, <2>5 DEF ScanState
<1>. QED
  BY <1>2, <1>3, <1>4, <1>5

(* Two scans that stand at one place of a message, the second in a later   *)
(* chunk than the first, with "before" left over from earlier ones.        *)
SamePlace(s, t, before) ==
  /\ t.header = s.header /\ LineOf(t) = LineOf(s)
  /\ t.adjacent = s.adjacent /\ t.totalLines = s.totalLines
  /\ s.rest = before \o t.rest

LEMMA CharacterAgrees ==
  ASSUME NEW S, NEW s, ScanState(s, S), NEW t, ScanState(t, S), NEW before \in Seq(S),
         SamePlace(s, t, before), NEW c \in S
  PROVE  SamePlace(parseCharacter(s, c), parseCharacter(t, c), before)
<1> DEFINE p == parseCharacter(s, c)
           q == parseCharacter(t, c)
<1>1. /\ s = [header |-> s.header, last |-> s.last, lines |-> s.lines, line |-> s.line,
              adjacent |-> s.adjacent, totalLines |-> s.totalLines, rest |-> s.rest]
      /\ s.last \in Seq(S) /\ s.line \in Seq(S) /\ s.rest \in Seq(S)
  BY DEF ScanState
<1>2. /\ t = [header |-> t.header, last |-> t.last, lines |-> t.lines, line |-> t.line,
              adjacent |-> t.adjacent, totalLines |-> t.totalLines, rest |-> t.rest]
      /\ t.last \in Seq(S) /\ t.line \in Seq(S) /\ t.rest \in Seq(S)
  BY DEF ScanState
<1>3. /\ t.header = s.header /\ LineOf(t) = LineOf(s)
      /\ t.adjacent = s.adjacent /\ t.totalLines = s.totalLines
      /\ s.rest = before \o t.rest
  BY DEF SamePlace
<1>4. CASE s.adjacent = 2
  <2>1. p = [s EXCEPT !.rest = Append(@, c)] /\ q = [t EXCEPT !.rest = Append(@, c)]
    BY <1>3, <1>4, CharacterParsed
  <2> HIDE DEF p, q
  <2>2. Append(before \o t.rest, c) = before \o Append(t.rest, c)
    <3>1. t.rest \in Seq(S)
      BY <1>2
    <3>2. \A r \in Seq(S) : before \o Append(r, c) = Append(before \o r, c)
      BY ConcatAppend
    <3>. QED
      BY <3>1, <3>2
  <2>3. /\ p.header = s.header /\ p.last = s.last /\ p.line = s.line /\ p.adjacent = s.adjacent
        /\ p.totalLines = s.totalLines /\ p.rest = Append(s.rest, c)
    BY <1>1, <2>1
  <2>4. /\ q.header = t.header /\ q.last = t.last /\ q.line = t.line /\ q.adjacent = t.adjacent
        /\ q.totalLines = t.totalLines /\ q.rest = Append(t.rest, c)
    BY <1>2, <2>1
  <2>5. SamePlace(p, q, before)
    BY <1>3, <2>2, <2>3, <2>4 DEF SamePlace, LineOf
  <2>. QED
    BY <2>5 DEF p, q
<1>5. IgnoredLine(s) = IgnoredLine(t)
  <2>1. LineOf(s) = <<>> <=> s.last = <<>> /\ s.line = <<>>
    BY <1>1, ConcatEqualIffEmpty DEF LineOf
  <2>2. LineOf(t) = <<>> <=> t.last = <<>> /\ t.line = <<>>
    BY <1>2, ConcatEqualIffEmpty DEF LineOf
  <2>. QED
    BY <1>3, <2>1, <2>2 DEF IgnoredLine
<1>6. CASE s.adjacent # 2 /\ (c = "CR" \/ (c = "LF" /\ IgnoredLine(s)))
  <2>1. p = s /\ q = t
    BY <1>3, <1>5, <1>6, CharacterParsed
  <2>. QED
    BY <2>1
<1>7. CASE s.adjacent # 2 /\ c = "LF" /\ ~IgnoredLine(s)
  <2>1. p = endLine(s) /\ q = endLine(t)
    BY <1>3, <1>5, <1>7, CharacterParsed
  <2>2. HeaderAfter(s) = HeaderAfter(t)
    BY <1>3 DEF HeaderAfter, parseLine
  <2> HIDE DEF p, q
  <2>3. /\ p.header = HeaderAfter(s) /\ p.last = <<>> /\ p.line = <<>> /\ p.adjacent = s.adjacent + 1
        /\ p.totalLines = s.totalLines + 1 /\ p.rest = s.rest
    BY <2>1, LineEnds
  <2>4. /\ q.header = HeaderAfter(t) /\ q.last = <<>> /\ q.line = <<>> /\ q.adjacent = t.adjacent + 1
        /\ q.totalLines = t.totalLines + 1 /\ q.rest = t.rest
    BY <2>1, LineEnds
  <2>5. LineOf(p) = LineOf(q)
    BY <2>3, <2>4 DEF LineOf
  <2>6. SamePlace(p, q, before)
    BY <1>3, <2>2, <2>3, <2>4, <2>5 DEF SamePlace
  <2>. QED
    BY <2>6 DEF p, q
<1>8. CASE s.adjacent # 2 /\ c # "CR" /\ c # "LF"
  <2>1. /\ p = [s EXCEPT !.line = Append(@, c), !.adjacent = 0]
        /\ q = [t EXCEPT !.line = Append(@, c), !.adjacent = 0]
    BY <1>3, <1>8, CharacterParsed
  <2> HIDE DEF p, q
  <2>2. /\ p.header = s.header /\ p.last = s.last /\ p.line = Append(s.line, c) /\ p.adjacent = 0
        /\ p.totalLines = s.totalLines /\ p.rest = s.rest
    BY <1>1, <2>1
  <2>3. /\ q.header = t.header /\ q.last = t.last /\ q.line = Append(t.line, c) /\ q.adjacent = 0
        /\ q.totalLines = t.totalLines /\ q.rest = t.rest
    BY <1>2, <2>1
  <2>4. s.last \o Append(s.line, c) = Append(LineOf(s), c)
    BY <1>1, ConcatAppend DEF LineOf
  <2>5. t.last \o Append(t.line, c) = Append(LineOf(t), c)
    BY <1>2, ConcatAppend DEF LineOf
  <2>6. LineOf(p) = LineOf(q)
    BY <1>3, <2>2, <2>3, <2>4, <2>5 DEF LineOf
  <2>7. SamePlace(p, q, before)
    BY <1>3, <2>2, <2>3, <2>6 DEF SamePlace
  <2>. QED
    BY <2>7 DEF p, q
<1>. QED
  BY <1>4, <1>6, <1>7, <1>8

(* After the empty line the header stays and the rest grows. *)
LEMMA CharacterOfRest ==
  ASSUME NEW S, NEW s, ScanState(s, S), s.adjacent = 2, NEW c \in S
  PROVE  LET n == parseCharacter(s, c)
         IN  n.header = s.header /\ n.adjacent = 2 /\ n.totalLines = s.totalLines
BY CharacterParsed DEF ScanState

(* What a chunk comes to. *)
Scan(s, data) == FoldLeft(parseCharacter, s, data)

(* A list of two parts is scanned part by part. *)
LEMMA ScanSplits ==
  ASSUME NEW S, NEW a \in Seq(S), NEW b \in Seq(S), NEW s
  PROVE  Scan(s, a \o b) = Scan(Scan(s, a), b)
<1> DEFINE m == Len(a)
           n == Len(b)
           data == a \o b
<1>1. m \in Nat /\ n \in Nat
  OBVIOUS
<1>2. /\ data \in Seq(S) /\ Len(data) = m + n
      /\ \A i \in 1..(m + n) : data[i] = IF i <= m THEN a[i] ELSE b[i - m]
  BY ConcatProperties
<1>3. PICK first : Runs(first, s, a, m) /\ Scan(s, a) = first[m]
  BY ScanRuns DEF Scan
<1>4. PICK second : Runs(second, Scan(s, a), b, n) /\ Scan(Scan(s, a), b) = second[n]
  BY ScanRuns DEF Scan
<1> DEFINE run == [k \in 0..(m + n) |-> IF k <= m THEN first[k] ELSE second[k - m]]
<1> HIDE DEF m, n, data
<1>5. \A k \in 0..(m + n) : run[k] = IF k <= m THEN first[k] ELSE second[k - m]
  OBVIOUS
<1>6. run[0] = s
  BY <1>1, <1>3, <1>5 DEF Runs
<1>7. run[m + n] = second[n]
  <2>1. CASE n = 0
    BY <1>1, <1>3, <1>4, <1>5, <2>1 DEF Runs
  <2>2. CASE n # 0
    <3>1. ~(m + n <= m) /\ (m + n) - m = n /\ m + n \in 0..(m + n)
      BY <1>1, <2>2
    <3>. QED
      BY <1>5, <3>1
  <2>. QED
    BY <2>1, <2>2
<1>8. ASSUME NEW k \in 1..(m + n)
      PROVE  run[k] = parseCharacter(run[k - 1], data[k])
  <2>1. k \in 0..(m + n) /\ k - 1 \in 0..(m + n)
    BY <1>1
  <2>2. CASE k <= m
    <3>1. k \in 1..m /\ k - 1 <= m
      BY <1>1, <2>2
    <3>2. run[k] = first[k] /\ run[k - 1] = first[k - 1] /\ data[k] = a[k]
      BY <1>2, <1>5, <2>1, <2>2, <3>1
    <3>. QED
      BY <1>3, <3>1, <3>2 DEF Runs
  <2>3. CASE ~(k <= m)
    <3>1. k - m \in 1..n /\ (k - m) - 1 = (k - 1) - m
      BY <1>1, <2>3
    <3>2. run[k] = second[k - m] /\ data[k] = b[k - m]
      BY <1>2, <1>5, <2>1, <2>3
    <3>3. run[k - 1] = second[(k - m) - 1]
      <4>1. CASE k - 1 <= m
        <5>1. k - 1 = m /\ (k - m) - 1 = 0
          BY <1>1, <2>3, <4>1
        <5>2. run[k - 1] = first[m]
          BY <1>5, <2>1, <5>1
        <5>3. second[0] = Scan(s, a)
          BY <1>4 DEF Runs
        <5>. QED
          BY <1>3, <5>1, <5>2, <5>3
      <4>2. CASE ~(k - 1 <= m)
        BY <1>5, <2>1, <3>1, <4>2
      <4>. QED
        BY <4>1, <4>2
    <3>. QED
      BY <1>4, <3>1, <3>2, <3>3 DEF Runs
  <2>. QED
    BY <2>2, <2>3
<1> HIDE DEF run
<1>9. Runs(run, s, data, Len(data))
  BY <1>2, <1>6, <1>8 DEF Runs
<1>10. Scan(s, data) = run[Len(data)]
  BY <1>2, <1>9, RunIsScan DEF Scan
<1>. QED
  BY <1>2, <1>4, <1>7, <1>10 DEF data

(* What holds of every character holds of a chunk. *)
LEMMA ScanKeeps ==
  ASSUME NEW S, NEW data \in Seq(S), NEW s, ScanState(s, S)
  PROVE  /\ ScanState(Scan(s, data), S)
         /\ s.adjacent = 2 => /\ Scan(s, data).adjacent = 2 /\ Scan(s, data).header = s.header
                              /\ Scan(s, data).totalLines = s.totalLines
<1> DEFINE n == Len(data)
<1>1. n \in Nat /\ \A k \in 1..n : data[k] \in S
  OBVIOUS
<1>2. PICK run : Runs(run, s, data, n) /\ Scan(s, data) = run[n]
  BY ScanRuns DEF Scan
<1> DEFINE Good(t) == /\ ScanState(t, S)
                      /\ s.adjacent = 2 => /\ t.adjacent = 2 /\ t.header = s.header
                                           /\ t.totalLines = s.totalLines
           P == {k \in 0..n : Good(run[k])}
<1> HIDE DEF n
<1>3. 0 \in P
  BY <1>1, <1>2 DEF Runs
<1>4. ASSUME NEW k \in 0..(n - 1), k \in P
      PROVE  k + 1 \in P
  <2>1. k + 1 \in 1..n /\ (k + 1) - 1 = k /\ k + 1 \in 0..n
    BY <1>1
  <2>2. run[k + 1] = parseCharacter(run[k], data[k + 1]) /\ data[k + 1] \in S
    BY <1>1, <1>2, <2>1 DEF Runs
  <2>3. Good(run[k])
    BY <1>4
  <2>4. ScanState(run[k + 1], S)
    BY <2>2, <2>3, CharacterKeeps
  <2>5. ASSUME s.adjacent = 2
        PROVE  /\ run[k + 1].adjacent = 2 /\ run[k + 1].header = s.header
               /\ run[k + 1].totalLines = s.totalLines
    BY <2>2, <2>3, <2>5, CharacterOfRest
  <2>. QED
    BY <2>1, <2>4, <2>5
<1> HIDE DEF P
<1>5. \A k \in 0..n : k \in P
  BY <1>1, <1>3, <1>4, CountUp
<1>6. Good(run[n])
  BY <1>1, <1>5 DEF P
<1>. QED
  BY <1>2, <1>6

LEMMA ScanAgrees ==
  ASSUME NEW S, NEW data \in Seq(S), NEW s, ScanState(s, S), NEW t, ScanState(t, S),
         NEW before \in Seq(S), SamePlace(s, t, before)
  PROVE  SamePlace(Scan(s, data), Scan(t, data), before)
<1> DEFINE n == Len(data)
<1>1. n \in Nat /\ \A k \in 1..n : data[k] \in S
  OBVIOUS
<1>2. PICK one : Runs(one, s, data, n) /\ Scan(s, data) = one[n]
  BY ScanRuns DEF Scan
<1>3. PICK two : Runs(two, t, data, n) /\ Scan(t, data) = two[n]
  BY ScanRuns DEF Scan
<1> DEFINE Good(u, v) == ScanState(u, S) /\ ScanState(v, S) /\ SamePlace(u, v, before)
           P == {k \in 0..n : Good(one[k], two[k])}
<1> HIDE DEF n
<1>4. 0 \in P
  BY <1>1, <1>2, <1>3 DEF Runs
<1>5. ASSUME NEW k \in 0..(n - 1), k \in P
      PROVE  k + 1 \in P
  <2>1. k + 1 \in 1..n /\ (k + 1) - 1 = k /\ k + 1 \in 0..n
    BY <1>1
  <2>2. /\ one[k + 1] = parseCharacter(one[k], data[k + 1]) /\ data[k + 1] \in S
        /\ two[k + 1] = parseCharacter(two[k], data[k + 1])
    BY <1>1, <1>2, <1>3, <2>1 DEF Runs
  <2>3. Good(one[k], two[k])
    BY <1>5
  <2>4. ScanState(one[k + 1], S) /\ ScanState(two[k + 1], S)
    BY <2>2, <2>3, CharacterKeeps
  <2>5. SamePlace(one[k + 1], two[k + 1], before)
    BY <2>2, <2>3, CharacterAgrees
  <2>. QED
    BY <2>1, <2>4, <2>5
<1> HIDE DEF P
<1>6. \A k \in 0..n : k \in P
  BY <1>1, <1>4, <1>5, CountUp
<1>7. Good(one[n], two[n])
  BY <1>1, <1>6 DEF P
<1>. QED
  BY <1>2, <1>3, <1>7

(* A scan of nothing changes nothing. *)
LEMMA ScanOfNothing ==
  ASSUME NEW s
  PROVE  Scan(s, <<>>) = s
<1>1. <<>> \in Seq({}) /\ Len(<<>>) = 0
  OBVIOUS
<1>2. PICK run : Runs(run, s, <<>>, Len(<<>>)) /\ Scan(s, <<>>) = run[Len(<<>>)]
  BY <1>1, ScanRuns DEF Scan
<1>. QED
  BY <1>1, <1>2 DEF Runs

-----------------------------------------------------------------------------
(* Between two chunks. *)

Start(parser, header) ==
  [header |-> header, last |-> parser.lastIncompleteLine, lines |-> 0, line |-> <<>>,
   adjacent |-> parser.numAdjacentCRLF, totalLines |-> parser.totalLines, rest |-> <<>>]

(* The parser and the header between two chunks: the size of the body is   *)
(* taken from the header with its last line, and there is no body before.  *)
Between(state, S) ==
  LET parser == state.parser
      length == state.header.Fields.contentLength
  IN  /\ state = [header |-> state.header, parser |-> state.parser]
      /\ parser = [lastIncompleteLine |-> parser.lastIncompleteLine, totalLines |-> parser.totalLines,
                   numAdjacentCRLF |-> parser.numAdjacentCRLF, headerFinished |-> parser.headerFinished,
                   body |-> parser.body, contentSize |-> parser.contentSize, failed |-> parser.failed]
      /\ parser.lastIncompleteLine \in Seq(S) /\ parser.totalLines \in Nat
      /\ parser.numAdjacentCRLF \in 0..2 /\ parser.body \in Seq(S) /\ parser.failed \in BOOLEAN
      /\ parser.headerFinished = (parser.numAdjacentCRLF = 2)
      /\ parser.numAdjacentCRLF = 2 => /\ parser.lastIncompleteLine = <<>>
                                       /\ length \in Nat /\ parser.contentSize = length
      /\ (parser.numAdjacentCRLF = 2 /\ length # 0) \/ (parser.contentSize = 0 /\ parser.body = <<>>)

(* What parse() leaves of a chunk, field by field. *)
Left(parser, s, body, failed) ==
  [lastIncompleteLine |-> IF s.adjacent = 2 THEN <<>> ELSE LineOf(s), totalLines |-> s.totalLines,
   numAdjacentCRLF |-> s.adjacent, headerFinished |-> (s.adjacent = 2),
   body |-> body, contentSize |-> IF s.adjacent = 2 THEN s.header.Fields.contentLength ELSE 0,
   failed |-> failed]

LEMMA StartIsScanState ==
  ASSUME NEW S, NEW state, Between(state, S)
  PROVE  LET s == Start(state.parser, state.header)
         IN  /\ ScanState(s, S) /\ s.rest = <<>> /\ s.adjacent = state.parser.numAdjacentCRLF
             /\ s.header = state.header
<1> DEFINE p == state.parser
           s == Start(p, state.header)
<1>1. /\ p.lastIncompleteLine \in Seq(S) /\ p.totalLines \in Nat /\ p.numAdjacentCRLF \in 0..2
      /\ p.numAdjacentCRLF = 2 => p.lastIncompleteLine = <<>>
  BY DEF Between
<1>2. s = [header |-> state.header, last |-> p.lastIncompleteLine, lines |-> 0, line |-> <<>>,
           adjacent |-> p.numAdjacentCRLF, totalLines |-> p.totalLines, rest |-> <<>>]
  BY DEF Start
<1> HIDE DEF p, s
<1>3. /\ s.header = state.header /\ s.last = p.lastIncompleteLine /\ s.lines = 0 /\ s.line = <<>>
      /\ s.adjacent = p.numAdjacentCRLF /\ s.totalLines = p.totalLines /\ s.rest = <<>>
  BY <1>2
<1>4. s = [header |-> s.header, last |-> s.last, lines |-> s.lines, line |-> s.line,
           adjacent |-> s.adjacent, totalLines |-> s.totalLines, rest |-> s.rest]
  BY <1>2, <1>3
<1>5. <<>> \in Seq(S)
  OBVIOUS
<1>6. ScanState(s, S)
  BY <1>1, <1>3, <1>4, <1>5 DEF ScanState
<1>. QED
  BY <1>3, <1>6 DEF p, s

(* The header after a chunk. *)
LEMMA ParsesHeader ==
  ASSUME NEW S, NEW data \in Seq(S), NEW state, Between(state, S)
  PROVE  LET s == Scan(Start(state.parser, state.header), data)
         IN  /\ ScanState(s, S)
             /\ Parsed(state, data).header = s.header
             /\ Parsed(state, data).parser.headerFinished = (s.adjacent = 2)
<1> DEFINE p == state.parser
           s == Scan(Start(p, state.header), data)
           length == s.header.Fields.contentLength
           scan == scanned(p, s)
           after == IF s.adjacent = 2 /\ length # 0 THEN parseBody(scan, length, s.rest) ELSE scan
<1>1. p = [lastIncompleteLine |-> p.lastIncompleteLine, totalLines |-> p.totalLines,
           numAdjacentCRLF |-> p.numAdjacentCRLF, headerFinished |-> p.headerFinished,
           body |-> p.body, contentSize |-> p.contentSize, failed |-> p.failed]
  BY DEF Between
<1>2. ScanState(s, S)
  BY StartIsScanState, ScanKeeps
<1>3. Parsed(state, data) = [header |-> s.header, parser |-> after]
  BY Zenon DEF Parsed, parse, parsed, parseHeader, Start, Scan
<1> HIDE DEF p, s
<1>4. scan.headerFinished = (s.adjacent = 2)
  BY <1>1 DEF scanned
<1>5. after.headerFinished = scan.headerFinished
  <2> DEFINE l == IF s.adjacent = 2 THEN s.last ELSE s.last \o s.line
             f == s.adjacent = 2
  <2>1. scan = [p EXCEPT !.lastIncompleteLine = l, !.totalLines = s.totalLines,
                         !.numAdjacentCRLF = s.adjacent, !.headerFinished = f]
    BY DEF scanned
  <2> HIDE DEF l, f, scan
  <2>2. scan = [lastIncompleteLine |-> l, totalLines |-> s.totalLines,
                numAdjacentCRLF |-> s.adjacent, headerFinished |-> f,
                body |-> p.body, contentSize |-> p.contentSize, failed |-> p.failed]
    BY <1>1, <2>1
  <2>. QED
    BY <2>2 DEF parseBody
<1> HIDE DEF after
<1>. QED
  BY <1>2, <1>3, <1>4, <1>5 DEF p, s

(* What parse() makes of a chunk. *)
LEMMA Parses ==
  ASSUME NEW S, NEW data \in Seq(S), NEW state, Between(state, S),
         SizeKnown(Parsed(state, data))
  PROVE  LET s == Scan(Start(state.parser, state.header), data)
             length == s.header.Fields.contentLength
             takes == s.adjacent = 2 /\ length # 0
         IN  /\ ScanState(s, S)
             /\ s.adjacent = 2 => length \in Nat
             /\ Parsed(state, data)
                  = [header |-> s.header,
                     parser |-> Left(state.parser, s,
                       IF takes THEN state.parser.body \o s.rest ELSE <<>>,
                       state.parser.failed \/ (takes /\ Len(s.rest) + Len(state.parser.body) > length))]
             /\ Between(Parsed(state, data), S)
<1> DEFINE p == state.parser
           h == state.header
           s == Scan(Start(p, h), data)
           length == s.header.Fields.contentLength
           takes == s.adjacent = 2 /\ length # 0
           scan == scanned(p, s)
           after == IF takes THEN parseBody(scan, length, s.rest) ELSE scan
           body == IF takes THEN p.body \o s.rest ELSE <<>>
           failed == p.failed \/ (takes /\ Len(s.rest) + Len(p.body) > length)
<1>1. /\ p = [lastIncompleteLine |-> p.lastIncompleteLine, totalLines |-> p.totalLines,
              numAdjacentCRLF |-> p.numAdjacentCRLF, headerFinished |-> p.headerFinished,
              body |-> p.body, contentSize |-> p.contentSize, failed |-> p.failed]
      /\ p.body \in Seq(S) /\ p.failed \in BOOLEAN /\ p.numAdjacentCRLF \in 0..2
      /\ p.numAdjacentCRLF = 2 => p.contentSize = h.Fields.contentLength
      /\ (p.numAdjacentCRLF = 2 /\ h.Fields.contentLength # 0) \/ (p.contentSize = 0 /\ p.body = <<>>)
  BY DEF Between
<1>2. ScanState(s, S) /\ (p.numAdjacentCRLF = 2 => s.adjacent = 2 /\ s.header = h)
  BY StartIsScanState, ScanKeeps
<1>3. Parsed(state, data) = [header |-> s.header, parser |-> after]
  BY Zenon DEF Parsed, parse, parsed, parseHeader, Start, Scan
<1>4. /\ s.last \in Seq(S) /\ s.line \in Seq(S) /\ s.rest \in Seq(S) /\ s.totalLines \in Nat
      /\ s.adjacent \in 0..2 /\ (s.adjacent = 2 => s.last = <<>>)
  BY <1>2 DEF ScanState
<1>5. LineOf(s) \in Seq(S) /\ p.body \o s.rest \in Seq(S)
  BY <1>1, <1>4, ConcatProperties DEF LineOf
<1> HIDE DEF p, h, s
<1>6. scan = [lastIncompleteLine |-> IF s.adjacent = 2 THEN <<>> ELSE LineOf(s), totalLines |-> s.totalLines,
              numAdjacentCRLF |-> s.adjacent, headerFinished |-> (s.adjacent = 2),
              body |-> p.body, contentSize |-> p.contentSize, failed |-> p.failed]
  <2>1. (IF s.adjacent = 2 THEN s.last ELSE s.last \o s.line) = IF s.adjacent = 2 THEN <<>> ELSE LineOf(s)
    BY <1>4 DEF LineOf
  <2> DEFINE l == IF s.adjacent = 2 THEN s.last ELSE s.last \o s.line
             f == s.adjacent = 2
  <2>2. scan = [p EXCEPT !.lastIncompleteLine = l, !.totalLines = s.totalLines,
                         !.numAdjacentCRLF = s.adjacent, !.headerFinished = f]
    BY DEF scanned
  <2> HIDE DEF l, f
  <2>3. scan = [lastIncompleteLine |-> l, totalLines |-> s.totalLines,
                numAdjacentCRLF |-> s.adjacent, headerFinished |-> f,
                body |-> p.body, contentSize |-> p.contentSize, failed |-> p.failed]
    BY <1>1, <2>2
  <2>. QED
    BY <2>1, <2>3 DEF l, f
<1> HIDE DEF scan
<1>8. s.adjacent = 2 => length \in Nat
  BY ParsesHeader DEF SizeKnown, p, h, s
<1>9. takes => p.contentSize \in {0, length}
  BY <1>1, <1>2
<1>10. ~takes => p.contentSize = 0 /\ p.body = <<>>
  BY <1>1, <1>2
<1>11. after = Left(p, s, body, failed)
  <2>1. CASE takes
    <3> DEFINE size == IF scan.contentSize = 0 THEN length ELSE scan.contentSize
    <3>1. size = length
      BY <1>6, <1>9, <2>1
    <3>2. after = [scan EXCEPT !.contentSize = size, !.body = scan.body \o s.rest,
                    !.failed = scan.failed \/ Len(s.rest) > length \/ Len(s.rest) + Len(scan.body) > size]
      BY <2>1 DEF parseBody
    <3>3. Len(s.rest) \in Nat /\ Len(p.body) \in Nat
      BY <1>1, <1>4
    <3>4. (scan.failed \/ Len(s.rest) > length \/ Len(s.rest) + Len(scan.body) > size) = failed
      <4>1. scan.failed = p.failed /\ scan.body = p.body
        BY <1>6
      <4>2. Len(s.rest) > length => Len(s.rest) + Len(p.body) > length
        <5>1. length \in Nat
          BY <1>8, <2>1
        <5> DEFINE m == Len(s.rest)
                   n == Len(p.body)
        <5>2. m \in Nat /\ n \in Nat
          BY <3>3
        <5> HIDE DEF length, m, n
        <5>3. m > length => m + n > length
          BY <5>1, <5>2
        <5>. QED
          BY <5>3 DEF m, n
      <4> HIDE DEF size
      <4>. QED
        BY <1>1, <2>1, <3>1, <4>1, <4>2
    <3> DEFINE g == scan.failed \/ Len(s.rest) > length \/ Len(s.rest) + Len(scan.body) > size
    <3> HIDE DEF size, after, failed, length
    <3>5. after = [scan EXCEPT !.contentSize = length, !.body = p.body \o s.rest, !.failed = g]
      BY <1>6, <3>1, <3>2
    <3> HIDE DEF g
    <3>6. after = [lastIncompleteLine |-> IF s.adjacent = 2 THEN <<>> ELSE LineOf(s),
                   totalLines |-> s.totalLines, numAdjacentCRLF |-> s.adjacent,
                   headerFinished |-> (s.adjacent = 2), body |-> p.body \o s.rest,
                   contentSize |-> length, failed |-> g]
      BY <1>6, <3>5
    <3>. QED
      BY <2>1, <3>4, <3>6 DEF Left, g, length
  <2>2. CASE ~takes
    <3>1. after = scan
      BY <2>2
    <3>2. failed = p.failed /\ body = p.body
      BY <1>1, <1>10, <2>2
    <3>3. p.contentSize = IF s.adjacent = 2 THEN length ELSE 0
      BY <1>10, <2>2
    <3>. QED
      BY <1>6, <3>1, <3>2, <3>3 DEF Left
  <2>. QED
    BY <2>1, <2>2
<1> HIDE DEF after, takes, length
<1>12. Between(Parsed(state, data), S)
  <2>1. body \in Seq(S) /\ failed \in BOOLEAN
    BY <1>1, <1>5
  <2> HIDE DEF body, failed
  <2>2. /\ after.lastIncompleteLine = IF s.adjacent = 2 THEN <<>> ELSE LineOf(s)
        /\ after.totalLines = s.totalLines /\ after.numAdjacentCRLF = s.adjacent
        /\ after.headerFinished = (s.adjacent = 2) /\ after.body = body /\ after.failed = failed
        /\ after.contentSize = IF s.adjacent = 2 THEN length ELSE 0
    BY <1>11 DEF Left, length
  <2>3. after = [lastIncompleteLine |-> after.lastIncompleteLine, totalLines |-> after.totalLines,
                 numAdjacentCRLF |-> after.numAdjacentCRLF, headerFinished |-> after.headerFinished,
                 body |-> after.body, contentSize |-> after.contentSize, failed |-> after.failed]
    BY <1>11 DEF Left
  <2>4. (s.adjacent = 2 /\ length # 0) \/ (after.contentSize = 0 /\ after.body = <<>>)
    BY <2>2 DEF takes, body
  <2>5. after.lastIncompleteLine \in Seq(S)
    <3>1. <<>> \in Seq(S)
      OBVIOUS
    <3>. QED
      BY <1>5, <2>2, <3>1
  <2> DEFINE next == Parsed(state, data)
  <2>6. /\ next.header = s.header /\ next.parser = after
        /\ next = [header |-> next.header, parser |-> next.parser]
    BY <1>3
  <2> HIDE DEF next
  <2>7. next.header.Fields.contentLength = length
    BY <2>6 DEF length
  <2>. QED
    BY <1>4, <1>8, <2>1, <2>2, <2>3, <2>4, <2>5, <2>6, <2>7 DEF Between, next
<1>. QED
  BY <1>2, <1>3, <1>8, <1>11, <1>12 DEF p, h, s, length, takes, body, failed

(* A chunk that comes in two pieces is parsed as the whole of it, wherever *)
(* it is cut: in a line, between a CR and its LF, in the body.             *)
THEOREM PiecesAreOne ==
  ASSUME NEW S, NEW a \in Seq(S), NEW b \in Seq(S), NEW state, Between(state, S),
         SizeKnown(Parsed(state, a \o b))
  PROVE  Parsed(Parsed(state, a), b) = Parsed(state, a \o b)
<1> DEFINE p == state.parser
           start == Start(p, state.header)
           middle == Scan(start, a)
           end == Scan(start, a \o b)
           first == Parsed(state, a)
           restart == Start(first.parser, first.header)
           reached == Scan(restart, b)
           length == end.header.Fields.contentLength
           TakesAt(s) == s.adjacent = 2 /\ s.header.Fields.contentLength # 0
           BodyAt(s) == IF TakesAt(s) THEN p.body \o s.rest ELSE <<>>
           FailedAt(s) == p.failed \/ (TakesAt(s) /\ Len(s.rest) + Len(p.body) > s.header.Fields.contentLength)
           BodyThen(s) == IF TakesAt(s) THEN first.parser.body \o s.rest ELSE <<>>
           FailedThen(s) ==
             first.parser.failed \/ (TakesAt(s) /\ Len(s.rest) + Len(first.parser.body) > s.header.Fields.contentLength)
<1>1. a \o b \in Seq(S)
  BY ConcatProperties
<1>2. /\ ScanState(end, S) /\ (end.adjacent = 2 => length \in Nat)
      /\ Parsed(state, a \o b) = [header |-> end.header, parser |-> Left(p, end, BodyAt(end), FailedAt(end))]
  BY <1>1, Parses
<1>3. end = Scan(middle, b)
  BY ScanSplits
<1>4. ScanState(middle, S) /\ (middle.adjacent = 2 => end.adjacent = 2 /\ end.header = middle.header)
  BY <1>3, ParsesHeader, ScanKeeps
<1>5. SizeKnown(first)
  <2>1. first.header = middle.header /\ first.parser.headerFinished = (middle.adjacent = 2)
    BY ParsesHeader
  <2> HIDE DEF first, middle, end
  <2>. QED
    BY <1>2, <1>4, <2>1 DEF SizeKnown
<1>6. /\ Between(first, S)
      /\ first = [header |-> middle.header, parser |-> Left(p, middle, BodyAt(middle), FailedAt(middle))]
  BY <1>5, Parses
<1> HIDE DEF p, start, middle, end, first, restart, reached
<1>7. /\ first.header = middle.header
      /\ first.parser.lastIncompleteLine = (IF middle.adjacent = 2 THEN <<>> ELSE LineOf(middle))
      /\ first.parser.totalLines = middle.totalLines /\ first.parser.numAdjacentCRLF = middle.adjacent
      /\ first.parser.body = BodyAt(middle) /\ first.parser.failed = FailedAt(middle)
  BY <1>6 DEF Left
<1>8. p.body \in Seq(S) /\ p.failed \in BOOLEAN /\ middle.rest \in Seq(S)
  BY <1>4 DEF Between, ScanState, p
<1>9. SamePlace(middle, restart, middle.rest)
  <2>1. /\ restart.header = middle.header /\ restart.last = first.parser.lastIncompleteLine
        /\ restart.line = <<>> /\ restart.adjacent = middle.adjacent
        /\ restart.totalLines = middle.totalLines /\ restart.rest = <<>>
    BY <1>7 DEF restart, Start
  <2>2. first.parser.lastIncompleteLine = LineOf(middle) /\ LineOf(middle) \in Seq(S)
    <3>1. middle.last \in Seq(S) /\ middle.line \in Seq(S)
          /\ (middle.adjacent = 2 => middle.last = <<>> /\ middle.line = <<>>)
      BY <1>4 DEF ScanState
    <3>2. LineOf(middle) \in Seq(S)
      BY <3>1, ConcatProperties DEF LineOf
    <3>3. middle.adjacent = 2 => LineOf(middle) = <<>>
      BY <3>1, ConcatEqualIffEmpty DEF LineOf
    <3>. QED
      BY <1>7, <3>2, <3>3
  <2>3. LineOf(restart) = LineOf(middle)
    BY <2>1, <2>2, ConcatEmptySeq DEF LineOf
  <2>4. middle.rest = middle.rest \o restart.rest
    BY <1>6, <2>1, ConcatEmptySeq
  <2>. QED
    BY <2>1, <2>3, <2>4 DEF SamePlace
<1>10. /\ reached.header = end.header /\ LineOf(reached) = LineOf(end)
      /\ reached.adjacent = end.adjacent /\ reached.totalLines = end.totalLines
      /\ end.rest = middle.rest \o reached.rest
  <2>1. ScanState(restart, S)
    BY <1>6, StartIsScanState DEF restart
  <2>2. SamePlace(end, reached, middle.rest)
    BY <1>3, <1>4, <1>9, <1>8, <2>1, ScanAgrees DEF reached
  <2>. QED
    BY <2>2 DEF SamePlace
<1>11. /\ ScanState(reached, S)
       /\ Parsed(first, b)
            = [header |-> reached.header, parser |-> Left(first.parser, reached, BodyThen(reached), FailedThen(reached))]
  <2>1. /\ ScanState(reached, S) /\ Parsed(first, b).header = reached.header
        /\ Parsed(first, b).parser.headerFinished = (reached.adjacent = 2)
    <3>1. Between(first, S)
      BY <1>6
    <3>2. LET s == Scan(Start(first.parser, first.header), b)
          IN  /\ ScanState(s, S) /\ Parsed(first, b).header = s.header
              /\ Parsed(first, b).parser.headerFinished = (s.adjacent = 2)
      BY <3>1, ParsesHeader, Zenon
    <3>. QED
      BY <3>2 DEF reached, restart
  <2>2. SizeKnown(Parsed(first, b))
    BY <1>2, <1>10, <2>1 DEF SizeKnown
  <2>. QED
    <3>1. Between(first, S)
      BY <1>6
    <3>2. LET s == Scan(Start(first.parser, first.header), b)
              takes == s.adjacent = 2 /\ s.header.Fields.contentLength # 0
          IN  Parsed(first, b)
                = [header |-> s.header,
                   parser |-> Left(first.parser, s,
                     IF takes THEN first.parser.body \o s.rest ELSE <<>>,
                     first.parser.failed
                       \/ (takes /\ Len(s.rest) + Len(first.parser.body) > s.header.Fields.contentLength))]
      BY <2>2, <3>1, Parses, Zenon
    <3>. QED
      BY <2>1, <3>2, Zenon DEF reached, restart, BodyThen, FailedThen, TakesAt
<1>12. middle.adjacent # 2 => middle.rest = <<>> /\ p.body = <<>>
  <2>1. p.numAdjacentCRLF = 2 => middle.adjacent = 2
    BY StartIsScanState, ScanKeeps DEF start, middle, p
  <2>2. p.numAdjacentCRLF # 2 => p.body = <<>>
    BY DEF Between, p
  <2>. QED
    BY <1>4, <2>1, <2>2 DEF ScanState
<1>13. ASSUME ~TakesAt(end)
       PROVE  BodyThen(reached) = BodyAt(end) /\ FailedThen(reached) = FailedAt(end)
  <2>1. ~TakesAt(reached) /\ ~TakesAt(middle)
    BY <1>4, <1>10, <1>13
  <2>. QED
    BY <1>7, <1>8, <1>13, <2>1
<1>14. ASSUME TakesAt(end)
       PROVE  BodyThen(reached) = BodyAt(end) /\ FailedThen(reached) = FailedAt(end)
  <2>1. TakesAt(reached) /\ length \in Nat
    BY <1>2, <1>10, <1>14
  <2>2. p.body \o end.rest = (p.body \o middle.rest) \o reached.rest
    <3>1. reached.rest \in Seq(S)
      BY <1>11 DEF ScanState
    <3>2. \A x, y, z \in Seq(S) : (x \o y) \o z = x \o (y \o z)
      BY ConcatAssociative
    <3>3. p.body \in Seq(S) /\ middle.rest \in Seq(S)
      BY <1>8
    <3>4. (p.body \o middle.rest) \o reached.rest = p.body \o (middle.rest \o reached.rest)
      BY <3>1, <3>2, <3>3, Zenon
    <3>. QED
      BY <1>10, <3>4
  <2>3. CASE middle.adjacent = 2
    <3>1. TakesAt(middle) /\ middle.header.Fields.contentLength = length
      BY <1>4, <1>14, <2>3
    <3>2. first.parser.body = p.body \o middle.rest
      BY <1>7, <3>1
    <3>3. BodyThen(reached) = BodyAt(end)
      BY <1>14, <2>1, <2>2, <3>2
    <3> DEFINE m == Len(middle.rest)
               n == Len(reached.rest)
               k == Len(p.body)
    <3>4. m \in Nat /\ n \in Nat /\ k \in Nat /\ reached.rest \in Seq(S)
      BY <1>8, <1>11 DEF ScanState
    <3>5. Len(end.rest) = m + n /\ Len(first.parser.body) = k + m
      BY <1>10, <1>8, <3>2, <3>4, ConcatProperties
    <3>6. first.parser.failed = (p.failed \/ m + k > length)
      BY <1>7, <3>1
    <3>7. FailedThen(reached) = ((p.failed \/ m + k > length) \/ n + (k + m) > length)
      BY <1>10, <2>1, <3>5, <3>6
    <3>8. FailedAt(end) = (p.failed \/ (m + n) + k > length)
      BY <1>14, <3>5
    <3> HIDE DEF m, n, k, length
    <3>9. m + k > length => n + (k + m) > length
      BY <2>1, <3>4
    <3>10. n + (k + m) = (m + n) + k
      BY <3>4
    <3> HIDE DEF FailedThen, FailedAt
    <3>11. FailedThen(reached) = FailedAt(end)
      BY <3>7, <3>8, <3>9, <3>10
    <3>. QED
      BY <3>3, <3>11
  <2>4. CASE middle.adjacent # 2
    <3>1. first.parser.body = <<>> /\ first.parser.failed = p.failed
      BY <1>7, <1>8, <2>4
    <3>2. middle.rest = <<>> /\ p.body = <<>>
      BY <1>12, <2>4
    <3>3. end.rest = reached.rest
      BY <1>10, <1>11, <3>2, ConcatEmptySeq DEF ScanState
    <3>. QED
      BY <1>10, <1>14, <2>1, <3>1, <3>2, <3>3
  <2>. QED
    BY <2>3, <2>4
<1> HIDE DEF TakesAt, BodyAt, FailedAt, BodyThen, FailedThen
<1>15. BodyThen(reached) = BodyAt(end) /\ FailedThen(reached) = FailedAt(end)
  BY <1>13, <1>14
<1>16. Left(first.parser, reached, BodyThen(reached), FailedThen(reached)) = Left(p, end, BodyAt(end), FailedAt(end))
  BY <1>10, <1>15, Zenon DEF Left
<1>. QED
  BY <1>2, <1>10, <1>11, <1>16 DEF first

(* What was refused stays refused. *)
LEMMA CharacterRefused ==
  ASSUME NEW S, NEW s, ScanState(s, S), s.header.threw # 0, NEW c \in S
  PROVE  parseCharacter(s, c).header = s.header
<1>1. s = [header |-> s.header, last |-> s.last, lines |-> s.lines, line |-> s.line,
           adjacent |-> s.adjacent, totalLines |-> s.totalLines, rest |-> s.rest]
  BY DEF ScanState
<1>2. HeaderAfter(s) = s.header
  BY DEF HeaderAfter, parseLine
<1>3. endLine(s).header = s.header
  BY <1>2, LineEnds
<1>. QED
  BY <1>1, <1>3, CharacterParsed

LEMMA ScanRefused ==
  ASSUME NEW S, NEW data \in Seq(S), NEW s, ScanState(s, S), s.header.threw # 0
  PROVE  Scan(s, data).header = s.header
<1> DEFINE n == Len(data)
<1>1. n \in Nat /\ \A k \in 1..n : data[k] \in S
  OBVIOUS
<1>2. PICK run : Runs(run, s, data, n) /\ Scan(s, data) = run[n]
  BY ScanRuns DEF Scan
<1> DEFINE P == {k \in 0..n : ScanState(run[k], S) /\ run[k].header = s.header}
<1> HIDE DEF n
<1>3. 0 \in P
  BY <1>1, <1>2 DEF Runs
<1>4. ASSUME NEW k \in 0..(n - 1), k \in P
      PROVE  k + 1 \in P
  <2>1. k + 1 \in 1..n /\ (k + 1) - 1 = k /\ k + 1 \in 0..n
    BY <1>1
  <2>2. run[k + 1] = parseCharacter(run[k], data[k + 1]) /\ data[k + 1] \in S
    BY <1>1, <1>2, <2>1 DEF Runs
  <2>3. ScanState(run[k], S) /\ run[k].header = s.header
    BY <1>4
  <2>4. ScanState(run[k + 1], S)
    BY <2>2, <2>3, CharacterKeeps
  <2>5. run[k + 1].header = s.header
    BY <2>2, <2>3, CharacterRefused
  <2>. QED
    BY <2>1, <2>4, <2>5
<1> HIDE DEF P
<1>5. \A k \in 0..n : k \in P
  BY <1>1, <1>3, <1>4, CountUp
<1>. QED
  BY <1>1, <1>2, <1>5 DEF P

(* Of a message that is accepted every part is. *)
LEMMA RefusalsStay ==
  ASSUME NEW S, NEW data \in Seq(S), NEW state, Between(state, S), SizeKnown(Parsed(state, data)),
         Accepts(Parsed(state, data))
  PROVE  Accepts(state)
<1> DEFINE s == Scan(Start(state.parser, state.header), data)
           next == Parsed(state, data)
<1>1. next.header = s.header /\ (next.parser.failed = FALSE => state.parser.failed = FALSE)
  <2> DEFINE length == s.header.Fields.contentLength
             takes == s.adjacent = 2 /\ length # 0
             more == takes /\ Len(s.rest) + Len(state.parser.body) > length
             body == IF takes THEN state.parser.body \o s.rest ELSE <<>>
  <2>1. next = [header |-> s.header, parser |-> Left(state.parser, s, body, state.parser.failed \/ more)]
    BY Parses
  <2>2. state.parser.failed \in BOOLEAN
    BY DEF Between
  <2> HIDE DEF s, next, more, body
  <2>3. next.parser.failed = (state.parser.failed \/ more)
    BY <2>1 DEF Left
  <2>. QED
    BY <2>1, <2>2, <2>3
<1>2. state.header.threw # 0 => s.header = state.header
  <2>1. /\ ScanState(Start(state.parser, state.header), S)
        /\ Start(state.parser, state.header).header = state.header
    BY StartIsScanState
  <2>. QED
    BY <2>1, ScanRefused
<1>3. next.parser.failed \in BOOLEAN /\ state.parser.failed \in BOOLEAN
  BY Parses DEF Between
<1>4. ~next.parser.failed /\ next.header.threw = 0
  BY DEF Accepts
<1> HIDE DEF s, next
<1>. QED
  BY <1>1, <1>2, <1>3, <1>4 DEF Accepts

(* The parser begins as it is between two chunks, and to begin with        *)
(* nothing is to have nothing.                                             *)
LEMMA NewIsBetween ==
  ASSUME NEW S, NEW header
  PROVE  LET new == [header |-> header, parser |-> NewParser]
         IN  Between(new, S) /\ Parsed(new, <<>>) = new
<1> DEFINE new == [header |-> header, parser |-> NewParser]
           s == Start(NewParser, header)
<1>1. <<>> \in Seq(S)
  OBVIOUS
<1>2. Between(new, S)
  <2>1. new.parser = NewParser /\ new.header = header /\ new = [header |-> new.header, parser |-> new.parser]
    OBVIOUS
  <2> DEFINE p == NewParser
  <2>2. /\ p.lastIncompleteLine = <<>> /\ p.totalLines = 0 /\ p.numAdjacentCRLF = 0
        /\ p.headerFinished = FALSE /\ p.body = <<>> /\ p.contentSize = 0 /\ p.failed = FALSE
    BY DEF NewParser
  <2>3. p = [lastIncompleteLine |-> p.lastIncompleteLine, totalLines |-> p.totalLines,
             numAdjacentCRLF |-> p.numAdjacentCRLF, headerFinished |-> p.headerFinished,
             body |-> p.body, contentSize |-> p.contentSize, failed |-> p.failed]
    BY DEF NewParser
  <2> HIDE DEF new, p
  <2>4. new.parser = p
    BY <2>1 DEF p
  <2>5. p.headerFinished = (p.numAdjacentCRLF = 2) /\ p.failed \in BOOLEAN
    <3>1. p.numAdjacentCRLF # 2
      BY <2>2
    <3>. QED
      BY <2>2, <3>1, Zenon
  <2>6. /\ p.lastIncompleteLine \in Seq(S) /\ p.totalLines \in Nat /\ p.numAdjacentCRLF \in 0..2
        /\ p.body \in Seq(S) /\ p.numAdjacentCRLF # 2
    BY <1>1, <2>2
  <2>. QED
    BY <2>1, <2>2, <2>3, <2>4, <2>5, <2>6, Zenon DEF Between
<1>3. s.header = header /\ s.adjacent = 0 /\ s.last = <<>> /\ s.line = <<>> /\ s.totalLines = 0
  BY DEF Start, NewParser
<1>4. <<>> \o <<>> = <<>>
  BY <1>1, ConcatEmptySeq
<1>5. Parsed(new, <<>>) = parsed(NewParser, s)
  BY ScanOfNothing, Zenon DEF Parsed, parse, parseHeader, Start, Scan
<1> HIDE DEF s
<1>6. scanned(NewParser, s) = NewParser
  <2> DEFINE l == IF s.adjacent = 2 THEN s.last ELSE s.last \o s.line
             f == s.adjacent = 2
  <2>1. scanned(NewParser, s)
          = [NewParser EXCEPT !.lastIncompleteLine = l, !.totalLines = s.totalLines,
                              !.numAdjacentCRLF = s.adjacent, !.headerFinished = f]
    BY DEF scanned
  <2>2. l = <<>> /\ f = FALSE
    BY <1>3, <1>4
  <2> HIDE DEF l, f
  <2>. QED
    BY <1>3, <2>1, <2>2 DEF NewParser
<1>7. parsed(NewParser, s) = [header |-> s.header, parser |-> scanned(NewParser, s)]
  BY <1>3 DEF parsed
<1>. QED
  BY <1>2, <1>3, <1>5, <1>6, <1>7

(* A message may be cut anywhere: in however many pieces it arrives, what  *)
(* the parser has of it is what it makes of its first words at once.       *)
CutAnywhere(new, bytes) ==
  \A k \in 0..Len(bytes) : \A n \in 0..(Len(bytes) - k) :
    Parsed(Parsed(new, SubSeq(bytes, 1, k)), SubSeq(bytes, k + 1, k + n))
      = Parsed(new, SubSeq(bytes, 1, k + n))

(* The first words of a message, and those that follow them. *)
LEMMA Pieces ==
  ASSUME NEW S, NEW bytes \in Seq(S), NEW k \in 0..Len(bytes), NEW n \in 0..(Len(bytes) - k)
  PROVE  /\ SubSeq(bytes, 1, k) \in Seq(S) /\ SubSeq(bytes, k + 1, k + n) \in Seq(S)
         /\ SubSeq(bytes, 1, k) \o SubSeq(bytes, k + 1, k + n) = SubSeq(bytes, 1, k + n)
<1>1. Len(bytes) \in Nat
  OBVIOUS
<1>2. 1 \in 1..(Len(bytes) + 1) /\ k \in (1 - 1)..Len(bytes) /\ k + n \in k..Len(bytes)
  BY <1>1
<1>3. k \in Nat /\ k + n \in Nat /\ k <= k + n /\ k + n <= Len(bytes) /\ 0 <= k /\ k <= Len(bytes)
  BY <1>1
<1>4. SubSeq(bytes, 0 + 1, k) \in Seq(S)
  BY <1>3, SliceFacts
<1>5. SubSeq(bytes, k + 1, k + n) \in Seq(S)
  BY <1>3, SliceFacts
<1>6. SubSeq(bytes, 1, k) \o SubSeq(bytes, k + 1, k + n) = SubSeq(bytes, 1, k + n)
  BY <1>2, ConcatAdjacentSubSeq
<1>. QED
  BY <1>4, <1>5, <1>6

THEOREM MessagesCutAnywhere ==
  ASSUME NEW S, NEW bytes \in Seq(S), NEW header,
         LET whole == Parsed([header |-> header, parser |-> NewParser], bytes)
         IN  SizeKnown(whole) /\ Accepts(whole)
  PROVE  LET new == [header |-> header, parser |-> NewParser]
         IN  /\ CutAnywhere(new, bytes)
             /\ \A k \in 0..Len(bytes) : Accepts(Parsed(new, SubSeq(bytes, 1, k)))
<1> DEFINE new == [header |-> header, parser |-> NewParser]
           Part(k) == SubSeq(bytes, 1, k)
           whole == Parsed(new, bytes)
<1>1. Between(new, S)
  BY NewIsBetween
<1> HIDE DEF new
<1>2. SizeKnown(whole) /\ Accepts(whole)
  BY DEF new
<1>3. Len(bytes) \in Nat /\ Part(Len(bytes)) = bytes
  BY SubSeqFull
<1>4. ASSUME NEW k \in 0..Len(bytes)
      PROVE  /\ Part(k) \in Seq(S) /\ SizeKnown(Parsed(new, Part(k))) /\ Between(Parsed(new, Part(k)), S)
             /\ Accepts(Parsed(new, Part(k)))
  <2> DEFINE rest == SubSeq(bytes, k + 1, k + (Len(bytes) - k))
             start == Start(new.parser, new.header)
             middle == Scan(start, Part(k))
             end == Scan(start, bytes)
  <2>1. Len(bytes) - k \in 0..(Len(bytes) - k) /\ k + (Len(bytes) - k) = Len(bytes)
    BY <1>3
  <2>2. Part(k) \in Seq(S) /\ rest \in Seq(S) /\ Part(k) \o rest = bytes
    BY <1>3, <2>1, Pieces
  <2> HIDE DEF Part, rest
  <2>3. /\ ScanState(middle, S)
        /\ Parsed(new, Part(k)).header = middle.header
        /\ Parsed(new, Part(k)).parser.headerFinished = (middle.adjacent = 2)
    BY <1>1, <2>2, ParsesHeader
  <2>4. whole.header = end.header /\ whole.parser.headerFinished = (end.adjacent = 2)
    BY <1>1, ParsesHeader
  <2>5. end = Scan(middle, rest)
    BY <2>2, ScanSplits
  <2>6. middle.adjacent = 2 => end.adjacent = 2 /\ end.header = middle.header
    BY <2>2, <2>3, <2>5, ScanKeeps
  <2> HIDE DEF start, middle, end, whole
  <2>7. SizeKnown(Parsed(new, Part(k)))
    BY <1>2, <2>3, <2>4, <2>6 DEF SizeKnown
  <2>8. Between(Parsed(new, Part(k)), S)
    BY <1>1, <2>2, <2>7, Parses
  <2>9. Parsed(Parsed(new, Part(k)), rest) = whole
    BY <1>1, <1>2, <2>2, PiecesAreOne DEF whole
  <2>10. Accepts(Parsed(new, Part(k)))
    BY <1>2, <2>2, <2>8, <2>9, RefusalsStay
  <2>. QED
    BY <2>2, <2>7, <2>8, <2>10
<1>5. ASSUME NEW k \in 0..Len(bytes), NEW n \in 0..(Len(bytes) - k)
      PROVE  Parsed(Parsed(new, Part(k)), SubSeq(bytes, k + 1, k + n)) = Parsed(new, Part(k + n))
  <2> DEFINE piece == SubSeq(bytes, k + 1, k + n)
  <2>1. k + n \in 0..Len(bytes)
    BY <1>3
  <2>2. Part(k) \in Seq(S) /\ piece \in Seq(S) /\ Part(k) \o piece = Part(k + n)
    BY Pieces
  <2>3. SizeKnown(Parsed(new, Part(k + n)))
    BY <1>4, <2>1
  <2> HIDE DEF Part, piece
  <2>4. SizeKnown(Parsed(new, Part(k) \o piece))
    BY <2>2, <2>3
  <2>5. Parsed(Parsed(new, Part(k)), piece) = Parsed(new, Part(k) \o piece)
    BY <1>1, <2>2, <2>4, PiecesAreOne
  <2>. QED
    BY <2>2, <2>5 DEF piece
<1>. QED
  BY <1>4, <1>5 DEF CutAnywhere, new

-----------------------------------------------------------------------------
(* The exchange. *)

Word ==
  (UNION {Range(m.bytes) : m \in Messages})
    \cup (UNION {Range(sendResponse(r)) : r \in PossibleReplies})

Line ==
  [toServer : Seq(Word), toClient : Seq(Word), clientEnd : {"open", "shut", "closed"},
   serverEnd : {"open", "closed"}, broken : BOOLEAN]

(* How much of the request the handler has got, of the response the client. *)
Received == iBytesWritten - Len(line.toServer)
Returning == pushed - Len(line.toClient)

TypeInv ==
  /\ cpc \in {"idle", "write", "shutdown", "read"}
  /\ hpc \in {"accept", "receive", "flush", "push", "close", "ended"}
  /\ request \in Messages \/ (request = NoRequest /\ cpc = "idle" /\ line.serverEnd = "closed")
  /\ iBytesWritten \in Int
  /\ line \in Line
  /\ reply \in PossibleReplies
  /\ pushed \in Nat

(* Which ends of the connection are open at the program counters. *)
EndsInv ==
  /\ line.clientEnd = "closed" => cpc = "idle"
  /\ line.clientEnd = "shut" => cpc \in {"read", "idle"}
  /\ line.serverEnd = "closed" => hpc \in {"accept", "ended"}
  /\ hpc = "ended" => line.serverEnd = "closed" /\ (line.broken \/ line.clientEnd = "closed")

(* The client ends its stream when it has written all. *)
WriteInv ==
  /\ cpc = "write" => iBytesWritten < Len(request.bytes)
  /\ cpc \in {"shutdown", "read"} \/ line.clientEnd = "shut" => iBytesWritten = Len(request.bytes)
  /\ ~line.broken /\ request \in Messages => iBytesWritten \in 0..Len(request.bytes)

(* The words under way to the handler are those it has not got, and what   *)
(* it holds is what the parser makes of the others.                        *)
ReceiveInv ==
  ~line.broken /\ line.serverEnd = "open" /\ hpc \in {"accept", "receive"} =>
    /\ Received \in Nat
    /\ line.toServer = SubSeq(request.bytes, Received + 1, iBytesWritten)
    /\ hpc = "accept" => Received = 0
    /\ hpc = "receive" => pull = Parsed(NewRequest, SubSeq(request.bytes, 1, Received))

(* A call that lacks something is of a client that left before it had      *)
(* written all: so it stays while the handler answers.                     *)
Faithful(call) ==
  \/ Whole(call, request)
  \/ line.clientEnd = "closed" /\ iBytesWritten # Len(request.bytes) /\ Cut(call, request)

HandleInv ==
  /\ Accepts(pull)
  /\ hpc = "flush" /\ isFinished(pull) => Faithful(handled(pull))
  /\ called # NoCall =>
       /\ request \in Messages
       /\ DOMAIN called = {"method", "uri", "query", "accept", "contentType", "entity"}
       /\ Faithful(called)

(* The words under way to the client are those of the reply that it has    *)
(* not read, and what it holds is what the parser makes of the others.     *)
ReplyInv ==
  /\ hpc \in {"receive", "flush"} \/ (hpc = "accept" /\ line.serverEnd = "open") =>
       called = NoCall /\ reply = NoReply /\ pushed = 0
  /\ hpc \in {"push", "ended"} => pushed = 0
  /\ pushed <= Len(sendResponse(reply))
  /\ ~line.broken => Returning \in Nat /\ line.toClient = SubSeq(sendResponse(reply), Returning + 1, pushed)
  /\ ~line.broken /\ cpc # "idle" =>
       response = Parsed(NewResponse, SubSeq(sendResponse(reply), 1, Returning))
  /\ Accepts(response)

(* A result is taken from a reply that does not change any more. *)
OutcomeInv ==
  \/ outcome \in {Nothing, Threw}
  \/ /\ outcome.kind = "returned" /\ cpc = "idle"
     /\ hpc # "ended" /\ (pushed # 0 \/ line.serverEnd = "closed")
     /\ IsTakenFrom(outcome, reply)
     /\ pushed = Len(sendResponse(reply)) /\ line.toClient = <<>> /\ ~line.broken =>
          outcome.status = reply.status /\ outcome.entity = reply.entity

IInv == TypeInv /\ EndsInv /\ WriteInv /\ ReceiveInv /\ HandleInv /\ ReplyInv /\ OutcomeInv

-----------------------------------------------------------------------------
(* What the parser makes of a message that it reads. *)
LEMMA MessageFacts ==
  ASSUME ReadsMessages, NEW m \in Messages
  PROVE  /\ m.bytes \in Seq(Word) /\ Len(m.bytes) \in Nat \ {0}
         /\ Parsed(NewRequest, <<>>) = NewRequest
         /\ \A k \in 0..Len(m.bytes) : \A n \in 0..(Len(m.bytes) - k) :
              Parsed(Parsed(NewRequest, SubSeq(m.bytes, 1, k)), SubSeq(m.bytes, k + 1, k + n))
                = Parsed(NewRequest, SubSeq(m.bytes, 1, k + n))
         /\ \A k \in 0..Len(m.bytes) : Accepts(Parsed(NewRequest, SubSeq(m.bytes, 1, k)))
<1>1. /\ m.bytes \in Seq(Range(m.bytes))
      /\ Accepts(Parsed(NewRequest, m.bytes)) /\ SizeKnown(Parsed(NewRequest, m.bytes))
  BY Zenon DEF ReadsMessages
<1>2. m.bytes # <<>>
  BY HttpExchangeAssumption
<1>3. /\ CutAnywhere(NewRequest, m.bytes)
      /\ \A k \in 0..Len(m.bytes) : Accepts(Parsed(NewRequest, SubSeq(m.bytes, 1, k)))
      /\ Parsed(NewRequest, <<>>) = NewRequest
  BY <1>1, MessagesCutAnywhere, NewIsBetween, Zenon DEF NewRequest
<1>4. Range(m.bytes) \subseteq Word
  BY DEF Word
<1>5. m.bytes \in Seq(Word)
  BY <1>1, <1>4, SeqMonotonic
<1>6. Len(m.bytes) \in Nat \ {0}
  BY <1>1, <1>2, EmptySeq
<1>. QED
  BY <1>3, <1>5, <1>6 DEF CutAnywhere

(* What the parser makes of a response that it reads. *)
LEMMA ReplyFacts ==
  ASSUME ReadsReplies, NEW r \in PossibleReplies
  PROVE  /\ sendResponse(r) \in Seq(Word) /\ Len(sendResponse(r)) \in Nat
         /\ Parsed(NewResponse, <<>>) = NewResponse
         /\ \A k \in 0..Len(sendResponse(r)) : \A n \in 0..(Len(sendResponse(r)) - k) :
              Parsed(Parsed(NewResponse, SubSeq(sendResponse(r), 1, k)), SubSeq(sendResponse(r), k + 1, k + n))
                = Parsed(NewResponse, SubSeq(sendResponse(r), 1, k + n))
         /\ \A k \in 0..Len(sendResponse(r)) :
              LET s == Parsed(NewResponse, SubSeq(sendResponse(r), 1, k))
              IN  /\ Accepts(s)
                  /\ Finish(s).kind = "returned" =>
                       /\ IsTakenFrom(Finish(s), r)
                       /\ k = Len(sendResponse(r)) =>
                            Finish(s).status = r.status /\ Finish(s).entity = r.entity
<1> DEFINE data == sendResponse(r)
<1>1. /\ data \in Seq(Range(data))
      /\ Accepts(Parsed(NewResponse, data)) /\ SizeKnown(Parsed(NewResponse, data))
  BY Zenon DEF ReadsReplies
<1>2. \A k \in 0..Len(data) :
        LET s == Parsed(NewResponse, SubSeq(data, 1, k))
        IN  Finish(s).kind = "returned" =>
              /\ IsTakenFrom(Finish(s), r)
              /\ k = Len(data) => Finish(s).status = r.status /\ Finish(s).entity = r.entity
  BY Zenon DEF ReadsReplies
<1>3. /\ CutAnywhere(NewResponse, data)
      /\ \A k \in 0..Len(data) : Accepts(Parsed(NewResponse, SubSeq(data, 1, k)))
      /\ Parsed(NewResponse, <<>>) = NewResponse
  <2> HIDE DEF data
  <2>. QED
    BY <1>1, MessagesCutAnywhere, NewIsBetween, Zenon DEF NewResponse
<1>4. Range(data) \subseteq Word
  <2>1. \A w \in Range(data) : w \in UNION {Range(sendResponse(q)) : q \in PossibleReplies}
    OBVIOUS
  <2>. QED
    BY <2>1 DEF Word
<1>5. data \in Seq(Word)
  BY <1>1, <1>4, SeqMonotonic
<1>6. Len(data) \in Nat
  BY <1>1
<1>. QED
  BY <1>2, <1>3, <1>5, <1>6 DEF CutAnywhere

(* Neither parser has refused anything when it begins. *)
LEMMA NewAccepts == Accepts(NewRequest) /\ Accepts(NewResponse)
  BY DEF Accepts, NewRequest, NewResponse, NewParser, RequestHeader, ResponseHeader

(* NoReply is the reply while there is none, and every reply of the        *)
(* handler is a possible one.                                              *)
LEMMA RepliesArePossible ==
  NoReply \in PossibleReplies /\ \A header : repliesTo(header) \subseteq PossibleReplies
  BY DEF PossibleReplies, repliesTo

(* A slice of a message that goes over the line is a list of words.        *)
LEMMA LineFacts ==
  ASSUME line \in Line
  PROVE  /\ line.toServer \in Seq(Word) /\ Len(line.toServer) \in Nat
         /\ line.toClient \in Seq(Word) /\ Len(line.toClient) \in Nat
         /\ line.clientEnd \in {"open", "shut", "closed"}
         /\ line.serverEnd \in {"open", "closed"} /\ line.broken \in BOOLEAN
  BY DEF Line

-----------------------------------------------------------------------------
(* Every behaviour begins with no request, no call and no reply. *)
LEMMA InitEstablishes ==
  ASSUME ReadsMessages, ReadsReplies, Init
  PROVE  IInv
<1>1. line \in Line /\ line.toServer = <<>> /\ line.toClient = <<>> /\ line.clientEnd = "closed"
      /\ line.serverEnd = "closed"
  BY EmptySeq DEF Init, Closed, Line
<1>2. /\ cpc = "idle" /\ hpc = "accept" /\ request = NoRequest /\ iBytesWritten = 0
      /\ outcome = Nothing /\ called = NoCall /\ reply = NoReply /\ pushed = 0
      /\ pull = NewRequest /\ response = NewResponse
  BY DEF Init
<1>3. request \notin Messages
  BY <1>2, HttpExchangeAssumption DEF NoRequest
<1>4. TypeInv
  BY <1>1, <1>2, RepliesArePossible DEF TypeInv
<1>5. EndsInv /\ WriteInv /\ ReceiveInv /\ OutcomeInv
  BY <1>1, <1>2, <1>3 DEF EndsInv, WriteInv, ReceiveInv, OutcomeInv
<1>6. HandleInv
  BY <1>2, NewAccepts DEF HandleInv
<1>7. ReplyInv
  <2>1. sendResponse(NoReply) \in Seq(Word) /\ Len(sendResponse(NoReply)) \in Nat
    BY RepliesArePossible, ReplyFacts
  <2>2. SubSeq(sendResponse(NoReply), 1, 0) = <<>>
    BY <2>1, SubSeqEmpty
  <2>. QED
    BY <1>1, <1>2, <2>1, <2>2, NewAccepts DEF ReplyInv, Returning
<1>. QED
  BY <1>4, <1>5, <1>6, <1>7 DEF IInv


-----------------------------------------------------------------------------
(* A client that throws leaves the connection as it is. *)
LEMMA LeavesStep ==
  ASSUME IInv, Leaves(Threw), UNCHANGED line
  PROVE  IInv'
<1> USE DEF IInv
<1>1. TypeInv'
  BY DEF TypeInv, Leaves, handlerVars
<1>2. EndsInv' /\ WriteInv'
  BY DEF EndsInv, WriteInv, Leaves, handlerVars
<1>3. ReceiveInv'
  BY DEF ReceiveInv, Received, Leaves, handlerVars
<1>4. HandleInv'
  BY DEF HandleInv, Faithful, Leaves, handlerVars
<1>5. ReplyInv'
  BY DEF ReplyInv, Returning, Leaves, handlerVars
<1>6. OutcomeInv'
  BY DEF OutcomeInv, Leaves
<1>. QED
  BY <1>1, <1>2, <1>3, <1>4, <1>5, <1>6

(* A client that dies has not been answered. *)
LEMMA ClientDiesStep ==
  ASSUME IInv, ClientDies
  PROVE  IInv'
<1> USE DEF IInv
<1>1. /\ cpc # "idle" /\ cpc' = "idle" /\ outcome' = Threw
      /\ request' = request /\ iBytesWritten' = iBytesWritten /\ response' = response
      /\ hpc' = hpc /\ pull' = pull /\ called' = called /\ reply' = reply /\ pushed' = pushed
      /\ line' = [line EXCEPT !.clientEnd = "closed"]
  BY DEF ClientDies, Leaves, handlerVars
<1>2. line \in Line
  BY DEF TypeInv
<1>3. /\ line' \in Line /\ line'.toServer = line.toServer /\ line'.toClient = line.toClient
      /\ line'.clientEnd = "closed" /\ line'.serverEnd = line.serverEnd /\ line'.broken = line.broken
  BY <1>1, <1>2 DEF Line
<1>4. TypeInv'
  BY <1>1, <1>3 DEF TypeInv
<1>5. EndsInv' /\ WriteInv'
  BY <1>1, <1>3 DEF EndsInv, WriteInv
<1>6. ReceiveInv'
  <2>1. Received' = Received
    BY <1>1, <1>3 DEF Received
  <2>. QED
    BY <1>1, <1>3, <2>1 DEF ReceiveInv
<1>7. HandleInv'
  <2>1. line.clientEnd # "closed"
    BY <1>1 DEF EndsInv
  <2>. QED
    BY <1>1, <2>1 DEF HandleInv, Faithful
<1>8. ReplyInv'
  <2>1. Returning' = Returning
    BY <1>1, <1>3 DEF Returning
  <2>. QED
    BY <1>1, <1>3, <2>1 DEF ReplyInv
<1>9. OutcomeInv'
  BY <1>1 DEF OutcomeInv
<1>. QED
  BY <1>4, <1>5, <1>6, <1>7, <1>8, <1>9

(* A new connection carries nothing, and its reply is not there yet. *)
LEMMA ConnectStep ==
  ASSUME ReadsMessages, ReadsReplies, IInv, Connect
  PROVE  IInv'
<1> USE DEF IInv
<1>1. /\ hpc = "accept" /\ cpc' = "write" /\ request' \in Messages /\ iBytesWritten' = 0
      /\ response' = NewResponse /\ outcome' = Nothing /\ called' = NoCall /\ reply' = NoReply
      /\ pushed' = 0 /\ hpc' = hpc /\ pull' = pull
      /\ line' = [Closed EXCEPT !.clientEnd = "open", !.serverEnd = "open"]
  BY DEF Connect
<1>2. /\ line' \in Line /\ line'.toServer = <<>> /\ line'.toClient = <<>>
      /\ line'.clientEnd = "open" /\ line'.serverEnd = "open" /\ line'.broken = FALSE
      /\ Len(line'.toServer) = 0 /\ Len(line'.toClient) = 0
  BY <1>1, EmptySeq DEF Line, Closed
<1>3. Len(request'.bytes) \in Nat \ {0} /\ SubSeq(request'.bytes, 1, 0) = <<>>
  <2>1. request'.bytes \in Seq(Word) /\ Len(request'.bytes) \in Nat \ {0}
    BY <1>1, MessageFacts
  <2>. QED
    BY <2>1, SubSeqEmpty
<1>4. Len(sendResponse(NoReply)) \in Nat /\ SubSeq(sendResponse(NoReply), 1, 0) = <<>>
      /\ Parsed(NewResponse, <<>>) = NewResponse
  <2>1. sendResponse(NoReply) \in Seq(Word) /\ Len(sendResponse(NoReply)) \in Nat
        /\ Parsed(NewResponse, <<>>) = NewResponse
    BY RepliesArePossible, ReplyFacts
  <2>. QED
    BY <2>1, SubSeqEmpty
<1>5. TypeInv'
  BY <1>1, <1>2, RepliesArePossible DEF TypeInv
<1>6. EndsInv' /\ WriteInv'
  BY <1>1, <1>2, <1>3 DEF EndsInv, WriteInv
<1>7. ReceiveInv'
  <2>1. Received' = 0
    BY <1>1, <1>2 DEF Received
  <2>2. line'.toServer = SubSeq(request'.bytes, Received' + 1, iBytesWritten')
    <3>1. iBytesWritten' = 0 /\ Received' + 1 = 1
      BY <1>1, <2>1
    <3>. QED
      BY <1>2, <1>3, <3>1
  <2>. QED
    BY <1>1, <2>1, <2>2 DEF ReceiveInv
<1>8. HandleInv'
  BY <1>1 DEF HandleInv
<1>9. ReplyInv'
  <2>1. Returning' = 0
    BY <1>1, <1>2 DEF Returning
  <2>2. line'.toClient = SubSeq(sendResponse(reply'), Returning' + 1, pushed')
    <3>1. pushed' = 0 /\ reply' = NoReply /\ Returning' + 1 = 1
      BY <1>1, <2>1
    <3>. QED
      BY <1>2, <1>4, <3>1
  <2>3. response' = Parsed(NewResponse, SubSeq(sendResponse(reply'), 1, Returning'))
    BY <1>1, <1>4, <2>1
  <2>4. pushed' <= Len(sendResponse(reply'))
    BY <1>1, <1>4
  <2>. QED
    BY <1>1, <2>1, <2>2, <2>3, <2>4, NewAccepts DEF ReplyInv
<1>10. OutcomeInv'
  BY <1>1 DEF OutcomeInv
<1>. QED
  BY <1>5, <1>6, <1>7, <1>8, <1>9, <1>10

(* What is written follows what is under way. *)
LEMMA WriteStep ==
  ASSUME ReadsMessages, IInv, Write
  PROVE  IInv'
<1> USE DEF IInv
<1>1. PICK n \in 1..(Len(request.bytes) - iBytesWritten) :
        /\ iBytesWritten' = iBytesWritten + n
        /\ line' = [line EXCEPT !.toServer = @ \o SubSeq(request.bytes, iBytesWritten + 1, iBytesWritten + n)]
  BY DEF Write
<1>2. /\ cpc = "write" /\ ~line.broken
      /\ cpc' = IF iBytesWritten' = Len(request.bytes) THEN "shutdown" ELSE "write"
      /\ request' = request /\ response' = response /\ outcome' = outcome
      /\ hpc' = hpc /\ pull' = pull /\ called' = called /\ reply' = reply /\ pushed' = pushed
  BY DEF Write, handlerVars
<1>3. request \in Messages /\ line \in Line
  BY <1>2 DEF TypeInv
<1>4. request.bytes \in Seq(Word) /\ Len(request.bytes) \in Nat /\ iBytesWritten \in 0..Len(request.bytes)
  BY <1>2, <1>3, MessageFacts DEF WriteInv
<1>5. /\ iBytesWritten \in Nat /\ iBytesWritten + n \in Nat
      /\ iBytesWritten <= iBytesWritten + n /\ iBytesWritten + n <= Len(request.bytes)
  BY <1>1, <1>4
<1> DEFINE more == SubSeq(request.bytes, iBytesWritten + 1, iBytesWritten + n)
<1>6. more \in Seq(Word) /\ Len(more) = n
  <2>1. Len(more) = (iBytesWritten + n) - iBytesWritten /\ more \in Seq(Word)
    BY <1>4, <1>5, SliceFacts
  <2>. QED
    BY <1>1, <1>5, <2>1
<1>7. /\ line.toServer \in Seq(Word) /\ Len(line.toServer) \in Nat
      /\ line.toServer \o more \in Seq(Word) /\ Len(line.toServer \o more) = Len(line.toServer) + n
  BY <1>3, <1>6, LineFacts, ConcatProperties
<1>8. /\ line' \in Line /\ line'.toServer = line.toServer \o more /\ line'.toClient = line.toClient
      /\ line'.clientEnd = line.clientEnd /\ line'.serverEnd = line.serverEnd /\ line'.broken = line.broken
  <2> HIDE DEF more
  <2>1. line' = [line EXCEPT !.toServer = line.toServer \o more]
    BY <1>1 DEF more
  <2>. QED
    BY <1>3, <1>7, <2>1 DEF Line
<1> HIDE DEF more
<1>9. line.clientEnd # "closed" /\ line.clientEnd # "shut"
  BY <1>2 DEF EndsInv
<1>10. TypeInv'
  BY <1>1, <1>2, <1>3, <1>5, <1>8 DEF TypeInv
<1>11. EndsInv'
  BY <1>2, <1>8, <1>9 DEF EndsInv
<1>12. WriteInv'
  BY <1>1, <1>2, <1>4, <1>5, <1>8, <1>9 DEF WriteInv
<1>13. ReceiveInv'
  <2>1. CASE line.serverEnd = "open" /\ hpc \in {"accept", "receive"}
    <3>1. /\ Received \in Nat /\ line.toServer = SubSeq(request.bytes, Received + 1, iBytesWritten)
          /\ hpc = "accept" => Received = 0
          /\ hpc = "receive" => pull = Parsed(NewRequest, SubSeq(request.bytes, 1, Received))
      BY <1>2, <2>1 DEF ReceiveInv
    <3>2. Received' = Received
      BY <1>1, <1>4, <1>5, <1>7, <1>8 DEF Received
    <3>3. Received + 1 \in 1..(Len(request.bytes) + 1) /\ iBytesWritten \in (Received + 1) - 1..Len(request.bytes)
      <4>1. Received \in Nat /\ Received <= iBytesWritten
        BY <1>5, <1>7, <3>1 DEF Received
      <4>. QED
        BY <1>4, <4>1
    <3>4. iBytesWritten + n \in iBytesWritten..Len(request.bytes)
      BY <1>5
    <3>5. SubSeq(request.bytes, Received + 1, iBytesWritten) \o more
            = SubSeq(request.bytes, Received + 1, iBytesWritten + n)
      BY <1>4, <3>1, <3>3, <3>4, ConcatAdjacentSubSeq DEF more
    <3>. QED
      BY <1>1, <1>2, <1>8, <3>1, <3>2, <3>5 DEF ReceiveInv
  <2>2. CASE ~(line.serverEnd = "open" /\ hpc \in {"accept", "receive"})
    BY <1>2, <1>8, <2>2 DEF ReceiveInv
  <2>. QED
    BY <2>1, <2>2
<1>14. HandleInv'
  BY <1>2, <1>9 DEF HandleInv, Faithful
<1>15. ReplyInv'
  BY <1>2, <1>8 DEF ReplyInv, Returning
<1>16. OutcomeInv'
  BY <1>2 DEF OutcomeInv
<1>. QED
  BY <1>10, <1>11, <1>12, <1>13, <1>14, <1>15, <1>16

(* A write that fails is of a broken connection. *)
LEMMA WriteFailsStep ==
  ASSUME IInv, WriteFails
  PROVE  IInv'
<1> USE DEF IInv
<1>1. /\ cpc = "write" /\ line.broken /\ iBytesWritten' = iBytesWritten - 1
      /\ (cpc' = "idle" /\ outcome' = Threw) \/ (cpc' = cpc /\ outcome' = outcome)
      /\ request' = request /\ response' = response /\ line' = line
      /\ hpc' = hpc /\ pull' = pull /\ called' = called /\ reply' = reply /\ pushed' = pushed
  BY DEF WriteFails, handlerVars
<1>2. line.clientEnd # "closed" /\ line.clientEnd # "shut"
  BY <1>1 DEF EndsInv
<1>3. TypeInv'
  BY <1>1 DEF TypeInv
<1>4. EndsInv'
  BY <1>1 DEF EndsInv
<1>5. WriteInv'
  <2>1. iBytesWritten < Len(request.bytes) /\ iBytesWritten \in Int
    BY <1>1 DEF WriteInv, TypeInv
  <2>2. iBytesWritten - 1 < iBytesWritten
    BY <2>1
  <2>. QED
    BY <1>1, <1>2, <2>1, <2>2 DEF WriteInv
<1>6. ReceiveInv'
  BY <1>1 DEF ReceiveInv
<1>7. HandleInv'
  BY <1>1, <1>2 DEF HandleInv, Faithful
<1>8. ReplyInv'
  BY <1>1 DEF ReplyInv, Returning
<1>9. OutcomeInv'
  BY <1>1 DEF OutcomeInv
<1>. QED
  BY <1>3, <1>4, <1>5, <1>6, <1>7, <1>8, <1>9

(* The client ends its stream, or keeps it open, with all of it written. *)
LEMMA ShutdownStep ==
  ASSUME IInv, Shutdown
  PROVE  IInv'
<1> USE DEF IInv
<1>1. /\ cpc = "shutdown" /\ ~line.broken /\ cpc' = "read"
      /\ line' = line \/ line' = [line EXCEPT !.clientEnd = "shut"]
      /\ request' = request /\ response' = response /\ outcome' = outcome
      /\ iBytesWritten' = iBytesWritten
      /\ hpc' = hpc /\ pull' = pull /\ called' = called /\ reply' = reply /\ pushed' = pushed
  BY DEF Shutdown, handlerVars
<1>2. line \in Line
  BY DEF TypeInv
<1>3. /\ line' \in Line /\ line'.toServer = line.toServer /\ line'.toClient = line.toClient
      /\ line'.clientEnd \in {line.clientEnd, "shut"}
      /\ line'.serverEnd = line.serverEnd /\ line'.broken = line.broken
  BY <1>1, <1>2 DEF Line
<1>4. line.clientEnd # "closed"
  BY <1>1 DEF EndsInv
<1>5. TypeInv'
  BY <1>1, <1>3 DEF TypeInv
<1>6. EndsInv' /\ WriteInv'
  BY <1>1, <1>3, <1>4 DEF EndsInv, WriteInv
<1>7. ReceiveInv'
  BY <1>1, <1>3 DEF ReceiveInv, Received
<1>8. HandleInv'
  BY <1>1, <1>4 DEF HandleInv, Faithful
<1>9. ReplyInv'
  BY <1>1, <1>3 DEF ReplyInv, Returning
<1>10. OutcomeInv'
  BY <1>1 DEF OutcomeInv
<1>. QED
  BY <1>5, <1>6, <1>7, <1>8, <1>9, <1>10

(* What the client reads is parsed after what it has read before, and if   *)
(* send() returns then, it returns what is in the reply.                   *)
LEMMA ReadStep ==
  ASSUME ReadsReplies, IInv, Read
  PROVE  IInv'
<1> USE DEF IInv
<1>1. PICK n \in 0..BUFFERSIZE :
        /\ n <= Len(line.toClient)
        /\ n = 0 => line.toClient = <<>> /\ line.serverEnd = "closed"
        /\ response' = Parsed(response, SubSeq(line.toClient, 1, n))
        /\ \/ /\ line' = [line EXCEPT !.toClient = From(@, n + 1)]
              /\ cpc' = cpc /\ outcome' = outcome
           \/ /\ line' = [[line EXCEPT !.toClient = From(@, n + 1)] EXCEPT !.clientEnd = "closed"]
              /\ cpc' = "idle" /\ outcome' = Finish(response')
  BY DEF Read, Parsed
<1>2. /\ cpc = "read" /\ ~line.broken /\ iBytesWritten' = iBytesWritten
      /\ request' = request /\ hpc' = hpc /\ pull' = pull /\ called' = called
      /\ reply' = reply /\ pushed' = pushed
  BY DEF Read, handlerVars
<1>3. line \in Line /\ reply \in PossibleReplies /\ pushed \in Nat /\ n \in Nat
  BY <1>1, HttpExchangeAssumption DEF TypeInv
<1> DEFINE data == sendResponse(reply)
<1>4. data \in Seq(Word) /\ Len(data) \in Nat /\ pushed <= Len(data)
  BY <1>3, ReplyFacts DEF ReplyInv
<1>5. /\ Returning \in Nat /\ line.toClient = SubSeq(data, Returning + 1, pushed)
      /\ response = Parsed(NewResponse, SubSeq(data, 1, Returning))
  BY <1>2 DEF ReplyInv
<1>6. line.toClient \in Seq(Word) /\ Len(line.toClient) \in Nat /\ Returning <= pushed
      /\ Len(line.toClient) = pushed - Returning
  BY <1>3, <1>5, LineFacts DEF Returning
<1>7. n \in 0..(pushed - Returning) /\ Returning + n \in 0..Len(data)
      /\ Returning \in 0..Len(data) /\ n \in 0..(Len(data) - Returning)
  BY <1>1, <1>3, <1>4, <1>5, <1>6
<1>8. /\ SubSeq(line.toClient, 1, n) = SubSeq(data, Returning + 1, Returning + n)
      /\ From(line.toClient, n + 1) = SubSeq(data, (Returning + n) + 1, pushed)
  <2>1. /\ SubSeq(SubSeq(data, Returning + 1, pushed), 1, n) = SubSeq(data, Returning + 1, Returning + n)
        /\ SubSeq(SubSeq(data, Returning + 1, pushed), n + 1, Len(SubSeq(data, Returning + 1, pushed)))
             = SubSeq(data, Returning + n + 1, pushed)
    BY <1>3, <1>4, <1>5, <1>6, <1>7, SliceOfSlice
  <2>. QED
    BY <1>5, <2>1 DEF From
<1> DEFINE rest == From(line.toClient, n + 1)
<1>9. rest \in Seq(Word) /\ Len(rest) = pushed - (Returning + n)
  <2>1. Returning + n \in Nat /\ Returning + n <= pushed
    BY <1>1, <1>3, <1>5, <1>6
  <2>2. \A i \in Nat : i <= pushed =>
          SubSeq(data, i + 1, pushed) \in Seq(Word) /\ Len(SubSeq(data, i + 1, pushed)) = pushed - i
    <3> HIDE DEF data
    <3>. QED
      BY <1>3, <1>4, SliceFacts
  <2>. QED
    BY <1>8, <2>1, <2>2
<1>10. response' = Parsed(NewResponse, SubSeq(data, 1, Returning + n))
  <2>1. Parsed(Parsed(NewResponse, SubSeq(data, 1, Returning)), SubSeq(data, Returning + 1, Returning + n))
          = Parsed(NewResponse, SubSeq(data, 1, Returning + n))
    <3>1. \A k \in 0..Len(data) : \A x \in 0..(Len(data) - k) :
            Parsed(Parsed(NewResponse, SubSeq(data, 1, k)), SubSeq(data, k + 1, k + x))
              = Parsed(NewResponse, SubSeq(data, 1, k + x))
      BY <1>3, ReplyFacts
    <3>. QED
      BY <1>7, <3>1
  <2>. QED
    BY <1>1, <1>5, <1>8, <2>1
<1> HIDE DEF data, rest
<1>11. /\ line' \in Line /\ line'.toClient = rest /\ line'.toServer = line.toServer
       /\ line'.serverEnd = line.serverEnd /\ line'.broken = line.broken
       /\ \/ line'.clientEnd = line.clientEnd /\ cpc' = cpc /\ outcome' = outcome
          \/ line'.clientEnd = "closed" /\ cpc' = "idle" /\ outcome' = Finish(response')
  <2>1. From(line.toClient, n + 1) = rest
    BY DEF rest
  <2>2. \/ line' = [line EXCEPT !.toClient = rest] /\ cpc' = cpc /\ outcome' = outcome
        \/ /\ line' = [[line EXCEPT !.toClient = rest] EXCEPT !.clientEnd = "closed"]
           /\ cpc' = "idle" /\ outcome' = Finish(response')
    BY <1>1, <2>1
  <2>. QED
    BY <1>3, <1>9, <2>2 DEF Line
<1>12. line.clientEnd # "closed"
  BY <1>2 DEF EndsInv
<1>13. hpc # "ended"
  BY <1>2, <1>12 DEF EndsInv
<1>14. Returning' = Returning + n
  <2>1. Returning' = pushed' - Len(line'.toClient)
    BY DEF Returning
  <2>2. Returning' = pushed - (pushed - (Returning + n))
    BY <1>2, <1>9, <1>11, <2>1
  <2>. QED
    BY <1>3, <1>5, <2>2
<1>15. TypeInv'
  BY <1>2, <1>11 DEF TypeInv
<1>16. EndsInv' /\ WriteInv'
  BY <1>2, <1>11, <1>13 DEF EndsInv, WriteInv
<1>17. ReceiveInv'
  BY <1>2, <1>11 DEF ReceiveInv, Received
<1>18. HandleInv'
  BY <1>2, <1>12 DEF HandleInv, Faithful
<1>19. ReplyInv'
  <2>1. Accepts(response')
    BY <1>3, <1>7, <1>10, ReplyFacts DEF data
  <2>2. line'.toClient = SubSeq(data, Returning' + 1, pushed)
    BY <1>8, <1>11, <1>14 DEF rest
  <2>3. Returning' \in Nat
    BY <1>7, <1>4, <1>14
  <2>4. response' = Parsed(NewResponse, SubSeq(data, 1, Returning'))
    BY <1>10, <1>14
  <2>5. /\ hpc \in {"receive", "flush"} \/ (hpc = "accept" /\ line.serverEnd = "open") =>
             called = NoCall /\ reply = NoReply /\ pushed = 0
        /\ hpc \in {"push", "ended"} => pushed = 0
    BY DEF ReplyInv
  <2>. QED
    BY <1>2, <1>4, <1>11, <2>1, <2>2, <2>3, <2>4, <2>5 DEF ReplyInv, data
<1>20. OutcomeInv'
  <2>1. CASE outcome' = outcome
    <3>1. outcome \in {Nothing, Threw}
      BY <1>2 DEF OutcomeInv
    <3>. QED
      BY <2>1, <3>1 DEF OutcomeInv
  <2>2. CASE outcome' = Finish(response') /\ cpc' = "idle"
    <3>1. CASE Finish(response') = Threw
      BY <2>2, <3>1 DEF OutcomeInv
    <3>2. CASE Finish(response').kind = "returned"
      <4>1. pushed # 0 \/ line.serverEnd = "closed"
        BY <1>1, <1>3, <1>6, <1>5
      <4>2. /\ IsTakenFrom(Finish(response'), reply)
            /\ Returning + n = Len(data) =>
                 Finish(response').status = reply.status /\ Finish(response').entity = reply.entity
        BY <1>3, <1>7, <1>10, <3>2, ReplyFacts DEF data
      <4>3. pushed = Len(data) /\ line'.toClient = <<>> => Returning + n = Len(data)
        <5> SUFFICES ASSUME pushed = Len(data), line'.toClient = <<>>
                     PROVE  Returning + n = Len(data)
          OBVIOUS
        <5>1. Len(rest) = 0
          BY <1>11, EmptySeq
        <5>. QED
          BY <1>3, <1>5, <1>9, <5>1
      <4>. QED
        BY <1>2, <1>11, <1>13, <2>2, <3>2, <4>1, <4>2, <4>3 DEF OutcomeInv, data
    <3>3. Finish(response') = Threw \/ Finish(response').kind = "returned"
      BY DEF Finish, Returned
    <3>. QED
      BY <3>1, <3>2, <3>3
  <2>. QED
    BY <1>11, <2>1, <2>2
<1>. QED
  BY <1>15, <1>16, <1>17, <1>18, <1>19, <1>20

(* A connection that breaks carries nothing any more. *)
LEMMA BreakStep ==
  ASSUME IInv, Break
  PROVE  IInv'
<1> USE DEF IInv
<1>1. /\ line.serverEnd = "open"
      /\ line' = [line EXCEPT !.broken = TRUE, !.toServer = <<>>, !.toClient = <<>>]
      /\ cpc' = cpc /\ request' = request /\ iBytesWritten' = iBytesWritten
      /\ response' = response /\ outcome' = outcome
      /\ hpc' = hpc /\ pull' = pull /\ called' = called /\ reply' = reply /\ pushed' = pushed
  BY DEF Break, clientVars, handlerVars
<1>2. line \in Line
  BY DEF TypeInv
<1>3. /\ line' \in Line /\ line'.clientEnd = line.clientEnd /\ line'.serverEnd = line.serverEnd
      /\ line'.broken
  BY <1>1, <1>2, EmptySeq DEF Line
<1>4. TypeInv'
  BY <1>1, <1>3 DEF TypeInv
<1>5. EndsInv' /\ WriteInv' /\ ReceiveInv'
  BY <1>1, <1>3 DEF EndsInv, WriteInv, ReceiveInv
<1>6. HandleInv'
  BY <1>1, <1>3 DEF HandleInv, Faithful
<1>7. ReplyInv' /\ OutcomeInv'
  BY <1>1, <1>3 DEF ReplyInv, OutcomeInv
<1>. QED
  BY <1>4, <1>5, <1>6, <1>7

(* The handler of a new connection begins with a new parser. *)
LEMMA AcceptStep ==
  ASSUME ReadsMessages, IInv, Accept
  PROVE  IInv'
<1> USE DEF IInv
<1>1. /\ hpc = "accept" /\ line.serverEnd = "open" /\ hpc' = "receive" /\ pull' = NewRequest
      /\ cpc' = cpc /\ request' = request /\ iBytesWritten' = iBytesWritten
      /\ response' = response /\ outcome' = outcome /\ line' = line
      /\ called' = called /\ reply' = reply /\ pushed' = pushed
  BY DEF Accept, clientVars
<1>2. request \in Messages
  BY <1>1 DEF TypeInv
<1>3. request.bytes \in Seq(Word) /\ Parsed(NewRequest, <<>>) = NewRequest
  BY <1>2, MessageFacts
<1>4. SubSeq(request.bytes, 1, 0) = <<>>
  BY <1>3, SubSeqEmpty
<1>5. TypeInv' /\ EndsInv' /\ WriteInv'
  BY <1>1 DEF TypeInv, EndsInv, WriteInv
<1>6. ReceiveInv'
  <2>1. Received' = Received
    BY <1>1 DEF Received
  <2>2. ~line.broken => Received = 0 /\ line.toServer = SubSeq(request.bytes, Received + 1, iBytesWritten)
    BY <1>1 DEF ReceiveInv
  <2>3. ~line.broken => pull' = Parsed(NewRequest, SubSeq(request.bytes, 1, Received))
    BY <1>1, <1>3, <1>4, <2>2
  <2>. QED
    BY <1>1, <2>1, <2>2, <2>3 DEF ReceiveInv
<1>7. HandleInv'
  BY <1>1, NewAccepts DEF HandleInv, Faithful
<1>8. ReplyInv'
  BY <1>1 DEF ReplyInv, Returning
<1>9. OutcomeInv'
  BY <1>1 DEF OutcomeInv
<1>. QED
  BY <1>5, <1>6, <1>7, <1>8, <1>9

(* What the handler receives is parsed after what it has got before.  No   *)
(* line is refused.  When it stops, the message is complete, or the client *)
(* has ended its stream with all of it written, or the client has left.    *)
LEMMA ReceiveStep ==
  ASSUME ReadsMessages, IInv, Receive
  PROVE  IInv'
<1> USE DEF IInv
<1>1. PICK n \in 0..BUFFERSIZE :
        /\ n <= Len(line.toServer)
        /\ n = 0 => line.toServer = <<>> /\ line.clientEnd # "open"
        /\ pull' = Parsed(pull, SubSeq(line.toServer, 1, n))
        /\ \/ ~Accepts(pull')
           \/ /\ hpc' = IF n = 0 \/ isAllRequestDataReceived(pull'.parser) THEN "flush" ELSE "receive"
              /\ line' = [line EXCEPT !.toServer = From(@, n + 1)]
  BY DEF Receive, Parsed, Accepts
<1>2. /\ hpc = "receive" /\ ~line.broken /\ cpc' = cpc /\ request' = request
      /\ iBytesWritten' = iBytesWritten /\ response' = response /\ outcome' = outcome
      /\ called' = called /\ reply' = reply /\ pushed' = pushed
  BY DEF Receive, clientVars
<1>3. line \in Line /\ request \in Messages /\ n \in Nat /\ line.serverEnd = "open"
  BY <1>1, <1>2, HttpExchangeAssumption DEF TypeInv, EndsInv, Line
<1> DEFINE data == request.bytes
<1>4. data \in Seq(Word) /\ Len(data) \in Nat /\ iBytesWritten \in 0..Len(data)
  BY <1>2, <1>3, MessageFacts DEF WriteInv
<1>5. /\ Received \in Nat /\ line.toServer = SubSeq(data, Received + 1, iBytesWritten)
      /\ pull = Parsed(NewRequest, SubSeq(data, 1, Received))
  BY <1>2, <1>3 DEF ReceiveInv
<1>6. line.toServer \in Seq(Word) /\ Len(line.toServer) \in Nat /\ Received <= iBytesWritten
      /\ Len(line.toServer) = iBytesWritten - Received
  BY <1>3, <1>4, <1>5, LineFacts DEF Received
<1>7. n \in 0..(iBytesWritten - Received) /\ Received + n \in 0..Len(data)
      /\ Received \in 0..Len(data) /\ n \in 0..(Len(data) - Received)
      /\ iBytesWritten \in Nat /\ iBytesWritten <= Len(data)
  BY <1>1, <1>3, <1>4, <1>5, <1>6
<1>8. /\ SubSeq(line.toServer, 1, n) = SubSeq(data, Received + 1, Received + n)
      /\ From(line.toServer, n + 1) = SubSeq(data, (Received + n) + 1, iBytesWritten)
  <2>1. /\ SubSeq(SubSeq(data, Received + 1, iBytesWritten), 1, n) = SubSeq(data, Received + 1, Received + n)
        /\ SubSeq(SubSeq(data, Received + 1, iBytesWritten), n + 1,
                  Len(SubSeq(data, Received + 1, iBytesWritten)))
             = SubSeq(data, Received + n + 1, iBytesWritten)
    BY <1>3, <1>4, <1>5, <1>6, <1>7, SliceOfSlice
  <2>. QED
    BY <1>5, <2>1 DEF From
<1> DEFINE rest == From(line.toServer, n + 1)
<1>9. rest \in Seq(Word) /\ Len(rest) = iBytesWritten - (Received + n)
  <2>1. Received + n \in Nat /\ Received + n <= iBytesWritten
    BY <1>1, <1>3, <1>5, <1>6
  <2>2. \A i \in Nat : i <= iBytesWritten =>
          SubSeq(data, i + 1, iBytesWritten) \in Seq(Word)
          /\ Len(SubSeq(data, i + 1, iBytesWritten)) = iBytesWritten - i
    <3> HIDE DEF data
    <3>. QED
      BY <1>4, <1>7, SliceFacts
  <2>. QED
    BY <1>8, <2>1, <2>2
<1>10. pull' = Parsed(NewRequest, SubSeq(data, 1, Received + n))
  <2>1. Parsed(Parsed(NewRequest, SubSeq(data, 1, Received)), SubSeq(data, Received + 1, Received + n))
          = Parsed(NewRequest, SubSeq(data, 1, Received + n))
    <3>1. \A k \in 0..Len(data) : \A x \in 0..(Len(data) - k) :
            Parsed(Parsed(NewRequest, SubSeq(data, 1, k)), SubSeq(data, k + 1, k + x))
              = Parsed(NewRequest, SubSeq(data, 1, k + x))
      BY <1>3, MessageFacts
    <3>. QED
      BY <1>7, <3>1
  <2>. QED
    BY <1>1, <1>5, <1>8, <2>1
<1>11. Accepts(pull')
  <2>1. \A k \in 0..Len(data) : Accepts(Parsed(NewRequest, SubSeq(data, 1, k)))
    BY <1>3, MessageFacts
  <2>. QED
    BY <1>7, <1>10, <2>1
<1> HIDE DEF rest
<1>12. /\ line' \in Line /\ line'.toServer = rest /\ line'.toClient = line.toClient
       /\ line'.clientEnd = line.clientEnd /\ line'.serverEnd = line.serverEnd /\ line'.broken = line.broken
  <2>1. line' = [line EXCEPT !.toServer = rest]
    BY <1>1, <1>11 DEF rest
  <2>. QED
    BY <1>3, <1>9, <2>1 DEF Line
<1>13. hpc' = IF n = 0 \/ isAllRequestDataReceived(pull'.parser) THEN "flush" ELSE "receive"
  BY <1>1, <1>11
<1>14. Received' = Received + n
  <2>1. Received' = iBytesWritten - (iBytesWritten - (Received + n))
    BY <1>2, <1>9, <1>12 DEF Received
  <2>. QED
    BY <1>3, <1>5, <1>7, <2>1
<1>15. TypeInv'
  BY <1>2, <1>12, <1>13 DEF TypeInv
<1>16. EndsInv' /\ WriteInv'
  BY <1>2, <1>3, <1>12, <1>13 DEF EndsInv, WriteInv
<1>17. ReceiveInv'
  <2>1. Received' \in Nat /\ pull' = Parsed(NewRequest, SubSeq(request'.bytes, 1, Received'))
    BY <1>2, <1>3, <1>5, <1>10, <1>14
  <2>2. line'.toServer = SubSeq(request'.bytes, Received' + 1, iBytesWritten')
    BY <1>2, <1>8, <1>12, <1>14 DEF rest
  <2>. QED
    BY <1>13, <2>1, <2>2 DEF ReceiveInv
<1>18. HandleInv'
  <2>1. hpc' = "flush" /\ isFinished(pull') => Faithful(handled(pull))'
    <3> SUFFICES ASSUME hpc' = "flush", isFinished(pull')
                 PROVE  Faithful(handled(pull))'
      OBVIOUS
    <3>1. IF Received + n = Len(data) \/ isAllRequestDataReceived(pull'.parser)
          THEN Whole(handled(pull'), request) ELSE Cut(handled(pull'), request)
      <4>1. \A k \in 0..Len(data) :
              LET s == Parsed(NewRequest, SubSeq(data, 1, k))
              IN  isFinished(s) =>
                    IF k = Len(data) \/ isAllRequestDataReceived(s.parser)
                    THEN Whole(handled(s), request) ELSE Cut(handled(s), request)
        BY <1>3, Zenon DEF ReadsMessages
      <4>. QED
        BY <1>7, <1>10, <4>1
    <3>2. CASE Received + n = Len(data) \/ isAllRequestDataReceived(pull'.parser)
      BY <1>2, <3>1, <3>2 DEF Faithful
    <3>3. CASE ~(Received + n = Len(data) \/ isAllRequestDataReceived(pull'.parser))
      <4>1. n = 0
        BY <1>13, <3>3
      <4>2. line.clientEnd # "open" /\ Received = iBytesWritten
        BY <1>1, <1>4, <1>5, <1>6, <4>1, EmptySeq
      <4>3. iBytesWritten # Len(data)
        BY <1>4, <1>5, <3>3, <4>1, <4>2
      <4>4. line.clientEnd = "closed"
        BY <1>3, <4>2, <4>3, LineFacts DEF WriteInv
      <4>. QED
        BY <1>2, <1>12, <3>1, <3>3, <4>3, <4>4 DEF Faithful
    <3>. QED
      BY <3>2, <3>3
  <2>2. called' # NoCall => FALSE
    BY <1>2 DEF ReplyInv
  <2>. QED
    BY <1>11, <2>1, <2>2 DEF HandleInv, Faithful
<1>19. ReplyInv'
  <2>1. Returning' = Returning
    BY <1>2, <1>12 DEF Returning
  <2>. QED
    BY <1>2, <1>12, <1>13, <2>1 DEF ReplyInv
<1>20. OutcomeInv'
  BY <1>2, <1>12, <1>13 DEF OutcomeInv
<1>. QED
  BY <1>15, <1>16, <1>17, <1>18, <1>19, <1>20

(* A handler that meets a broken connection ends without a reply. *)
LEMMA EndsStep ==
  ASSUME IInv, Ends, hpc \in {"receive", "push"}, line.broken \/ line.clientEnd = "closed",
         UNCHANGED <<clientVars, pull, called, reply, pushed>>
  PROVE  IInv'
<1> USE DEF IInv
<1>1. /\ hpc' = "ended" /\ line' = [line EXCEPT !.serverEnd = "closed"]
      /\ cpc' = cpc /\ request' = request /\ iBytesWritten' = iBytesWritten
      /\ response' = response /\ outcome' = outcome
      /\ pull' = pull /\ called' = called /\ reply' = reply /\ pushed' = pushed
  BY DEF Ends, clientVars
<1>2. line \in Line
  BY DEF TypeInv
<1>3. /\ line' \in Line /\ line'.toServer = line.toServer /\ line'.toClient = line.toClient
      /\ line'.clientEnd = line.clientEnd /\ line'.serverEnd = "closed" /\ line'.broken = line.broken
  BY <1>1, <1>2 DEF Line
<1>4. pushed = 0 /\ line.serverEnd # "closed"
  BY DEF ReplyInv, EndsInv
<1>5. TypeInv'
  BY <1>1, <1>3, <1>4 DEF TypeInv
<1>6. EndsInv' /\ WriteInv' /\ ReceiveInv'
  BY <1>1, <1>3 DEF EndsInv, WriteInv, ReceiveInv
<1>7. HandleInv'
  BY <1>1, <1>3 DEF HandleInv, Faithful
<1>8. ReplyInv'
  <2>1. Returning' = Returning
    BY <1>1, <1>3 DEF Returning
  <2>. QED
    BY <1>1, <1>3, <1>4, <2>1 DEF ReplyInv
<1>9. OutcomeInv'
  <2>1. outcome \in {Nothing, Threw}
    BY <1>4 DEF OutcomeInv
  <2>. QED
    BY <1>1, <2>1 DEF OutcomeInv
<1>. QED
  BY <1>5, <1>6, <1>7, <1>8, <1>9

(* handleRequest() is called with what is faithful to the request, before  *)
(* any of a response is under way.                                         *)
LEMMA FlushStep ==
  ASSUME ReadsReplies, IInv, Flush
  PROVE  IInv'
<1> USE DEF IInv
<1>1. /\ hpc = "flush" /\ cpc' = cpc /\ request' = request /\ iBytesWritten' = iBytesWritten
      /\ response' = response /\ outcome' = outcome /\ line' = line /\ pull' = pull /\ pushed' = pushed
      /\ \/ /\ isFinished(pull) /\ hpc' = "push" /\ called' = handled(pull)
            /\ reply' \in repliesTo(pull.header)
         \/ hpc' = "close" /\ called' = called /\ reply' = reply
  BY DEF Flush, clientVars
<1>2. /\ line \in Line /\ reply \in PossibleReplies /\ line.serverEnd = "open" /\ request \in Messages
      /\ called = NoCall /\ pushed = 0
  BY <1>1, LineFacts DEF TypeInv, EndsInv, ReplyInv
<1>3. reply' \in PossibleReplies
  BY <1>1, <1>2, RepliesArePossible
<1>4. \A r \in PossibleReplies :
        /\ SubSeq(sendResponse(r), 1, 0) = <<>> /\ Len(sendResponse(r)) \in Nat
        /\ Parsed(NewResponse, SubSeq(sendResponse(r), 1, 0)) = NewResponse
  <2> SUFFICES ASSUME NEW r \in PossibleReplies
               PROVE  /\ SubSeq(sendResponse(r), 1, 0) = <<>> /\ Len(sendResponse(r)) \in Nat
                      /\ Parsed(NewResponse, SubSeq(sendResponse(r), 1, 0)) = NewResponse
    OBVIOUS
  <2>1. sendResponse(r) \in Seq(Word) /\ Len(sendResponse(r)) \in Nat /\ Parsed(NewResponse, <<>>) = NewResponse
    BY ReplyFacts
  <2>2. SubSeq(sendResponse(r), 1, 0) = <<>>
    BY <2>1, SubSeqEmpty
  <2>. QED
    BY <2>1, <2>2
<1>5. TypeInv' /\ EndsInv' /\ WriteInv' /\ ReceiveInv'
  BY <1>1, <1>2, <1>3 DEF TypeInv, EndsInv, WriteInv, ReceiveInv
<1>6. HandleInv'
  <2>1. isFinished(pull) => Faithful(handled(pull))
    BY <1>1 DEF HandleInv
  <2>2. DOMAIN handled(pull) = {"method", "uri", "query", "accept", "contentType", "entity"}
    BY DEF handled
  <2>3. called' # NoCall => isFinished(pull) /\ called' = handled(pull)
    BY <1>1, <1>2
  <2>4. called' # NoCall => Faithful(called)'
    BY <1>1, <2>1, <2>3 DEF Faithful
  <2>5. Accepts(pull')
    BY <1>1 DEF HandleInv
  <2>. QED
    BY <1>1, <1>2, <2>2, <2>3, <2>4, <2>5 DEF HandleInv
<1>7. ReplyInv'
  <2>1. ~line.broken => Returning = 0 /\ line.toClient = <<>>
    <3> SUFFICES ASSUME ~line.broken PROVE Returning = 0 /\ line.toClient = <<>>
      OBVIOUS
    <3>1. Returning \in Nat /\ line.toClient \in Seq(Word) /\ Len(line.toClient) \in Nat
      BY <1>2, LineFacts DEF ReplyInv
    <3>2. Len(line.toClient) = 0 /\ Returning = 0
      BY <1>2, <3>1 DEF Returning
    <3>. QED
      BY <3>1, <3>2, EmptySeq
  <2>2. Returning' = Returning
    BY <1>1 DEF Returning
  <2>3. ~line.broken /\ cpc # "idle" => response = NewResponse
    BY <1>2, <1>4, <2>1 DEF ReplyInv
  <2>4. /\ SubSeq(sendResponse(reply'), 1, 0) = <<>> /\ Len(sendResponse(reply')) \in Nat
        /\ Parsed(NewResponse, SubSeq(sendResponse(reply'), 1, 0)) = NewResponse
    BY <1>3, <1>4
  <2>5. /\ hpc' \in {"push", "close"} /\ Accepts(response') /\ pushed' = 0
    BY <1>1, <1>2 DEF ReplyInv
  <2>6. ~line'.broken => Returning' = 0 /\ line'.toClient = <<>>
    BY <1>1, <2>1, <2>2
  <2>7. ~line'.broken => Returning' \in Nat
                         /\ line'.toClient = SubSeq(sendResponse(reply'), Returning' + 1, pushed')
    <3>1. 0 + 1 = 1 /\ 0 \in Nat
      OBVIOUS
    <3>. QED
      BY <2>4, <2>5, <2>6, <3>1
  <2>8. ~line'.broken /\ cpc' # "idle" =>
          response' = Parsed(NewResponse, SubSeq(sendResponse(reply'), 1, Returning'))
    BY <1>1, <2>3, <2>4, <2>6
  <2>. QED
    BY <2>4, <2>5, <2>7, <2>8 DEF ReplyInv
<1>8. OutcomeInv'
  <2>1. outcome \in {Nothing, Threw}
    BY <1>2 DEF OutcomeInv
  <2>. QED
    BY <1>1, <2>1 DEF OutcomeInv
<1>. QED
  BY <1>5, <1>6, <1>7, <1>8

(* What the handler writes is the beginning of the response, or is lost. *)
LEMMA PushStep ==
  ASSUME ReadsReplies, IInv, Push
  PROVE  IInv'
<1> USE DEF IInv
<1>1. PICK n \in 1..Len(sendResponse(reply)) :
        /\ pushed' = n
        /\ line' = IF line.broken THEN line ELSE [line EXCEPT !.toClient = SubSeq(sendResponse(reply), 1, n)]
  BY DEF Push
<1>2. /\ hpc = "push" /\ hpc' = "close"
      /\ cpc' = cpc /\ request' = request /\ iBytesWritten' = iBytesWritten
      /\ response' = response /\ outcome' = outcome /\ pull' = pull /\ called' = called /\ reply' = reply
  BY DEF Push, clientVars
<1>3. line \in Line /\ reply \in PossibleReplies /\ pushed = 0 /\ line.serverEnd # "closed"
  BY <1>2 DEF TypeInv, ReplyInv, EndsInv
<1> DEFINE data == sendResponse(reply)
<1>4. data \in Seq(Word) /\ Len(data) \in Nat
  BY <1>3, ReplyFacts
<1>5. n \in Nat /\ n <= Len(data) /\ n # 0 /\ SubSeq(data, 1, n) \in Seq(Word) /\ Len(SubSeq(data, 1, n)) = n
  <2>1. n \in Nat /\ n <= Len(data) /\ n # 0
    BY <1>1, <1>4
  <2>2. SubSeq(data, 0 + 1, n) \in Seq(Word) /\ Len(SubSeq(data, 0 + 1, n)) = n - 0
    <3> HIDE DEF data
    <3>. QED
      BY <1>4, <2>1, SliceFacts
  <2>. QED
    BY <2>1, <2>2
<1>0. ~line.broken => line' = [line EXCEPT !.toClient = SubSeq(data, 1, n)]
  BY <1>1
<1> HIDE DEF data
<1>6. /\ line' \in Line /\ line'.toServer = line.toServer
      /\ line'.clientEnd = line.clientEnd /\ line'.serverEnd = line.serverEnd /\ line'.broken = line.broken
  <2>1. CASE line.broken
    BY <1>1, <1>3, <2>1
  <2>2. CASE ~line.broken
    BY <1>0, <1>3, <1>5, <2>2 DEF Line
  <2>. QED
    BY <2>1, <2>2
<1>7. ~line.broken => Returning' = 0 /\ line'.toClient = SubSeq(data, 1, n)
  <2> SUFFICES ASSUME ~line.broken
               PROVE  Returning' = 0 /\ line'.toClient = SubSeq(data, 1, n)
    OBVIOUS
  <2>1. line'.toClient = SubSeq(data, 1, n)
    BY <1>0, <1>3 DEF Line
  <2>2. Returning' = n - n
    BY <1>1, <1>5, <2>1 DEF Returning
  <2>. QED
    BY <1>5, <2>1, <2>2
<1>8. ~line.broken => Returning = 0
  <2>1. ~line.broken => Returning \in Nat /\ Len(line.toClient) \in Nat
    BY <1>2, <1>3, LineFacts DEF ReplyInv
  <2>. QED
    BY <1>3, <2>1 DEF Returning
<1>9. TypeInv'
  BY <1>1, <1>2, <1>5, <1>6 DEF TypeInv
<1>10. EndsInv' /\ WriteInv' /\ ReceiveInv'
  BY <1>2, <1>3, <1>6 DEF EndsInv, WriteInv, ReceiveInv
<1>11. HandleInv'
  BY <1>2, <1>6 DEF HandleInv, Faithful
<1>12. ReplyInv'
  <2>1. ~line'.broken => line'.toClient = SubSeq(data, Returning' + 1, pushed')
    BY <1>1, <1>6, <1>7
  <2>2. ~line'.broken /\ cpc # "idle" => response = Parsed(NewResponse, SubSeq(data, 1, Returning'))
    BY <1>2, <1>6, <1>7, <1>8 DEF ReplyInv, data
  <2>3. ~line'.broken => Returning' \in Nat
    BY <1>6, <1>7
  <2>. QED
    BY <1>1, <1>2, <1>5, <2>1, <2>2, <2>3 DEF ReplyInv, data
<1>13. OutcomeInv'
  <2>1. outcome \in {Nothing, Threw}
    BY <1>3, LineFacts DEF OutcomeInv
  <2>. QED
    BY <1>2, <2>1 DEF OutcomeInv
<1>. QED
  BY <1>9, <1>10, <1>11, <1>12, <1>13

(* A response that cannot be written is not written again. *)
LEMMA PushFailsStep ==
  ASSUME IInv, PushFails
  PROVE  IInv'
<1> USE DEF IInv
<1>1. hpc = "push" /\ (line.broken \/ line.clientEnd = "closed")
      /\ UNCHANGED <<clientVars, pull, called, reply, pushed>>
      /\ ((hpc' = "close" /\ line' = line) \/ Ends)
  BY DEF PushFails
<1>2. CASE Ends
  BY <1>1, <1>2, EndsStep
<1>3. CASE hpc' = "close" /\ line' = line
  <2>1. /\ cpc' = cpc /\ request' = request /\ iBytesWritten' = iBytesWritten
        /\ response' = response /\ outcome' = outcome
        /\ pull' = pull /\ called' = called /\ reply' = reply /\ pushed' = pushed
    BY <1>1 DEF clientVars
  <2>2. line.serverEnd # "closed"
    BY <1>1 DEF EndsInv
  <2>3. TypeInv' /\ EndsInv' /\ WriteInv' /\ ReceiveInv' /\ OutcomeInv'
    BY <1>1, <1>3, <2>1, <2>2 DEF TypeInv, EndsInv, WriteInv, ReceiveInv, OutcomeInv
  <2>4. HandleInv'
    BY <1>1, <1>3, <2>1 DEF HandleInv, Faithful
  <2>5. ReplyInv'
    BY <1>1, <1>3, <2>1 DEF ReplyInv, Returning
  <2>. QED
    BY <2>3, <2>4, <2>5
<1>. QED
  BY <1>1, <1>2, <1>3

(* A handler that closes the connection waits for the next one. *)
LEMMA CloseStep ==
  ASSUME IInv, Close
  PROVE  IInv'
<1> USE DEF IInv
<1>1. /\ hpc = "close" /\ hpc' = "accept" /\ line' = [line EXCEPT !.serverEnd = "closed"]
      /\ cpc' = cpc /\ request' = request /\ iBytesWritten' = iBytesWritten
      /\ response' = response /\ outcome' = outcome
      /\ pull' = pull /\ called' = called /\ reply' = reply /\ pushed' = pushed
  BY DEF Close, clientVars
<1>2. line \in Line /\ line.serverEnd # "closed"
  BY <1>1 DEF TypeInv, EndsInv
<1>3. /\ line' \in Line /\ line'.toServer = line.toServer /\ line'.toClient = line.toClient
      /\ line'.clientEnd = line.clientEnd /\ line'.serverEnd = "closed" /\ line'.broken = line.broken
  BY <1>1, <1>2 DEF Line
<1>4. TypeInv'
  BY <1>1, <1>2, <1>3 DEF TypeInv
<1>5. EndsInv' /\ WriteInv' /\ ReceiveInv'
  BY <1>1, <1>3 DEF EndsInv, WriteInv, ReceiveInv
<1>6. HandleInv'
  BY <1>1, <1>3 DEF HandleInv, Faithful
<1>7. ReplyInv'
  <2>1. Returning' = Returning
    BY <1>1, <1>3 DEF Returning
  <2>. QED
    BY <1>1, <1>3, <2>1 DEF ReplyInv
<1>8. OutcomeInv'
  BY <1>1, <1>3 DEF OutcomeInv
<1>. QED
  BY <1>4, <1>5, <1>6, <1>7, <1>8

-----------------------------------------------------------------------------
(* Every step, and every step that changes nothing, preserves the          *)
(* invariant.                                                              *)
LEMMA StepPreserves ==
  ASSUME ReadsMessages, ReadsReplies, IInv, [Next]_vars
  PROVE  IInv'
<1>1. CASE Connect
  BY <1>1, ConnectStep
<1>2. CASE ConnectThrows
  BY <1>2, LeavesStep DEF ConnectThrows
<1>3. CASE Write
  BY <1>3, WriteStep
<1>4. CASE WriteFails
  BY <1>4, WriteFailsStep
<1>5. CASE Shutdown
  BY <1>5, ShutdownStep
<1>6. CASE ShutdownThrows
  BY <1>6, LeavesStep DEF ShutdownThrows
<1>7. CASE Read
  BY <1>7, ReadStep
<1>8. CASE ReadThrows
  BY <1>8, LeavesStep DEF ReadThrows
<1>9. CASE ClientDies
  BY <1>9, ClientDiesStep
<1>10. CASE Break
  BY <1>10, BreakStep
<1>11. CASE Accept
  BY <1>11, AcceptStep
<1>12. CASE Receive
  BY <1>12, ReceiveStep
<1>13. CASE ReceiveThrows
  BY <1>13, EndsStep DEF ReceiveThrows
<1>14. CASE Flush
  BY <1>14, FlushStep
<1>15. CASE Push
  BY <1>15, PushStep
<1>16. CASE PushFails
  BY <1>16, PushFailsStep
<1>17. CASE Close
  BY <1>17, CloseStep
<1>18. CASE UNCHANGED vars
  <2>1. /\ cpc' = cpc /\ request' = request /\ iBytesWritten' = iBytesWritten
        /\ response' = response /\ outcome' = outcome /\ line' = line
        /\ hpc' = hpc /\ pull' = pull /\ called' = called /\ reply' = reply /\ pushed' = pushed
    BY <1>18 DEF vars, clientVars, handlerVars
  <2>2. TypeInv' /\ EndsInv' /\ WriteInv'
    BY <2>1 DEF IInv, TypeInv, EndsInv, WriteInv
  <2>3. ReceiveInv'
    BY <2>1 DEF IInv, ReceiveInv, Received
  <2>4. HandleInv'
    BY <2>1 DEF IInv, HandleInv, Faithful
  <2>5. ReplyInv' /\ OutcomeInv'
    BY <2>1 DEF IInv, ReplyInv, Returning, OutcomeInv
  <2>. QED
    BY <2>2, <2>3, <2>4, <2>5 DEF IInv
<1>. QED
  BY <1>1, <1>2, <1>3, <1>4, <1>5, <1>6, <1>7, <1>8, <1>9, <1>10, <1>11, <1>12, <1>13, <1>14, <1>15,
     <1>16, <1>17, <1>18 DEF Next, SendNext, HandlerNext

(* The invariant from which the others follow. *)
THEOREM Invariance ==
  ASSUME ReadsMessages, ReadsReplies
  PROVE  Spec => []IInv
<1>1. Init => IInv
  BY InitEstablishes
<1>2. IInv /\ [Next]_vars => IInv'
  BY StepPreserves
<1>. QED
  BY <1>1, <1>2, PTL DEF Spec

(* What handleRequest() is called with is what was sent, and of a client   *)
(* that left early never a part of the entity, however the request is cut  *)
(* on its way.                                                             *)
THEOREM RequestsArrive ==
  ASSUME ReadsMessages, ReadsReplies
  PROVE  Spec => []RequestIntact
<1>1. IInv => RequestIntact
  <2> SUFFICES ASSUME IInv, called # NoCall
               PROVE  IF iBytesWritten = Len(request.bytes) THEN Whole(called, request) ELSE Cut(called, request)
    BY DEF RequestIntact
  <2>1. /\ DOMAIN called = {"method", "uri", "query", "accept", "contentType", "entity"}
        /\ Faithful(called)
    BY DEF IInv, HandleInv
  <2>2. Whole(called, request) => Cut(called, request)
    BY <2>1 DEF Whole, Cut
  <2>. QED
    BY <2>1, <2>2 DEF Faithful
<1>. QED
  BY <1>1, Invariance, PTL

(* No assertion of the parser fails and no line is refused on either side. *)
THEOREM ParsersNeverRefuse ==
  ASSUME ReadsMessages, ReadsReplies
  PROVE  Spec => []ParsersAccept
<1>1. IInv => ParsersAccept
  BY DEF IInv, HandleInv, ReplyInv, Accepts, ParsersAccept
<1>. QED
  BY <1>1, Invariance, PTL

(* What send() returns is taken from the reply, and is the reply if all of *)
(* it was read.                                                            *)
THEOREM ResponsesArrive ==
  ASSUME ReadsMessages, ReadsReplies
  PROVE  Spec => []ResponseIntact
<1>1. IInv => ResponseIntact
  <2>1. Nothing.kind # "returned" /\ Threw.kind # "returned"
    BY DEF Nothing, Threw
  <2>. QED
    BY <2>1 DEF IInv, OutcomeInv, ResponseIntact
<1>. QED
  BY <1>1, Invariance, PTL

-----------------------------------------------------------------------------
(* A client that leaves fails, unless it has returned; so does one that    *)
(* finds the process ended.                                                *)
LEMMA LeavesFails ==
  ASSUME Leaves(Threw), cpc # "idle"
  PROVE  Abstract!Fail
BY DEF Leaves, handlerVars, Abstract!Fail, Threw, Abstract!Threw

(* A connection to a process that has ended. *)
LEMMA ConnectThrowsMaps ==
  ASSUME IInv, ConnectThrows
  PROVE  Abstract!Fail \/ UNCHANGED Abstract!vars
<1>1. cpc = "idle" /\ hpc = "ended" /\ cpc' = "idle" /\ outcome' = Threw
      /\ request' = request /\ called' = called /\ reply' = reply
  BY DEF ConnectThrows, Leaves, handlerVars
<1>2. outcome \in {Nothing, Threw}
  BY <1>1 DEF IInv, OutcomeInv
<1>3. CASE outcome = Nothing
  BY <1>1, <1>3 DEF Abstract!Fail, Threw, Abstract!Threw, Nothing, Abstract!Nothing
<1>4. CASE outcome = Threw
  BY <1>1, <1>4 DEF Abstract!vars
<1>. QED
  BY <1>2, <1>3, <1>4

(* The handler replies once to a request. *)
LEMMA FlushMaps ==
  ASSUME IInv, Flush
  PROVE  Abstract!Handle \/ UNCHANGED Abstract!vars
<1>1. hpc = "flush" /\ cpc' = cpc /\ request' = request /\ outcome' = outcome
  BY DEF Flush, clientVars
<1>2. called = NoCall /\ request \in Messages
  BY <1>1, LineFacts DEF IInv, ReplyInv, TypeInv, EndsInv
<1>3. CASE called' = called /\ reply' = reply
  BY <1>1, <1>3 DEF Abstract!vars
<1>4. CASE called' = handled(pull) /\ reply' \in repliesTo(pull.header)
  <2>1. called' # NoCall
    <3>1. "uri" \in DOMAIN handled(pull)
      BY DEF handled
    <3>2. "uri" \notin DOMAIN NoCall
      BY DEF NoCall
    <3>. QED
      BY <1>4, <3>1, <3>2
  <2>2. request # <<>>
    BY <1>2, HttpExchangeAssumption
  <2>3. reply' \in Answers \cup {NoURI, NoRootResource}
    BY <1>4 DEF repliesTo
  <2>4. PICK r \in Answers \cup {ErrorReply(400, <<>>), ErrorReply(404, <<>>)} :
          reply'.status = r.status /\ reply'.entity = r.entity
    <3>1. CASE reply' \in Answers
      BY <3>1
    <3>2. CASE reply' = NoURI
      <4>1. reply'.status = ErrorReply(400, <<>>).status /\ reply'.entity = ErrorReply(400, <<>>).entity
        BY <3>2 DEF NoURI, ErrorReply
      <4>. QED
        BY <4>1
    <3>3. CASE reply' = NoRootResource
      <4>1. reply'.status = ErrorReply(404, <<>>).status /\ reply'.entity = ErrorReply(404, <<>>).entity
        BY <3>3 DEF NoRootResource, ErrorReply
      <4>. QED
        BY <4>1
    <3>. QED
      BY <2>3, <3>1, <3>2, <3>3
  <2>5. [status |-> reply'.status, entity |-> reply'.entity, handled |-> called' # NoCall]
          = Abstract!Handled(r)
    BY <2>1, <2>4 DEF Abstract!Handled
  <2>. QED
    BY <1>1, <1>2, <2>2, <2>4, <2>5 DEF Abstract!Handle, Abstract!NoRequest
<1>. QED
  BY <1>3, <1>4 DEF Flush

(* A read that is the last returns what is in the reply, or throws. *)
LEMMA ReadMaps ==
  ASSUME IInv, IInv', Read
  PROVE  Abstract!Return \/ Abstract!Fail \/ UNCHANGED Abstract!vars
<1>1. /\ cpc = "read" /\ request' = request /\ called' = called /\ reply' = reply
      /\ \/ cpc' = cpc /\ outcome' = outcome
         \/ cpc' = "idle" /\ outcome' = Finish(response')
  BY DEF Read, handlerVars
<1>2. CASE cpc' = cpc /\ outcome' = outcome
  BY <1>1, <1>2 DEF Abstract!vars
<1>3. CASE cpc' = "idle" /\ outcome' = Threw
  BY <1>1, <1>3 DEF Abstract!Fail, Threw, Abstract!Threw
<1>4. CASE /\ cpc' = "idle" /\ outcome' = Finish(response')
           /\ Finish(response') = Returned(response'.header.Status, response'.parser.body)
  <2> DEFINE status == response'.header.Status
             entity == response'.parser.body
  <2>1. outcome' = Returned(status, entity)
    BY <1>4
  <2> HIDE DEF status, entity
  <2>2. outcome'.kind = "returned" /\ outcome'.status = status /\ outcome'.entity = entity
    BY <2>1 DEF Returned
  <2>3. IsTakenFrom(outcome, reply)'
    <3>1. Nothing.kind # "returned" /\ Threw.kind # "returned"
      BY DEF Nothing, Threw
    <3>. QED
      BY <2>2, <3>1 DEF IInv, OutcomeInv
  <2>4. status \in {reply.status, 500} /\ entity \in {reply.entity, <<>>}
    BY <1>1, <2>2, <2>3 DEF IsTakenFrom
  <2>. QED
    BY <1>1, <1>4, <2>1, <2>4 DEF Abstract!Return, Returned, Abstract!Returned
<1>. QED
  BY <1>1, <1>2, <1>3, <1>4 DEF Finish

(* Every step is a step of RequestResponse or none. *)
LEMMA StepMaps ==
  ASSUME IInv, IInv', [Next]_vars
  PROVE  [Abstract!Next]_Abstract!vars
<1>1. CASE Connect
  <2>1. /\ cpc = "idle" /\ cpc' = "write" /\ request' \in Messages /\ outcome' = Nothing
        /\ called' = NoCall /\ reply' = NoReply
    BY <1>1 DEF Connect
  <2>2. [status |-> reply'.status, entity |-> reply'.entity, handled |-> called' # NoCall] = Abstract!NoReply
    BY <2>1 DEF NoReply, Abstract!NoReply
  <2>. QED
    BY <2>1, <2>2 DEF Abstract!Next, Abstract!Send, Nothing, Abstract!Nothing
<1>2. CASE ConnectThrows
  BY <1>2, ConnectThrowsMaps DEF Abstract!Next
<1>3. CASE ShutdownThrows \/ ReadThrows \/ ClientDies
  BY <1>3, LeavesFails DEF ShutdownThrows, ReadThrows, ClientDies, Abstract!Next
<1>4. CASE WriteFails
  <2>1. CASE cpc' = "idle"
    BY <1>4, <2>1 DEF WriteFails, handlerVars, Abstract!Next, Abstract!Fail, Threw, Abstract!Threw
  <2>2. CASE cpc' # "idle"
    BY <1>4, <2>2 DEF WriteFails, handlerVars, Abstract!vars
  <2>. QED
    BY <2>1, <2>2
<1>5. CASE Read
  BY <1>5, ReadMaps DEF Abstract!Next
<1>6. CASE Flush
  BY <1>6, FlushMaps DEF Abstract!Next
<1>7. CASE \/ Write \/ Shutdown \/ Break \/ Accept \/ Receive \/ ReceiveThrows \/ Push \/ PushFails
           \/ Close \/ UNCHANGED vars
  <2>1. /\ request' = request /\ (cpc' # "idle") = (cpc # "idle") /\ outcome' = outcome
        /\ called' = called /\ reply' = reply
    BY <1>7 DEF Write, Shutdown, Break, Accept, Receive, ReceiveThrows, Push, PushFails, Close,
         vars, clientVars, handlerVars
  <2>. QED
    BY <2>1 DEF Abstract!vars
<1>. QED
  BY <1>1, <1>2, <1>3, <1>4, <1>5, <1>6, <1>7 DEF Next, SendNext, HandlerNext

(* The client, the connection and the handler implement RequestResponse: a *)
(* request is handled at most once, and its send() returns what is in the  *)
(* reply to it, or throws.                                                 *)
THEOREM Refinement ==
  ASSUME ReadsMessages, ReadsReplies
  PROVE  Spec => ImplementsRequestResponse
<1>1. Init => Abstract!Init
  <2> SUFFICES ASSUME Init PROVE Abstract!Init
    OBVIOUS
  <2>1. /\ request = NoRequest /\ ~(cpc # "idle") /\ outcome = Nothing
        /\ called = NoCall /\ reply = NoReply
    BY DEF Init
  <2>2. [status |-> reply.status, entity |-> reply.entity, handled |-> called # NoCall] = Abstract!NoReply
    BY <2>1 DEF NoReply, Abstract!NoReply
  <2>3. request = Abstract!NoRequest /\ outcome = Abstract!Nothing
    BY <2>1 DEF NoRequest, Abstract!NoRequest, Nothing, Abstract!Nothing
  <2>. QED
    BY <2>1, <2>2, <2>3 DEF Abstract!Init
<1>2. IInv /\ IInv' /\ [Next]_vars => [Abstract!Next]_Abstract!vars
  BY StepMaps
<1>. QED
  BY <1>1, <1>2, Invariance, PTL DEF Spec, ImplementsRequestResponse, Abstract!Spec
=============================================================================

----------------------------- MODULE HttpParser -----------------------------
(***************************************************************************)
(* C2SHttpParser: a message arrives in chunks that may be cut anywhere.    *)
(* The state of the parser between two chunks and what parse() makes of    *)
(* the next one.  A CR is followed by a LF or by the end of the chunk.     *)
(***************************************************************************)
EXTENDS HttpHeader

(* body: what m_iCurrentBodyIdx counts; failed: an assertion of parse(). *)
NewParser ==
  [lastIncompleteLine |-> <<>>, totalLines |-> 0, numAdjacentCRLF |-> 0, headerFinished |-> FALSE,
   body |-> <<>>, contentSize |-> 0, failed |-> FALSE]

isAllRequestDataReceived(parser) ==
  parser.headerFinished /\ parser.contentSize <= Len(parser.body)

(* entity() throws unless the whole of a body has arrived. *)
hasEntity(parser, size) ==
  parser.contentSize # 0 /\ size <= parser.contentSize /\ size <= Len(parser.body)

-----------------------------------------------------------------------------
(* The loop of parse(): its locals are the current line, how many lines    *)
(* the chunk has ended and how much of it is left when the header ends.    *)
parseLine(s, line) ==
  IF s.header.threw # 0 THEN s.header
  ELSE IF s.totalLines # 0 THEN handleField(s.header, line)
  ELSE IF "Status" \in DOMAIN s.header THEN handleStatusLine(s.header, line)
  ELSE handleRequestLine(s.header, line)

IgnoredLine(s) == s.line = <<>> /\ s.totalLines = 0 /\ s.last = <<>>

endLine(s) ==
  LET continued == s.lines = 0 /\ s.last # <<>>
      line == IF continued THEN s.last \o s.line ELSE s.line
  IN  [s EXCEPT !.header = IF line = <<>> THEN @ ELSE parseLine(s, line),
                !.last = IF continued THEN <<>> ELSE @,
                !.lines = IF s.line = <<>> THEN @ ELSE @ + 1,
                !.line = <<>>,
                !.adjacent = @ + 1,
                !.totalLines = @ + 1]

parseCharacter(s, c) ==
  CASE s.adjacent = 2 -> [s EXCEPT !.rest = Append(@, c)]
    [] s.adjacent # 2 /\ c = "CR" -> s
    [] s.adjacent # 2 /\ c = "LF" -> IF IgnoredLine(s) THEN s ELSE endLine(s)
    [] OTHER -> [s EXCEPT !.line = Append(@, c), !.adjacent = 0]

parseHeader(parser, header, data) ==
  LET s == [header |-> header, last |-> parser.lastIncompleteLine, lines |-> 0, line |-> <<>>,
            adjacent |-> parser.numAdjacentCRLF, totalLines |-> parser.totalLines, rest |-> <<>>]
  IN  FoldLeft(parseCharacter, s, data)

(* The assertions on the size of the chunk, and the copy of the body. *)
parseBody(parser, length, rest) ==
  LET size == IF parser.contentSize = 0 THEN length ELSE parser.contentSize
  IN  [parser EXCEPT !.contentSize = size, !.body = @ \o rest,
                     !.failed = @ \/ Len(rest) > length \/ Len(rest) + Len(parser.body) > size]

scanned(parser, s) ==
  [parser EXCEPT !.lastIncompleteLine = IF s.adjacent = 2 THEN s.last ELSE s.last \o s.line,
                 !.totalLines = s.totalLines, !.numAdjacentCRLF = s.adjacent,
                 !.headerFinished = (s.adjacent = 2)]

parsed(parser, s) ==
  LET length == s.header.Fields.contentLength
  IN  [header |-> s.header,
       parser |-> IF s.adjacent = 2 /\ length # 0 THEN parseBody(scanned(parser, s), length, s.rest)
                  ELSE scanned(parser, s)]

parse(parser, header, data) == parsed(parser, parseHeader(parser, header, data))

=============================================================================

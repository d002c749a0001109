--------------------------- MODULE TelnetConnection ---------------------------
(***************************************************************************)
(* One connection from the segments its peer's bytes arrive in to the      *)
(* commands that run: TelnetOptions, the loop of connection_handler        *)
(* (src/io/celnet.c), with a ClientBuffer behind it, the record of         *)
(* src/io/telnet.c and its parser.  The loop calls                         *)
(* telnet_connection_handler for every stretch of data and goes on when it *)
(* returns, so that a stretch handed over is the chunk the record is       *)
(* given, and the loop stands still until the parser is done with it.      *)
(***************************************************************************)
EXTENDS TelnetOptions, Progress

CONSTANTS
  Streams,  \* what the peer may have to send
  Names, InitialCapacity, Slack, SizeWidth, Strays  \* of ClientBuffer

ASSUME StreamsAssumption == Streams \subseteq Seq(Bytes)

VARIABLES
  rest,    \* what the peer has still to send
  ends,    \* history: how many bytes had been received at the end of a segment
  log,     \* history: refusals and commands, in the order of their coming about
  linePc, lineBuffer, capacity, offset, calls, tidy  \* of ClientBuffer

Line == INSTANCE ClientBuffer WITH
  pc <- linePc, buffer <- lineBuffer, received <- data, MaxChunk <- BufferSize

ASSUME LineAssumption == Line!NamesAreWords /\ Line!SizesAreNumbers

lineVars == <<linePc, lineBuffer, capacity, offset, calls, tidy>>
connVars == <<vars, lineVars, rest, ends, log>>

ConnInit ==
  /\ Init /\ Line!Init
  /\ rest \in Streams /\ ends = {} /\ log = <<>>

-----------------------------------------------------------------------------

Segment ==
  /\ linePc = "idle"
  /\ \E n \in Lengths :
       /\ n <= Len(rest)
       /\ Recv(SubSeq(rest, 1, n))
       /\ rest' = SubSeq(rest, n + 1, Len(rest))
  /\ ends' = ends \cup {Len(received')}
  /\ UNCHANGED <<lineVars, log>>

\* telnet_connection_handler is called for what the loop gives away, if anything.
Called ==
  IF data' # data THEN Line!Deliver(SubSeq(data', Len(data) + 1, Len(data')))
  ELSE UNCHANGED lineVars

Loop ==
  /\ linePc = "idle"
  /\ GiveInFront \/ PlainByte \/ EndOfSegment
  /\ Called
  /\ UNCHANGED <<rest, ends, log>>

\* Variant: a command is refused while the parser is at work.
RefusedAtOnce ==
  /\ Refuse
  /\ log' = Append(log, Last(sent'))
  /\ UNCHANGED <<lineVars, rest, ends>>

Refused ==
  /\ linePc = "idle" /\ Refuse
  /\ log' = Append(log, Last(sent'))
  /\ UNCHANGED <<lineVars, rest, ends>>

Left == linePc = "idle" /\ Leave /\ UNCHANGED <<lineVars, rest, ends, log>>

\* An iteration of the parser, or its end.
Parser ==
  /\ Line!EmptyLine \/ Line!CommandLine \/ Line!PopUsed
  /\ log' = IF calls' = calls THEN log ELSE Append(log, Line!Told(Last(calls')))
  /\ UNCHANGED <<vars, rest, ends>>

Quiet == linePc = "idle" /\ Over /\ UNCHANGED connVars

ConnNext == Segment \/ Loop \/ Refused \/ Left \/ Parser \/ Quiet

ConnSpec == ConnInit /\ [][ConnNext]_connVars

\* Once it has a segment, the handler thread runs; a send that would block, and
\* the lock, are TelnetServer's subject.
Work == Loop \/ Refused \/ Parser
FairConnSpec == ConnSpec /\ WF_connVars(Work)

-----------------------------------------------------------------------------
(* Properties *)

\* What a stream asks for, in its order: at the last byte of a telnet command its
\* refusal, and at the end of a line the command of this line, if it is one.
LineAt(s, i) == Last(Line!LinesOf(OfKind(SubSeq(s, 1, i), 0)))
EventAt(s, i) == IF Kind(s)[i] = 1 THEN Refusal(s[i - 1], s[i]) ELSE LineAt(s, i)
IsEvent(s, i) ==
  \/ Kind(s)[i] = 1
  \/ Kind(s)[i] = 0 /\ s[i] \in Line!Delimiters /\ Line!Asked(LineAt(s, i))
EventsOf(s) ==
  LET at == Picked([i \in DOMAIN s |-> i], {i \in DOMAIN s : IsEvent(s, i)})
  IN  [k \in DOMAIN at |-> EventAt(s, at[k])]

\* No stretch of data goes on behind the end of its last line: at or behind the end
\* of a line the next byte in front of a telnet command or of the end of a segment
\* is the end of a line.
StretchesEndLines ==
  LET kind == Kind(received)
      lineEnds == {i \in DOMAIN received : kind[i] = 0 /\ received[i] \in Line!Delimiters}
      closed(j) == j \in ends \/ kind[j + 1] > 0
  IN  \A i \in lineEnds :
        \E j \in {k \in lineEnds : k >= i} :
          closed(j) /\ \A k \in i .. j - 1 : ~closed(k)

\* The rules for a peer: it may have its lines cut into segments in any way, and
\* telnet commands come between any two bytes of them, but no segment ends inside a
\* telnet command and no stretch of data goes on behind the end of a line.
Orderly == whole /\ StretchesEndLines /\ ~Contains(received, "nul")

\* What the connection is doing: it waits for the peer, serves it or has left it.
Stage ==
  CASE pc = "left" -> "left"
    [] pc = "recv" /\ linePc = "idle" -> "waiting"
    [] OTHER -> "serving"

\* At no time has the connection done anything else for an orderly peer than what
\* it was asked, each command and each refusal once, in the order of the stream;
\* and before it waits for more it has done all it was asked (celnet.c 107-196,
\* telnet.c 94-110, parsing.c 27-71).
ServedInOrder ==
  Orderly =>
    /\ IsPrefix(log, EventsOf(received))
    /\ Stage = "waiting" => log = EventsOf(received)

\* The same as a specification: a connection keeps to LineServer.
Promise == INSTANCE LineServer WITH
  asked <- EventsOf(received), done <- log, stage <- Stage, orderly <- Orderly
KeepsPromise == Promise!Spec

\* Why: a stretch is handed over up to a telnet command or the end of a segment,
\* and the record held no end of a line before.
Dealt ==
  CASE pc = "scan" -> Before + last
    [] pc = "refuse" -> Before + ri
    [] OTHER -> Len(received)
Stretch(start) ==
  LET n == Dealt - start
      m == Len(lineBuffer) - n
  IN  /\ ~EndsInCommand(SubSeq(received, 1, start)) /\ n <= Len(lineBuffer)
      /\ \A i \in 1 .. n :
           lineBuffer[m + i] = received[start + i] /\ received[start + i] # "iac"
      /\ tidy /\ ~Contains(data, "nul") =>
           \A i \in 1 .. m : lineBuffer[i] \notin Line!Delimiters
Cut ==
  /\ received # <<>> => Len(received) \in ends
  /\ \A e \in ends : e \in 0 .. Before \/ e = Len(received)
  /\ whole /\ linePc = "parse" =>
       /\ pc \in {"refuse", "recv"}
       /\ Dealt \in ends \/ Kind(received)[Dealt + 1] > 0
       /\ \E start \in Before .. Dealt : Stretch(start)
  /\ whole /\ StretchesEndLines /\ ~Contains(received, "nul") => tidy

\* Why: the log has the events of a beginning of the stream, with an idle parser
\* of all the loop has dealt with.  Otherwise nothing behind this beginning is of
\* a telnet command, and of its data no end of a line is still to be parsed.
LoggedUpTo(n) ==
  LET p == SubSeq(received, 1, n)
      front == OfKind(p, 0)
  IN  /\ log = EventsOf(p) /\ ~EndsInCommand(p)
      /\ \A i \in n + 1 .. Dealt : received[i] # "iac"
      /\ Len(Line!Through) <= Len(front)
      /\ \A i \in Len(Line!Through) + 1 .. Len(front) : front[i] \notin Line!Delimiters
Logged ==
  pc # "left" /\ whole /\ tidy /\ ~Contains(data, "nul") =>
    /\ linePc = "idle" => log = EventsOf(SubSeq(received, 1, Dealt))
    /\ linePc = "parse" => \E n \in 0 .. Dealt : LoggedUpTo(n)

\* However the segments end and whatever is in them, the handler comes back to
\* recv: the loop and the parser both move on with each turn (celnet.c 109-186,
\* parsing.c 29-70).
SegmentIsHandled == pc # "recv" ~> pc \in {"recv", "left"} /\ linePc = "idle"

\* What is left to do of a segment: turns of the loop, and with a chunk handed over
\* the bytes that are still to be parsed.
Turns ==
  CASE pc = "scan" -> 2 * (rbuff + 3 - ri)
    [] pc = "refuse" -> 2 * (rbuff + 3 - ri) - 1
    [] OTHER -> 0
Unparsed == IF linePc = "parse" THEN Len(Line!Text) + 1 - offset ELSE 0
ToDo == <<Turns, Unparsed>>

\* Why: each turn of the loop or the parser, whatever bytes it meets and however far
\* it reads behind the segment, leaves less to do, and nothing else happens except in
\* recv, until the connection is left (celnet.c 109-186, parsing.c 29-70).
SegmentRunsOut ==
  [][\/ Work /\ Below(ToDo', ToDo)
     \/ pc = "recv" /\ linePc = "idle"
     \/ pc' = "left"]_connVars
=============================================================================

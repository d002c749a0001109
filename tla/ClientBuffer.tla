---------------------------- MODULE ClientBuffer ----------------------------
(***************************************************************************)
(* What becomes of the bytes of one connection: the client record of       *)
(* src/io/telnet.c, which gathers them, and parse_client_buffer            *)
(* (src/controllers/parsing.c), which executes the lines they complete.    *)
(*                                                                         *)
(* telnet_connection_handler runs under connection_lock, so nothing comes  *)
(* between its steps: Deliver is its beginning, EmptyLine and CommandLine  *)
(* are the iterations of the loop in parse_client_buffer, PopUsed is its   *)
(* end.  Bytes are symbols; "sp", "cr", "lf" and "nul" are the four that   *)
(* the code tells apart from the others.                                   *)
(***************************************************************************)
EXTENDS Integers, Sequences, FiniteSets, SequencesExt, Subsequence

CONSTANTS
  Bytes,            \* what a peer may send
  Names,            \* keys of command_handler_map
  InitialCapacity,  \* create_client's argument: 1024
  Slack,            \* added when the buffer grows: 10
  SizeWidth,        \* bits of a size_t
  Strays,           \* what parse_client_buffer may return, besides the offset,
                    \*   when it reaches its end without a return statement
  MaxChunk,         \* bound: bytes of a chunk (buffer_size in the code: 1024)
  MaxReceived       \* bound: bytes of the whole connection

\* What whoever gives the constants values has to assume.  setup_commands
\* (commands.c 17-19) puts "search", "info" and "exit": none is the empty string.
NamesAreWords == Names \subseteq Seq(Bytes) \ {<<>>}
SizesAreNumbers ==
  /\ InitialCapacity \in Nat /\ Slack \in Nat /\ Strays \subseteq Nat
  /\ SizeWidth \in Nat \ {0} /\ MaxChunk \in Nat /\ MaxReceived \in Nat

VARIABLES
  pc,        \* "idle", or "parse" while a chunk is handled
  buffer,    \* the bytes of client->buffer below client->pointer
  capacity,  \* client->capacity
  offset,    \* of parse_client_buffer
  calls,     \* commands executed since the connection was made
  received,  \* history: every byte received
  tidy       \* history: each chunk that completed a line ended with that line

vars == <<pc, buffer, capacity, offset, calls, received, tidy>>

\* The record is made with the first chunk; until then it might as well exist.
Init ==
  /\ pc = "idle" /\ buffer = <<>> /\ capacity = InitialCapacity
  /\ offset = 0 /\ calls = <<>> /\ received = <<>> /\ tidy = TRUE

-----------------------------------------------------------------------------
(* Searching *)

Delimiters == {"cr", "lf"}

\* Where the first byte of S is in s, past its end when there is none.
First(S, s) == LET i == SelectInSeq(s, LAMBDA b : b \in S)
               IN  IF i = 0 THEN Len(s) + 1 ELSE i
UpTo(S, s) == SubSeq(s, 1, First(S, s) - 1)
After(S, s) == SubSeq(s, First(S, s) + 1, Len(s))

\* Variant: the whole copy is parsed, whatever it contains.
TextWhole == buffer

\* The C string that the copy of the buffer is.
Text == UpTo({"nul"}, buffer)

Rest == SubSeq(Text, offset + 1, Len(Text))    \* data + offset
HasLine == First(Delimiters, Rest) <= Len(Rest)
LineLen == First(Delimiters, Rest) - 1
Line == SubSeq(Rest, 1, LineLen)

\* A line without a space ends its word with its own terminator, and the
\* argument pointer is then past it: at whatever the buffer goes on with.
WordLen == First({"sp"}, Line) - 1
ArgsOf ==
  IF WordLen < LineLen THEN After({"sp"}, Line) ELSE After(Delimiters, Rest)

\* command_len has been incremented when the length is computed.
ArgsLen == (LineLen - (WordLen + 1 + 2)) % 2^SizeWidth

Call == [name |-> SubSeq(Line, 1, WordLen), args |-> ArgsOf, len |-> ArgsLen,
         spaced |-> WordLen < LineLen]

-----------------------------------------------------------------------------
(* One call of telnet_connection_handler *)

\* Variant: the buffer grows by a fixed amount.
GrownBySlack(n) ==
  IF Len(buffer) + n > capacity THEN capacity + Slack ELSE capacity

\* client_append_data
Grown(n) == IF Len(buffer) + n > capacity THEN capacity + n + Slack ELSE capacity

Deliver(chunk) ==
  /\ pc = "idle" /\ chunk # <<>>
  /\ Len(received) + Len(chunk) <= MaxReceived
  /\ buffer' = buffer \o chunk /\ capacity' = Grown(Len(chunk))
  /\ received' = received \o chunk
  /\ offset' = 0 /\ pc' = "parse"
  /\ UNCHANGED <<calls, tidy>>

\* Variant: the scan goes the wrong way.
EmptyLineBack ==
  /\ pc = "parse" /\ HasLine /\ LineLen = 0
  /\ offset' = offset - 1
  /\ UNCHANGED <<pc, buffer, capacity, calls, received, tidy>>

\* Variant: the delimiter is not skipped.
EmptyLineStays ==
  /\ pc = "parse" /\ HasLine /\ LineLen = 0
  /\ UNCHANGED vars

EmptyLine ==
  /\ pc = "parse" /\ HasLine /\ LineLen = 0
  /\ offset' = offset + 1
  /\ UNCHANGED <<pc, buffer, capacity, calls, received, tidy>>

\* Variant: a line is taken to end with both delimiters, as in "\r\n".
CommandLineSkipsTwo ==
  /\ pc = "parse" /\ HasLine /\ LineLen > 0
  /\ calls' = IF Call.name \in Names THEN Append(calls, Call) ELSE calls
  /\ offset' = offset + LineLen + 2
  /\ UNCHANGED <<pc, buffer, capacity, received, tidy>>

\* A line whose word is no command is passed over in silence.
CommandLine ==
  /\ pc = "parse" /\ HasLine /\ LineLen > 0
  /\ calls' = IF Call.name \in Names THEN Append(calls, Call) ELSE calls
  /\ offset' = offset + LineLen + 1
  /\ UNCHANGED <<pc, buffer, capacity, received, tidy>>

\* parse_client_buffer returns, or falls off its end after the last byte.
Returned == {offset} \cup (IF Rest = <<>> THEN Strays ELSE {})

\* client_pop_count takes the bytes used off the END of the buffer.
PopUsed ==
  /\ pc = "parse" /\ ~HasLine
  /\ \E used \in Returned :
       buffer' = SubSeq(buffer, 1, IF used < Len(buffer) THEN Len(buffer) - used ELSE 0)
  /\ tidy' = (tidy /\ offset \in {0, Len(buffer)})
  /\ pc' = "idle"
  /\ UNCHANGED <<capacity, offset, calls, received>>

\* A peer may stop sending at any time.
Over == pc = "idle" /\ UNCHANGED vars

Chunks == UNION {[1 .. n -> Bytes] : n \in 1 .. MaxChunk}

Next ==
  \/ \E chunk \in Chunks : Deliver(chunk)
  \/ EmptyLine \/ CommandLine \/ PopUsed \/ Over

Spec == Init /\ [][Next]_vars

-----------------------------------------------------------------------------
(* Properties *)

TypeOK ==
  /\ pc \in {"idle", "parse"} /\ buffer \in Seq(Bytes) /\ received \in Seq(Bytes)
  /\ capacity \in Nat /\ offset \in Nat /\ tidy \in BOOLEAN

\* client->pointer never passes client->capacity, so the memcpy of
\* client_append_data stays inside the block, and the parser's offset never
\* passes the string it was given, whose length never passes the buffer's
\* (telnet.c 39-47 and 76-92, parsing.c 29-62).
BufferFits ==
  /\ Len(buffer) <= capacity
  /\ pc = "parse" => offset <= Len(Text)

\* Commands a stream of bytes asks for, read off the stream as a whole: the
\* stretches between two delimiters whose first word is a command.
LineEnds(s) == Picked([i \in DOMAIN s |-> i], {i \in DOMAIN s : s[i] \in Delimiters})
LinesOf(s) ==
  LET ends == LineEnds(s)
      start(k) == IF k = 1 THEN 1 ELSE ends[k - 1] + 1
  IN  [k \in DOMAIN ends |-> SubSeq(s, start(k), ends[k] - 1)]
Asked(l) == UpTo({"sp"}, l) \in Names
CommandsOf(s) ==
  LET lines == LinesOf(s) IN Picked(lines, {k \in DOMAIN lines : Asked(lines[k])})

\* What the commands executed were told, arguments no line gave left aside.
Told(c) == IF c.spaced THEN c.name \o <<"sp">> \o c.args ELSE c.name
Executed == [k \in DOMAIN calls |-> Told(calls[k])]

\* Whatever way the stream is cut into chunks, a peer that never sends a NUL
\* and never sends the beginning of a line together with the end of another
\* has exactly its command lines executed, each once, in order and with the
\* arguments it gave; nothing of the popping from the wrong end shows
\* (telnet.c 94-110, parsing.c 27-71).
TidyPeerIsServed ==
  pc = "idle" /\ tidy /\ ~Contains(received, "nul") => Executed = CommandsOf(received)

\* A NUL that has become the first byte is never removed and hides everything
\* after it: no command of this connection is executed again (telnet.c 105-108).
NulDeafens ==
  [][buffer # <<>> /\ Head(buffer) = "nul" =>
       calls' = calls /\ IsPrefix(buffer, buffer')]_vars

\* Both are inductive together.
IInv == TypeOK /\ BufferFits

\* Why a tidy peer is served: what was received in front of the buffer ends with
\* the end of a line, as does what the parser is through with of the buffer, and
\* the commands of both have been executed.
Gone == SubSeq(received, 1, Len(received) - Len(buffer))
Through == Gone \o SubSeq(buffer, 1, IF pc = "parse" THEN offset ELSE 0)
EndsLine(s) == s = <<>> \/ s[Len(s)] \in Delimiters
Served ==
  tidy /\ ~Contains(received, "nul") =>
    /\ received = Gone \o buffer
    /\ EndsLine(Gone) /\ EndsLine(Through)
    /\ Executed = CommandsOf(Through)
    /\ pc = "idle" => \A i \in DOMAIN buffer : buffer[i] \notin Delimiters

-----------------------------------------------------------------------------
(* What the comments of the repository promise *)

\* parsing.h 18: a handler is given "the string containing the arguments
\* supplied to the command": no more than what its own line says.
ArgsAreOfTheLine ==
  \A k \in DOMAIN calls : ~calls[k].spaced => calls[k].args = <<>>

\* parsing.h 43: parse_client_buffer returns "the number of bytes used by the
\* command"; those are the bytes popped, and the ones not used yet stay.
UsedBytesArePopped ==
  [][pc = "parse" /\ pc' = "idle" =>
       buffer' = SubSeq(buffer, offset + 1, Len(buffer))]_vars
=============================================================================

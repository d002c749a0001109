----------------------------- MODULE CardRequest -----------------------------
(***************************************************************************)
(* One call of api_json_response (src/io/scryfall.c): the request that is  *)
(* repeated until the answer fits the buffer, with http_get and http_parse *)
(* (src/io/https_client/https.c), which take the answer out of reads of    *)
(* any size, from a connection that is kept between requests.              *)
(*                                                                         *)
(* A symbol stands for a stretch of bytes: the text of a header line, the  *)
(* digits of a chunk's size, a byte of a body, or one end of a line break. *)
(***************************************************************************)
EXTENDS Integers, Sequences, SequencesExt, Progress

CONSTANTS
  Answers,      \* what the web service may answer
  InitialSize,  \* RESPONSE_BUFFER_SIZE: 8192
  ReadSize,     \* H_READ_SIZE: 2048
  ByteRange,    \* how many values a byte has: 256
  MayFail       \* whether the network may fail

Kinds == {"status", "length", "chunked", "other", "close", "size", "data", "cr", "lf",
          "error", "unset"}
Symbols == [is : Kinds, n : Nat]
Sym(kind, n) == [is |-> kind, n |-> n]

\* coded tells how the header gives the length of the body, which is written as the
\* chunks it is made of.  If it gives none, the body is what is sent until the
\* connection ends, which the client does not know: untold.  A service that ends it
\* without having said so in the header is left out.
AnswerType ==
  {a \in [status : Nat, coded : {"length", "chunked", "none"}, close : BOOLEAN,
          chunks : Seq(Seq(Symbols) \ {<<>>}), untold : Seq(Symbols)] :
     /\ a.coded = "none" => a.chunks = <<>>
     /\ a.untold # <<>> => a.coded = "none" /\ a.close}

ASSUME RequestAssumption ==
  /\ Answers \subseteq AnswerType
  /\ InitialSize \in Nat \ {0, 1} /\ ReadSize \in Nat \ {0} /\ MayFail \in BOOLEAN
  /\ ByteRange \in Nat \ {0} /\ ReadSize % ByteRange = 0

VARIABLES
  pc,         \* "connect", "send", "read", "parse", "decide" or "done"
  conn,       \* hi.tls: "none", "open", "closing" (the peer has), or "broken"
  wire,       \* what the service has sent and nobody has read
  hdr,        \* hi.response: status, content_length, chunked, close
  headerEnd,  \* hi.header_end
  length,     \* hi.length: of the chunk still to come; -1: its size is to come
  buf,        \* hi.r_buf from p1 to r_len
  size,       \* current_buff_size, and hi.body_size
  body,       \* what this request has written to the buffer
  response,   \* the buffer as a string; "unset" as malloc left it
  code,       \* what http_get returned
  answers,    \* history: the answers of the service
  failed,     \* history: a connection failed or ended early
  cut         \* history: a read ended inside a break behind a chunk, or
              \* in front of the last one

vars == <<pc, conn, wire, hdr, headerEnd, length, buf, size, body, response,
          code, answers, failed, cut>>

Headers == [status : Nat, contentLength : Nat, chunked : BOOLEAN, close : BOOLEAN]
NoHeader == [status |-> 0, contentLength |-> 0, chunked |-> FALSE, close |-> FALSE]

Init ==
  /\ pc = "connect" /\ conn = "none" /\ wire = <<>> /\ hdr = NoHeader
  /\ headerEnd = FALSE /\ length = 0 /\ buf = <<>>
  /\ size = InitialSize /\ body = <<>>
  /\ response = <<Sym("unset", 0)>> /\ code = 0
  /\ answers = <<>> /\ failed = FALSE /\ cut = FALSE

-----------------------------------------------------------------------------
(* The service.  The number of a break tells what it is behind: 0 a line, 1   *)
(* the data of a chunk, 2 the last chunk.                                     *)

Break(behind) == <<Sym("cr", behind), Sym("lf", behind)>>
Line(kind, n) == <<Sym(kind, n)>> \o Break(0)
BodyOf(a) == FlattenSeq(a.chunks)

HeaderOf(a) ==
  Line("status", a.status)
  \o (CASE a.coded = "length" -> Line("length", Len(BodyOf(a)))
        [] a.coded = "chunked" -> Line("chunked", 0)
        [] OTHER -> Line("other", 0))
  \o (IF a.close THEN Line("close", 0) ELSE <<>>)
  \o Break(0)

ChunkOf(data) == Line("size", Len(data)) \o data \o Break(1)

Encoded(a) ==
  HeaderOf(a)
  \o (IF a.coded = "chunked"
      THEN FlattenSeq([i \in DOMAIN a.chunks |-> ChunkOf(a.chunks[i])])
           \o Line("size", 0) \o Break(2)
      ELSE BodyOf(a) \o a.untold)

\* The service ends the connection, at any point of its answer.
ServiceCloses ==
  /\ MayFail /\ conn = "open" /\ pc # "done"
  /\ \E n \in 0 .. Len(wire) : wire' = SubSeq(wire, 1, n)
  /\ conn' = "closing"
  /\ UNCHANGED <<pc, hdr, headerEnd, length, buf, size, body, response, code,
                 answers, failed, cut>>

ConnectionBreaks ==
  /\ MayFail /\ conn = "open" /\ pc # "done"
  /\ conn' = "broken"
  /\ UNCHANGED <<pc, wire, hdr, headerEnd, length, buf, size, body, response,
                 code, answers, failed, cut>>

-----------------------------------------------------------------------------
(* http_get, up to the first read                                             *)

\* No connection, or one with an error: https_init clears hi.
Connect ==
  /\ pc = "connect" /\ conn \in {"none", "broken"}
  /\ conn' = "open" /\ wire' = <<>> /\ hdr' = NoHeader /\ headerEnd' = FALSE
  /\ length' = 0 /\ buf' = <<>>
  /\ pc' = "send"
  /\ UNCHANGED <<size, body, response, code, answers, failed, cut>>

\* http_get returns -1 and leaves the reason in the buffer.
Fail ==
  /\ conn' = "none" /\ wire' = <<>>
  /\ response' = <<Sym("error", 0)>> /\ code' = -1 /\ failed' = TRUE
  /\ pc' = "decide"

ConnectFails ==
  /\ MayFail /\ pc = "connect" /\ conn \in {"none", "broken"}
  /\ Fail
  /\ hdr' = NoHeader /\ headerEnd' = FALSE /\ length' = 0 /\ buf' = <<>>
  /\ UNCHANGED <<size, body, answers, cut>>

Reuse ==
  /\ pc = "connect" /\ conn \in {"open", "closing"}
  /\ pc' = "send"
  /\ UNCHANGED <<conn, wire, hdr, headerEnd, length, buf, size, body, response,
                 code, answers, failed, cut>>

\* Variant: hi.body_len is kept from one request to the next.
SendKeepsBody(a) ==
  /\ pc = "send" /\ conn \in {"open", "closing"}
  /\ IF conn = "open"
     THEN wire' = wire \o Encoded(a) /\ answers' = Append(answers, a)
     ELSE UNCHANGED <<wire, answers>>
  /\ hdr' = [hdr EXCEPT !.status = 0, !.contentLength = 0, !.close = FALSE]
  /\ buf' = <<>> /\ headerEnd' = FALSE
  /\ pc' = "read"
  /\ UNCHANGED <<conn, length, size, body, response, code, failed, cut>>

\* hi is made ready, except for response.chunked and length, and the service
\* answers, unless it has closed the connection.
Send(a) ==
  /\ pc = "send" /\ conn \in {"open", "closing"}
  /\ IF conn = "open"
     THEN wire' = wire \o Encoded(a) /\ answers' = Append(answers, a)
     ELSE UNCHANGED <<wire, answers>>
  /\ hdr' = [hdr EXCEPT !.status = 0, !.contentLength = 0, !.close = FALSE]
  /\ buf' = <<>> /\ headerEnd' = FALSE /\ body' = <<>>
  /\ pc' = "read"
  /\ UNCHANGED <<conn, length, size, response, code, failed, cut>>

SendFails ==
  /\ pc = "send" /\ conn \in {"closing", "broken"}
  /\ Fail
  /\ UNCHANGED <<hdr, headerEnd, length, buf, size, body, answers, cut>>

-----------------------------------------------------------------------------
(* The reads                                                                  *)

\* r_len once the NUL is written behind n bytes: behind a full r_buf it falls on the
\* low byte of r_len.
Terminated(n) == IF n = ReadSize THEN n - (n % ByteRange) ELSE n

Read(n) ==
  /\ pc = "read" /\ conn \in {"open", "closing"} /\ Len(buf) + n <= ReadSize
  /\ buf' = SubSeq(buf \o SubSeq(wire, 1, n), 1, Terminated(Len(buf) + n))
  /\ wire' = SubSeq(wire, n + 1, Len(wire))
  /\ cut' = (\/ cut
             \/ wire[n].is = "cr" /\ wire[n].n > 0
             \/ n < Len(wire) /\ wire[n + 1].is = "cr" /\ wire[n + 1].n = 2)
  /\ pc' = "parse"
  /\ UNCHANGED <<conn, hdr, headerEnd, length, size, body, response, code,
                 answers, failed>>

\* A read that returns 0: the service is gone without a word, or there is no room
\* to read to.
ReadEnds ==
  /\ pc = "read"
  /\ \/ conn = "closing" /\ wire = <<>>
     \/ conn \in {"open", "closing"} /\ wire # <<>> /\ Len(buf) = ReadSize
  /\ conn' = "none" /\ wire' = <<>> /\ code' = hdr.status /\ failed' = TRUE
  /\ pc' = "decide"
  /\ UNCHANGED <<hdr, headerEnd, length, buf, size, body, response, answers, cut>>

\* An error, an end that TLS announces, or nothing came for five seconds.
ReadFails ==
  /\ pc = "read"
  /\ \/ conn = "broken"
     \/ conn \in {"open", "closing"} /\ wire = <<>>
  /\ Fail
  /\ UNCHANGED <<hdr, headerEnd, length, buf, size, body, answers, cut>>

-----------------------------------------------------------------------------
(* http_parse: one action for each way through its loop                       *)

IsBreak(i) == buf[i].is = "cr" /\ buf[i + 1].is = "lf"
HasLine == \E i \in 1 .. Len(buf) - 1 : IsBreak(i)
LineLen == Min({i \in 1 .. Len(buf) - 1 : IsBreak(i)}) - 1
Behind(n) == SubSeq(buf, n + 1, Len(buf))

\* What http_header makes of a line.
WithHeader(text) ==
  CASE text.is = "status" -> [hdr EXCEPT !.status = text.n]
    [] text.is = "length" -> [hdr EXCEPT !.contentLength = text.n]
    [] text.is = "chunked" -> [hdr EXCEPT !.chunked = TRUE]
    [] text.is = "close" -> [hdr EXCEPT !.close = TRUE]
    [] OTHER -> hdr

\* strtol of the first n symbols: white space in front of the digits is skipped.
SizeIn(n) ==
  CASE n > 0 /\ buf[1].is = "size" -> buf[1].n
    [] n > 1 /\ buf[1].is = "lf" /\ buf[2].is = "size" -> buf[2].n
    [] OTHER -> 0

HeaderLine ==
  /\ pc = "parse" /\ ~headerEnd /\ HasLine /\ LineLen > 0
  /\ hdr' = WithHeader(buf[1])
  /\ buf' = Behind(LineLen + 2)
  /\ UNCHANGED <<pc, conn, wire, headerEnd, length, size, body, response, code,
                 answers, failed, cut>>

\* The code then looks for a chunk's size at once, as it would in its next turn.
HeaderEnds ==
  /\ pc = "parse" /\ ~headerEnd /\ HasLine /\ LineLen = 0
  /\ headerEnd' = TRUE
  /\ buf' = Behind(2)
  /\ length' = IF hdr.chunked THEN -1 ELSE hdr.contentLength
  /\ UNCHANGED <<pc, conn, wire, hdr, size, body, response, code, answers,
                 failed, cut>>

AtSize == headerEnd /\ hdr.chunked /\ length = -1

\* Variant: the loop is not left.
LineToComeLoops ==
  /\ pc = "parse" /\ (~headerEnd \/ AtSize) /\ ~HasLine
  /\ UNCHANGED vars

\* The end of the line has not come: what there is of it is kept.
LineToCome ==
  /\ pc = "parse" /\ (~headerEnd \/ AtSize) /\ ~HasLine
  /\ pc' = "read"
  /\ UNCHANGED <<conn, wire, hdr, headerEnd, length, buf, size, body, response,
                 code, answers, failed, cut>>

ChunkSize ==
  /\ pc = "parse" /\ AtSize /\ HasLine
  /\ length' = SizeIn(LineLen)
  /\ hdr' = IF length' = 0 THEN [hdr EXCEPT !.chunked = FALSE]
            ELSE [hdr EXCEPT !.contentLength = @ + length']
  /\ buf' = Behind(LineLen + 2)
  /\ UNCHANGED <<pc, conn, wire, headerEnd, size, body, response, code, answers,
                 failed, cut>>

\* Variant: no room is left for the NUL.
CopyWithoutNul(n) ==
  LET room == size - Len(body)
      m == IF n < room THEN n ELSE room
  IN  IF room > 0
      THEN body' = body \o SubSeq(buf, 1, m) /\ response' = body'
      ELSE UNCHANGED <<body, response>>

\* n symbols are copied, or as many as leave room for the NUL.
Copy(n) ==
  LET room == size - 1 - Len(body)
      m == IF n < room THEN n ELSE room
  IN  IF room > 0
      THEN body' = body \o SubSeq(buf, 1, m) /\ response' = body'
      ELSE UNCHANGED <<body, response>>

\* http_get returns.
Got ==
  /\ code' = hdr.status
  /\ IF hdr.close THEN conn' = "none" /\ wire' = <<>> ELSE UNCHANGED <<conn, wire>>
  /\ pc' = "decide"

AtData == headerEnd /\ ~AtSize /\ length > 0

\* Variant: all is copied, whatever the length of the chunk.
CopyAllOfIt ==
  /\ pc = "parse" /\ AtData
  /\ Copy(Len(buf))
  /\ length' = length - Len(buf) /\ buf' = <<>>
  /\ IF ~hdr.chunked /\ length' <= 0 THEN Got
     ELSE pc' = "read" /\ UNCHANGED <<conn, wire, code>>
  /\ UNCHANGED <<hdr, headerEnd, size, answers, failed, cut>>

\* Less than the rest of the chunk has come, or just that.
CopyAll ==
  /\ pc = "parse" /\ AtData /\ Len(buf) <= length
  /\ Copy(Len(buf))
  /\ length' = length - Len(buf) /\ buf' = <<>>
  /\ IF ~hdr.chunked /\ length' = 0 THEN Got
     ELSE pc' = "read" /\ UNCHANGED <<conn, wire, code>>
  /\ UNCHANGED <<hdr, headerEnd, size, answers, failed, cut>>

\* More has come.  Unless the whole break is there, http_parse gives up.
CopyChunk ==
  /\ pc = "parse" /\ AtData /\ Len(buf) > length
  /\ Copy(length)
  /\ IF hdr.chunked /\ Len(buf) >= length + 2
     THEN /\ buf' = Behind(length + 2) /\ length' = -1
          /\ UNCHANGED <<pc, conn, wire, code>>
     ELSE Got /\ UNCHANGED <<buf, length>>
  /\ UNCHANGED <<hdr, headerEnd, size, answers, failed, cut>>

\* Variant: the break behind the chunk is not skipped.
ChunkBreakStays ==
  /\ pc = "parse" /\ headerEnd /\ hdr.chunked /\ length = 0
  /\ length' = -1
  /\ UNCHANGED <<pc, conn, wire, hdr, headerEnd, buf, size, body, response, code,
                 answers, failed, cut>>

\* The break behind a chunk whose data ended a read.
ChunkBreak ==
  /\ pc = "parse" /\ headerEnd /\ hdr.chunked /\ length = 0
  /\ buf' = IF Len(buf) > 2 /\ IsBreak(1) THEN Behind(2) ELSE <<>>
  /\ length' = -1
  /\ UNCHANGED <<pc, conn, wire, hdr, headerEnd, size, body, response, code,
                 answers, failed, cut>>

BodyEnds ==
  /\ pc = "parse" /\ headerEnd /\ ~hdr.chunked /\ length = 0
  /\ Got
  /\ UNCHANGED <<hdr, headerEnd, length, buf, size, body, response, answers,
                 failed, cut>>

-----------------------------------------------------------------------------
(* api_json_response                                                          *)

\* The answer was longer than the buffer.
Repeat ==
  /\ pc = "decide" /\ hdr.contentLength > size
  /\ size' = hdr.contentLength + 1
  /\ pc' = "connect"
  /\ UNCHANGED <<conn, wire, hdr, headerEnd, length, buf, body, response, code,
                 answers, failed, cut>>

Return ==
  /\ pc = "decide" /\ hdr.contentLength <= size
  /\ conn' = "none" /\ wire' = <<>>
  /\ pc' = "done"
  /\ UNCHANGED <<hdr, headerEnd, length, buf, size, body, response, code,
                 answers, failed, cut>>

Parse == \/ HeaderLine \/ HeaderEnds \/ LineToCome \/ ChunkSize
         \/ CopyAll \/ CopyChunk \/ ChunkBreak \/ BodyEnds

Client ==
  \/ Connect \/ ConnectFails \/ Reuse \/ SendFails
  \/ \E a \in Answers : Send(a)
  \/ \E n \in 1 .. Len(wire) : Read(n)
  \/ ReadEnds \/ ReadFails
  \/ Parse
  \/ Repeat \/ Return

Done == pc = "done" /\ UNCHANGED vars

Next == Client \/ ServiceCloses \/ ConnectionBreaks \/ Done

Spec == Init /\ [][Next]_vars
FairSpec == Spec /\ WF_vars(Client)

-----------------------------------------------------------------------------
(* Properties *)

TypeOK ==
  /\ pc \in {"connect", "send", "read", "parse", "decide", "done"}
  /\ conn \in {"none", "open", "closing", "broken"}
  /\ wire \in Seq(Symbols) /\ buf \in Seq(Symbols) /\ body \in Seq(Symbols)
  /\ Len(buf) <= ReadSize
  /\ hdr \in Headers
  /\ headerEnd \in BOOLEAN /\ length \in Nat \cup {-1}
  /\ size \in Nat \ {0} /\ code \in Nat \cup {-1}

\* http_get writes no byte of a body, and no NUL, behind the buffer it was given,
\* however the answer is cut and however often the request is repeated (https.c
\* 293-365, scryfall.c 27-38).
WritesInBounds == Len(body) < size

IInv == TypeOK /\ WritesInBounds

\* The caller has an answer that arrived whole, its connections having held, no
\* read having ended inside a break behind a chunk, and that the buffer holds:
\* the status and the body of the last answer, wherever reads ended otherwise
\* (https.c 177-400, scryfall.c 17-46).  A body whose length the header does not tell
\* is lost, and is none here.
Arrived == pc = "done" /\ ~failed /\ ~cut
LastBody == BodyOf(Last(answers))
ResponseIsWhole ==
  Arrived /\ Len(LastBody) \notin {0, size}
    => code = Last(answers).status /\ response = LastBody

\* What the caller gets is the beginning of the body of one answer, never of two:
\* requests share the buffer, which keeps what an earlier one wrote.  It is what
\* malloc left there only if no byte of any body came, the last answer being empty
\* or a connection having ended; and the text of an error, which the request that
\* is repeated may return with status 200, only if one did (scryfall.c 17-46,
\* https.c 701-827).
ResponseIsOfOneAnswer ==
  pc = "done" /\ ~cut =>
    \/ response = <<Sym("error", 0)>> /\ failed
    \/ response = <<Sym("unset", 0)>> /\ (failed \/ LastBody = <<>>)
    \/ \E i \in DOMAIN answers : IsPrefix(response, BodyOf(answers[i]))

\* However much longer each answer is than the last, api_json_response returns
\* (scryfall.c 27-38).
Returns == <>(pc = "done")

\* What is left to do for the caller if no body is longer than longest: requests with
\* larger buffers, of the one at hand the steps, and of its reads and their parsing
\* symbols, each of which weighs more on the wire than in r_buf.
Growth(longest) == IF size <= longest THEN longest + 1 - size ELSE 0
Phase ==
  CASE pc = "connect" -> 4 [] pc = "send" -> 3 [] pc \in {"read", "parse"} -> 2
    [] pc = "decide" -> 1 [] OTHER -> 0
Turn ==
  CASE pc = "parse" /\ length = 0 -> 2 [] pc = "parse" /\ length # 0 -> 1 [] OTHER -> 0
Unparsed == 4 * Len(wire) + Len(buf) + Turn
ToDo(longest) == <<Growth(longest), Phase, Unparsed>>

\* Why: each step of the client, through repeated requests, failures and ways through
\* http_parse that take nothing, leaves less to do, and what the network does never
\* more, as long as no read has ended inside a break (https.c 177-400 and 701-827,
\* scryfall.c 17-46).
RequestRunsOut(longest) ==
  [][~cut' =>
       \/ Below(ToDo(longest)', ToDo(longest))
       \/ ~Client /\ ToDo(longest)' = ToDo(longest)]_vars

\* scryfall.h 36: api_json_response "Fetches the response from the api and returns
\* it's content if any"; here over connections that hold until it arrived.
ContentIsReturned ==
  pc = "done" /\ ~failed /\ LastBody # <<>> => response = LastBody

-----------------------------------------------------------------------------
(* The invariant of the proofs about answers.  While no read has ended where  *)
(* cut says, the client is at a place of the last answer that it knows: what  *)
(* is in r_buf and on the wire is the answer from there on, or its beginning  *)
(* if the connection has ended, and what was stored is what lies before it.   *)

\* Of the chunks in front of chunk c: their bytes, and where they end in the answer.
BytesBefore(a, c) == Len(FlattenSeq([i \in 1 .. c - 1 |-> a.chunks[i]]))
StartOf(a, c) == Len(HeaderOf(a)) + BytesBefore(a, c) + 5 * (c - 1)

Left(s, p) ==
  /\ p + Len(buf) + Len(wire) <= Len(s)
  /\ \A i \in 1 .. Len(buf) : buf[i] = s[p + i]
  /\ \A i \in 1 .. Len(wire) : wire[i] = s[p + Len(buf) + i]

\* The first n bytes of b have come; the buffer holds what of them fits.
Stored(b, n) ==
  /\ body = SubSeq(b, 1, IF n < size THEN n ELSE size - 1)
  /\ n > 0 => response = body

Header(a, n, chunked) ==
  [status |-> a.status, contentLength |-> n, chunked |-> chunked, close |-> a.close]

InHeader(a, p) ==
  /\ ~headerEnd /\ body = <<>> /\ Left(Encoded(a), p)
  /\ hdr.status = IF p > 0 THEN a.status ELSE 0
  /\ hdr.contentLength = IF p > 3 /\ a.coded = "length" THEN Len(BodyOf(a)) ELSE 0
  /\ hdr.chunked <=> p > 3 /\ a.coded = "chunked"
  /\ hdr.close <=> p > 6

InBody(a) ==
  /\ headerEnd /\ a.coded # "chunked" /\ length \in 0 .. Len(BodyOf(a))
  /\ hdr = Header(a, Len(BodyOf(a)), FALSE)
  /\ Left(Encoded(a), Len(HeaderOf(a)) + Len(BodyOf(a)) - length)
  /\ Stored(BodyOf(a), Len(BodyOf(a)) - length)

AtChunk(a, c) ==
  /\ headerEnd /\ a.coded = "chunked" /\ length = -1
  /\ hdr = Header(a, BytesBefore(a, c), TRUE)
  /\ Left(Encoded(a), StartOf(a, c))
  /\ Stored(BodyOf(a), BytesBefore(a, c))

InChunk(a, c) ==
  /\ headerEnd /\ a.coded = "chunked" /\ length \in 0 .. Len(a.chunks[c])
  /\ length = 0 /\ pc = "parse" => buf # <<>>
  /\ hdr = Header(a, BytesBefore(a, c + 1), TRUE)
  /\ Left(Encoded(a), StartOf(a, c) + 3 + Len(a.chunks[c]) - length)
  /\ Stored(BodyOf(a), BytesBefore(a, c + 1) - length)

BehindChunks(a) ==
  /\ headerEnd /\ a.coded = "chunked" /\ length = 0
  /\ hdr = Header(a, Len(BodyOf(a)), FALSE)
  /\ Left(Encoded(a), Len(Encoded(a)) - 2)
  /\ Stored(BodyOf(a), Len(BodyOf(a)))

Within(a) ==
  \/ \E p \in {0, 3, 6} \cup (IF a.close THEN {9} ELSE {}) : InHeader(a, p)
  \/ InBody(a)
  \/ \E c \in 1 .. Len(a.chunks) + 1 : AtChunk(a, c)
  \/ \E c \in 1 .. Len(a.chunks) : InChunk(a, c)
  \/ BehindChunks(a)

\* The service had closed the connection before this request.
Silent == pc = "read" /\ conn = "closing" /\ buf = <<>> /\ wire = <<>>

Placed ==
  pc \in {"read", "parse"} => Silent \/ (answers # <<>> /\ Within(Last(answers)))

\* No read ends in front of the last break, or inside it or one behind a chunk.
Uncut ==
  /\ wire # <<>> => ~(wire[1].is = "cr" /\ wire[1].n = 2)
  /\ buf # <<>> => ~(Last(buf).is = "cr" /\ Last(buf).n > 0)

\* A connection that is kept has nothing left of an answer.
KeptClean ==
  pc \in {"connect", "send", "decide"} /\ conn \in {"open", "closing"} =>
    wire = <<>> /\ ~hdr.chunked

Fetched ==
  pc \in {"decide", "done"} /\ ~failed =>
    /\ answers # <<>>
    /\ Stored(LastBody, Len(LastBody))
    /\ hdr.contentLength = Len(LastBody) /\ code = Last(answers).status

OfOneAnswer ==
  \/ response = <<Sym("error", 0)>> /\ failed
  \/ response = <<Sym("unset", 0)>>
  \/ \E i \in DOMAIN answers : IsPrefix(response, BodyOf(answers[i]))

Followed == Placed /\ Uncut /\ KeptClean /\ Fetched /\ OfOneAnswer

AnswerInv ==
  /\ IInv /\ size > 1 /\ answers \in Seq(Answers)
  /\ pc = "done" => hdr.contentLength <= size
  /\ ~cut => Followed
=============================================================================

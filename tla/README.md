# Models and proofs of the telnet_mtg server

`mtg_server` is a telnet server written in C. A peer sends lines such as `search <words>`, `info <name>` or `exit`;
the first two ask the Scryfall web service for cards and write the answer back. This directory holds TLA+ modules of
the program, TLC runs on small instances, and theorems checked by TLAPS. Every definition is taken from the source
(`src/`); `PROJECT.json` gives, for each, the lines it stands for.

## The system

### Parts

| part | source | state | operations | behaviour that is hard |
|---|---|---|---|---|
| accept loop | `io/celnet.c` 212-264 | the listening socket, the address block being set up | accept, create a handler thread, call `client_cleanup` | runs beside the threads it starts; ends when `accept` fails, with threads still running |
| connection handler, one thread per connection | `io/celnet.c` 61-208 | receive buffer, scan position | recv, refuse telnet options, hand data over, shut the socket down | starts before its connection is registered; segments cut anywhere |
| disconnection listener, one thread per connection | `io/telnet.c` 119-142 | the handler it joins | remove the client record and the socket entry, free the block | competes for the lock; frees the key of both tables |
| client registry | `io/telnet.c` 16-37, 94-206 | `current_connections`, `current_sockets`, `connection_lock` | register, find or make a record, remove, destroy | two tables, keyed by heap addresses that are reused, and one lock |
| client buffer | `io/telnet.c` 25-92 | buffer, pointer, capacity | append, copy, pop | a line may come in many chunks, a chunk may hold many lines |
| command parser | `controllers/parsing.c` | `command_handler_map` | find lines, split off the command, call it | C strings in a buffer that may hold any byte; no return at the end |
| commands, replies | `commands/commands.c`, `controllers/comm.c` | none | `search`, `info`, `exit`, send a message | run under `connection_lock`, web request and blocking send included |
| dictionary, array list | `utils/dict.c`, `utils/arraylist.c` | bins of pairs, a count | get, put, remove, rehash | a rehash in the middle of a put dereferences all keys |
| card client | `io/scryfall.c` | a response buffer, cards and their strings | request and repeat until it fits; parse, show and delete cards | ownership spread over three functions and two files; members that may be missing; failures end the process |
| HTTPS client | `io/https_client/https.c` | the connection, parser state (`header_end`, `length`, `r_buf`), the headers | `http_get`, `http_parse` | answers cut anywhere by reads, chunks, a connection kept between requests; sets SIGPIPE to be ignored |
| error handling | `utils/error_handler.c` | none | end the process, or warn | one failing allocation ends every connection |
| start-up, players, database | `main.c`, `entities/player.c`, `io/sqlite_wrapper.c` | list of responses, a connection, the database file | make the tables, look for the seed player | may be broken off anywhere and repeated; callback without a return value; one list for two queries |
| strings, URLs, addresses, hashes | `utils/strings.c`, `urlencode.c`, `net.c`, `hashing.c` | none | pure functions | boundaries, an uninitialised counter |
| UI, login, user controller | `ui.c`, `login.c`, `controllers/user.c` | none | not part of the build | |
| vendored | `utils/cJSON.c`, mbedtls, `ca_cert.h` | | | |

### How they interact

`main` makes the tables of the database, sets up the encoder and the command handlers, and looks for a seed player; then
it calls `launch_telnet_server`, which creates the two tables and the lock and enters the accept loop. For each
connection the loop allocates a block for the address, creates the handler thread, and then calls `client_cleanup`,
which enters the socket into `current_sockets` under the lock and creates the listener thread. The handler gives each
run of data bytes to `telnet_connection_handler`, which takes the lock, finds or makes the client record in
`current_connections`, appends, parses a copy of the buffer, and has the commands executed, all before it releases the
lock. When a handler ends, the listener that joined it takes the lock, removes both entries and frees the block. The
block's address is the key of both tables, and a later connection may be given the same one.

### What makes each part correct

- **Threads and registry**: no thread touches memory another has freed; a record belongs to one connection; the tables
  list exactly what they should; the lock is held exactly between its lock and unlock calls and always released; what
  is gone is cleaned up.
- **Client buffer and parser**: nothing leaves the memory it was given; every complete line is executed once, in
  order, with its own arguments.
- **Option scan**: the telnet layer gets the data bytes and nothing else; each telnet command is answered once.
- **Dictionary**: it is a map, whatever collides and whenever it grows.
- **HTTPS client and request loop**: nothing is written behind a buffer; an answer that arrived is returned whole,
  wherever reads cut it; the loop ends.
- **Start-up**: the server listens only when all is set up, and does so in the end, whatever an earlier start left behind.
- **Addresses**: the service is asked for what the peer typed.
- **Cards**: every block an answer makes the program allocate is freed, once; a text fits what is allocated for it.

## Modules

| module | models | state and actions |
|---|---|---|
| `TelnetServer` | all threads of the server with what they share | program counters `mpc`, `hpc`, `lpc`; `heap`, `conns`, `socks`, `lock`, `shut`, ...; one action per stretch of code between two points where another thread can tell the difference |
| `SessionRegistry` | what the two tables promise, in terms of sessions that own their entries | `stage`, `buffered`, `registered`; open, register, feed, leave, drop record, drop socket, halt |
| `ClientBuffer` | one connection's buffer and the parser | `Deliver` is the beginning of `telnet_connection_handler`, `EmptyLine` and `CommandLine` the iterations of the parser's loop, `PopUsed` the end |
| `TelnetOptions` | the loop of `connection_handler` that takes telnet commands out of segments | `Recv`, then for each position `PlainByte`, or `GiveInFront` and `Refuse`, and `EndOfSegment`; `Leave` when a send fails or the peer is gone |
| `TelnetConnection` | one connection from the segments to the commands that run: `TelnetOptions`, and behind it an instance of `ClientBuffer` | what the loop gives away is the chunk that is delivered, and the loop waits for the parser; `log` has refusals and commands in their order |
| `LineServer` | what a connection promises its peer, with nothing left of segments, buffers and parsers | `asked`, `done`, `stage`, `orderly`; ask, serve, wait, leave |
| `Dict`, `KeyValueMap` | the dictionary, and the map it implements | `DictPut` (replace, or insert and perhaps rehash), `DictRemove` |
| `CardRequest` | one call of `api_json_response`: request loop, `http_get`, `http_parse`, the web service and the network | the connection (`conn`, `wire`), parser state (`hdr`, `headerEnd`, `length`, `buf`), the buffer (`size`, `body`, `response`); one action per way through the parser's loop |
| `CardOwnership` | what `search` and `info` allocate and free on the way from an answer to its end | `heap`, a set of named blocks; `cards`; parse, show and delete one card at a time |
| `CardText` | the text of a card: `strreplace` on each of its strings, then `display_card` or the line of a search | the copy being made (`at`, `written`, `block`), `texts`, `room` and `shown` |
| `CardAddress` | the address a command asks for: `url_encode` byte by byte, `sprintf`, `parse_url` | the block being written (`encoded`, `enc`), `url`, `asked` |
| `CardCommand` | `search` and `info` from the words of the peer to the text: `CardAddress`, then `CardText` | |
| `StartUp` | `main` until it listens, the database wrapper and the players | `pc`; in memory `encoder`, `handlers`, `responses`; in the file `tables`, `player`; one action per statement or call; ends of the process, restarts, edits of the row |
| `TelnetServerProofs`, `ClientBufferProofs`, `TelnetConnectionProofs`, `CardRequestProofs`, `CardOwnershipProofs`, `CardTextProofs` (with the addresses), `StartUpProofs` (with the dictionary) | theorems | |
| `Subsequence` | the members of a sequence at given positions, in order: how a stream is read by the specifications | `Picked` |
| `Progress` | the order in which work gets less: by the first of several numbers that differ | `Below` |
| `InductionLemmas` | lemmas that several proofs need: induction over numbers, least numbers, joined and flattened sequences, `Picked`, `Below` | |
| `MC...` | the values of the constants for TLC | |

`TelnetServer` composes accept loop, handlers, listeners, registry, commands and replies. What it leaves to a choice,
the other modules make precise: which pieces a segment has (`Segments`) and which commands its chunks complete
(`CommandLists`) follow from the bytes in `TelnetConnection`, and that the tables behave as the functions `conns` and `socks`
is what `Dict` shows. Its outcomes of a fetch are the ones `CardRequest` and `CardOwnership` arrive at: an answer with status 200, another
status (`exit2`), a card without the members `search` reads (`sigsegv`). Those two meet in the answer, `CardOwnership`
beginning where `CardRequest` ends; `CardCommand` looks inside it from both sides, at the address before the request and
at the text made in `Parse` and `Show`. Definitions named "Variant" are not part of a specification: they are versions of an action
with a plausible mistake in it, kept to show which property notices.

### How the code's less pleasant sides are modelled

- *Undefined behaviour.* In `TelnetServer` a step that needs a block, an entry, a mutex or a table that is gone leads to
  the outcome `"undefined"` (operator `Using`), and a property says where that may happen. A read behind the received
  bytes (`TelnetOptions!Read`) gives an old byte of the buffer or any byte at all. The missing return of
  `parse_client_buffer` returns the offset, as gcc's `-O2`, the flag of `Makefile.variable`, makes it, or any member of
  the constant `Strays`.
- *The callback of sqlite.* It has no return statement. `AbortReturns` says whether what is in the return register lets
  sqlite go on, makes it abort the statement, which ends the process, or may do either.
- *Ends of the process.* `exit0` to `exit5` are the statuses the code passes to `error_at_line` or returns from `main`;
  `sigpipe` is a send to a broken connection before the first web request, `sigsegv` a card whose answer lacks
  what `commands.c` and `scryfall.c` read or free without a test.
- *Descriptors.* A connection's descriptor is never closed, so connections and descriptors are the same numbers
  `1 .. FdLimit`. A call of `accept` reserves one while it waits, as Linux does.
- *The peer.* It sends at most `MaxSegments` segments, may hang up at any time, and reads when it likes: `Window` replies
  fit before a send blocks.

## Runs

| run | instance | shows |
|---|---|---|
| `telnet_threads` | 3 connections, 2 blocks, 1 chunk each | memory safety, one owner per record, exact table of sockets, lock discipline, only a peer can stop who holds the lock, sockets shut by their own threads |
| `telnet_traffic` | 2 connections, 2 blocks, two chunks around an option command each, or an option command alone, under fairness | the inductive invariant, no reply kills the process, refinement of `SessionRegistry`; clean-up, data handled, the accept loop returns, the descriptor leak ends the server |
| `client_buffer` | all streams of up to 6 bytes of 5 symbols, in chunks of up to 4 | types, memory bounds, exact execution for a tidy peer, the effect of a NUL |
| `arguments_of_others`, `popped_from_the_end` | the same, with the code's constants | two comments of `parsing.h` the code does not keep (expected violations) |
| `connection` | streams of up to 3 of 7 words (lines, beginnings of lines, telnet commands), cut everywhere, under fairness | data and telnet commands told apart, lines and refusals in the order of the stream, the handler comes back to `recv` |
| `card_request` | 17 answers with bodies of up to 6 bytes, whole, in up to 2 chunks, or of a length the header does not tell; a buffer of 4 and reads of up to 6; failures anywhere; fairness | types, bounds of the response buffer, an answer that arrived is returned whole, what is returned is of one answer, the loop returns |
| `answer_that_just_fits` | the same without failures | a comment of `scryfall.h` the code does not keep (expected violation) |
| `card_ownership` | answers with up to 3 cards of which 2 fit, each with any of 3 strings and a list of up to one face | exact heap, everything freed, undefined outcomes come from faces only |
| `card_text` | `CardCommand`: both commands, all arguments of up to 3 bytes of 6, paths of up to 24; 8 members, each missing or one of 2 strings, a `size_t` of ten values and stray counters of 0, 1, 2, 4, 8 and 9 | encoding and address in bounds, the service asked for what was typed; the copy is right unless the length of its block wraps around, in bounds for a counter of zero, and the text fits |
| `start_up` | 4 tables, 3 commands, 2 rows, 2 ends of the process, 2 edits of the row; fairness | set up when it listens, a whole row printed, it listens in the end |
| `dictionary` | 5 keys, colliding, from 2 bins to 6 | well-formedness, refinement of `KeyValueMap` |

### Why the bounds are enough

Two blocks for three connections force the reuse of an address while another connection is alive: reuse needs one
block freed and taken again, and interference needs a second owner. Three connections let one be registered while
another is served and a third cleaned up; the lock and the tables treat all alike, and blocks are symmetric. The two
chunks of `telnet_traffic` give a record that is appended to after it was made, and a peer that hangs up in between; with
a window of one reply, a second reply and the refusal of an option block until the peer reads. For the buffer, six
bytes hold two command lines with an argument and a cut in any place; the block's capacity is 1 and its slack 1, so that
it grows several times, while in the code (1024 and 10) it hardly ever does. Two of the five symbols make the two
command names, one the beginning of the other, and unknown commands; a carriage return is left out because the code
treats it as a line feed. For `connection` the words are a command line, the beginning of one, an empty line, data with a NUL and three telnet
commands, one for each branch of the scan, two of them with a second IAC in them; up to three in a row, cut anywhere, put a telnet command into the
middle of a line, between lines and at either end of a segment, and `MaxReceived` lets seven bytes of them arrive.
`MaxSplit` lets only three be sent once a segment has ended inside a command, since the properties of the stream say
nothing from then on, and one more segment shows what the scan does with the old bytes. The dictionary starts with 2 bins and grows by 2 instead of 10 and 10,
which crosses the threshold of 0.75 twice with five keys.

In `CardRequest` a symbol stands for what the parser cannot tell apart further: the text of a header line, the digits
of a size, a byte of a body, and each end of a line break, so that a read may end between any two things the
parser distinguishes. Three symbols are a line, the last size and the last break together five: reads of up to six (`ReadSize`) take them at once, so that an
answer in chunks arrives whole over a connection that holds, and the connection is used again after it, as well as
any smaller reads, which end before, at and behind what each branch of the parser waits for. `ByteRange` is three, which
divides six as 256 divides 2048. No header line of the run fills `r_buf`. Bodies of 0 to
6 are below the buffer's 4, exactly it, and above, which repeats the request. In `CardOwnership` two cards of three that
were announced cross the limit of ten in the small; strings matter only in `id`, which faces do not set, and `name`
and `manacost`, which `search` reads. In `CardText` a string with a line feed at both ends and the empty one are the
boundaries of the loop; with a `size_t` of ten values counters of 4, 8 and 9 make the length of the first one's block wrap around, to no
bytes or to fewer than the copy needs, and 9 that of the second, and the other counters do not; every combination of missing members is among the states. In `CardAddress` three bytes stand for themselves, two of
them digits of the escapes of the others; an argument of three escapes is nine symbols, and a path of 24 leaves eight
symbols of a search and five of an `info`, so that paths are cut at and inside an escape. In `StartUp` two
ends of the process break off the first start and the one that repeats it, and two edits let a row appear and change or
go between the two queries.

### Fairness

`FairSpec` asks for weak fairness of each thread: the accept loop, every handler, every listener. That is what the
operating system's scheduler gives to threads that can run; a thread that waits for the lock, for `recv`, for `accept`
or for a full socket is not enabled. Weak fairness is enough for the lock because each peer's traffic is bounded, so that
nobody takes it for ever in turns; with endless traffic a mutex promises nothing. `PeerReads` is fair too: the
liveness properties are about peers that read what they are sent. A peer that does not read, and to which a reply is
sent, stops the whole server, since the reply is sent with `connection_lock` held; that is the code's behaviour and no
comment denies it, so it is said here and not reported. That nothing else can stop a thread that holds the lock is
`HolderIsStoppedByPeerOnly`, which needs no fairness. No peer need connect, send or hang up, and no allocation need fail: a handler's fair step excludes `CopyFails`,
which would otherwise get a handler out of waiting for the lock.

In `CardRequest` the fair process is the client: it always has a step, because a read that gets nothing fails after
five seconds (`https.c` 598, 669) and every other call returns. The service and the network owe nothing.

In `TelnetConnection` the fair process is the handler thread (`Work`), which has a step as long as a segment or a chunk is
not done with; the peer owes nothing. The waits of this thread, for the lock and for a full socket, are in
`TelnetServer` only.

In `StartUp` the process runs, and whoever runs it starts it again when it has ended; ends and edits are never owed, and
there are finitely many (`MaxFaults`). With a callback that always aborts and a player in the table the server would
never listen, which is why `ServesInTheEnd` has to be read as a statement on each start after the last such end.

## What is proved

All theorems hold for every value of the constants that the named assumptions allow, and rest on no other assumption.

- `TelnetServerProofs`: the inductive invariant `IInv`, and from it `TypeCorrect`, `MemorySafe`, `OneOwner`,
  `RegisteredExactly` and `LockDiscipline`. Memory safety is not inductive as it stands. That a listener finds its
  block and its entry needs that the block is its own (`BlocksAreOwned`: owned blocks are allocated and have one
  owner, and the accept loop's new block has none), that the threads of a connection start and end in order
  (`ThreadsInOrder`, `AcceptInOrder`), that keys in the tables are owned blocks (`RecordHasOneOwner`,
  `SocketsAreRegistered`), and that nothing is destroyed before the accept loop ends (`AllLive`). That a rehash may
  dereference all keys follows from the same. The lock's discipline is what keeps two threads from being in the tables
  at once. There is one lemma per thread (`MainKeeps`, `HandlerKeeps`, `ListenerKeeps`, `PeerKeeps`, `StopsKeep`),
  and in it one step per action.
- Also there: `Refinement`, that every behaviour of `TelnetServer` is one of `SessionRegistry` under the mapping
  at the end of `TelnetServer` (each step is one of its steps or changes nothing there); `OwnThreadsShut`, that a socket
  is shut down by the threads of its own connection only, which needs that the entry a thread finds through its key is
  its own; and `RepliesAreSafe`, that a reply cannot end the process by SIGPIPE, which needs that every reply comes
  after a web request (`WorkInHand`).
- `ClientBufferProofs`: `TypeCorrect`; `InBounds`, that the bytes of a record fit its block and the parser's offset its string, for any
  alphabet, any capacity and any stray return value. The lemmas say that a search ends in its string or right behind it;
  that in turn needs the least element of a set of numbers, taken from the well-foundedness of strict inclusion of
  finite sets. `NulHides`, that in a build whose stray return value is the offset a NUL at the front of the buffer
  stays there, with nothing run and nothing removed from then on. And `TidyPeersAreServed`, that a peer whose chunks end
  with their lines, and who sends no NUL, has exactly its commands executed, in order and with their arguments. The invariant
  is `Served`: what was received is what is gone from the buffer and the buffer behind it, what is gone ends with the
  end of a line, and the commands of what the parser is through with have been executed. It is proved for a build
  whose stray return value is the offset or at least the number of bytes received, which pops all there is; a smaller one would leave the beginning of a line
  that was executed.
- `TelnetConnectionProofs`: `OnlyReceivedBytes`, that the positions of the scan stay within a command of the segment's end
  and that only bytes of the segment at hand are given to the telnet layer, although the scan reads behind its end. It
  needs the invariant `Filled`: what lies in front of the end was received. `OptionsOfConnection` and `LineOfConnection`
  are that a connection implements `TelnetOptions` and `ClientBuffer` both, so that what is proved of each holds for
  it; a step of the one is a step or a stutter of the other. `OnlyDataIsGiven` and `EachCommandIsRefused`: while no segment has
  ended inside a telnet command, the telnet layer has been given the stream without them, and each has been refused once,
  in order. The invariant is `Accounted`: at each position of the scan the loop has dealt with a beginning of the
  stream that ends outside a command, and between it and the scan's position lie plain bytes. That the kinds of bytes can be read off a
  stream that grows (`Picked`) is a lemma of its own. And `EverythingInOrder`, that commands and refusals come about in the
  order of the stream, once each (`ServedInOrder`): what has been done is at any time a beginning of what was asked, and
  all of it before the handler waits for more. It has the same hypothesis about stray return values as
  `TidyPeersAreServed`. Two more invariants join the halves. `Cut`: a stretch handed over goes from where the loop had been
  to a telnet command or the end of the segment, and the record held no end of a line before it, so that the last line
  the parser finds in it ends it if the peer's stretches end their lines, and the peer is tidy. `Logged`: the log is what a
  beginning of the stream asks for, all that the loop has dealt with when the parser is idle; while it works, nothing
  behind this beginning belongs to a telnet command and the ends of lines in it are behind the parser's place
  in the data, so that the next line it finds is the next event of the stream. What `ClientBuffer`'s theorems say of the record is used
  through an instance of their module. `PromiseKept` rests on both: a connection implements `LineServer`. Each step is one of
  `LineServer` or a stutter, so that between two waits what was asked is done one by one, by whichever of the scan and
  the parser comes to it; a peer that does not keep to the rules makes `orderly` false for good, which has to be
  shown too. TLC would have to compute what a stream asks for twice in each step, which takes too long for a run;
  the run `connection` checks `ServedInOrder`, which says the same of states.
- `CardRequestProofs`: `TypeCorrect` and `RequestInBounds`, that no byte of a body, and no NUL, is ever written behind the response buffer,
  for any answers and sizes. It says nothing of `r_buf`: the NUL behind a full one is finding 14. It holds across the repetitions because a larger buffer comes with a request that starts
  at its beginning; the invariant is `TypeOK /\ WritesInBounds`, and the lemmas are about the position of the first
  line break. `AnswerArrivesWhole` and `AnswersAreNotMixed`: an answer that arrived is returned with its status and its whole
  body, and what is returned is of one answer. The invariant is `AnswerInv`: while no read has ended inside a break behind a
  chunk or in front of the last break, the client is at a place of the last answer that it knows (`Within`: in the
  header, in a body, at a chunk's size, in a chunk, behind all chunks); `r_buf` and the wire hold the answer from
  there on, or its beginning if the connection has ended (`Left`); what was stored is what of the body lies in front of the place, as far as it
  fits (`Stored`); and a connection that is kept has nothing left of an answer (`KeptClean`). The lemmas
  of its first section say where in an encoded answer each line, chunk and break is, for any number of chunks.
- `CardOwnershipProofs`: `OwnershipInvariant`, that at each step the allocated blocks are exactly those still to be
  freed (`HeapIsExact`), and from it `EverythingFreed` and `OnlyFacesAreUndefined`. It needs that the blocks of
  different cards, and those of the answer, are apart (`BlocksAreNumbered`, `AnswerIsApart`).
- `CardTextProofs`: `CopyStaysInBounds`, that `strreplace` stays in its string and its block if `strcount` happened to
  start at zero, and `TextAlwaysFits`, that `display_card` and the line of a search fit their blocks whichever members
  are missing. The first needs the invariant `CopyIsMeasured`: what is left of the block is what the rest of the string
  will take, a substitute for each line feed still to come (`BreaksBehind`). The second needs that a search shows ten
  cards at most: the block leaves room for one digit. `AddressFits`: `url_encode` stays in its block and the address in
  its own, for arguments of any length. It needs that behind the place that is written next the block is as `calloc` left
  it (`Blank`), and that this place is at most three symbols for each byte read. `CommandIsBoth`: `CardCommand` implements
  both of its parts. `CopiesAreReplaced`: for any value of the counter, a copy of `strreplace` that has its NUL is its string with each line
  feed replaced, and it comes to have one exactly if the length of the block, computed in a `size_t`, did not wrap around. The invariant
  `CopyIsFaithful` is that what is written is the copy of the front of the string, and that the block has room for the rest,
  or lacks what the wrap took from it (`Lost`).
  `AsksForTheWholeArgument`: the service decodes what the peer typed, or a beginning of its encoding where the path
  was cut; the invariant `AddressIsFaithful` is that the encoding up to `enc` decodes to what has been read and leaves no
  digits owed.
- `StartUpProofs`: `AlwaysSetUp`, that the server listens only when all is set up, and `PrintsWholeRows`, that the row it
  prints is of the second query, each from `StartInvariant`: the steps of a start come in order, the tables in front of
  `next` exist (`TablesInOrder`) and the list of responses is the last query's (`ResponsesAreOfTheQuery`). For the dictionary,
  `DictImplementsMap`, that through `dict_get` it is a map across every rehash, and `DictWellFormed`. The invariant `DictIInv`
  is that each pair is in its own bin and no key in two, and that the count is the number of keys under which something is found;
  a rehash keeps it because each pair moves to the one bin of the new table where its key belongs.

Liveness itself is out of the prover's reach, but not the reason for it. Four theorems say of a loop that each of its steps makes
what is left to do less in an order that cannot go down for ever (`Progress`), so that what TLC has to be trusted with,
beyond its instances, is only that the thread which is fair has a step.

- `HandlersGetThrough` in `TelnetServerProofs`, for `DataIsHandled`: pieces of a segment, and for each its commands and
  their replies (`Effort`). No step of another thread adds to it, whoever has the lock.
- `SegmentsRunOut` in `TelnetConnectionProofs`, for `SegmentIsHandled`: turns of the scan, and below them bytes the parser
  has not passed (`ToDo`). That the scan may step behind the end of the segment, by less than a telnet command, is counted in.
- `RequestsRunOut` in `CardRequestProofs`, for `Returns`: how far the buffer is from the longest body there is, the steps
  of a request, and symbols on the wire and in `r_buf` (`ToDo`). It needs that bodies have a longest, since a service whose answers
  grew with each request would be asked for ever, and it ends where a read ended inside a break, from where on
  the client takes bytes of a body for sizes. That a content length read from an answer is that of its body, or of
  the chunks that have come, is from `AnswerInv`.
- `StartsRunOut` in `StartUpProofs`, for `ServesInTheEnd`: faults that may still come, calls of `main`, tables, and whether the database
  is open (`ToDo`). Who changes the player's row does not make a start longer.

What these four say (`WorkRunsOut`, `SegmentRunsOut`, `RequestRunsOut`, `StartRunsOut`) was tried by TLC on instances like those of
`telnet_traffic`, `connection`, `card_request` and `start_up` before it was proved. It is no property of a run: the runs check the liveness
it explains.

The assumptions on constants are those of the code: keys of a dictionary are told apart by its comparator (`KeysApart`), it
grows by more than one bin (`Growth`: 10), commands have names (`NamesAreWords`; it and `SizesAreNumbers` are what
`LineAssumption` asks for), and the first buffer of a request has
more than one byte (`InitialSize`: 8192), since in a buffer of one byte `http_get` stores not even the NUL. The length of
`r_buf` is a multiple of what a byte counts (`ReadSize`, `ByteRange`: 2048 and 256; finding 14), and no string of an
answer is so long that twice its length wraps around in a `size_t` (`Sizes`).

The provers cannot apply an induction theorem that takes an operator. So what a specification reads off a
sequence is stated with recursive functions (`Picked`) or the folds of the community modules, not with recursive operators,
and an induction is over the numbers for which a claim holds, as a set: one that has 0, and with each number the next,
has all of them (`InductionLemmas`).

Only model-checked: the liveness properties and `HolderIsStoppedByPeerOnly`, since fairness and ENABLED are out of the prover's
reach.

## Where the code and its comments disagree

Shown by runs:

1. A command without arguments is handed whatever follows its line in the buffer (`parsing.h` 18).
2. Used bytes are popped from the end of the buffer while they are at its beginning (`parsing.h` 43). A peer that sends
   the beginning of a line behind the end of another loses it, and old bytes stay in front of its next line.
3. An answer whose body is exactly as long as the buffer loses its last byte and is not asked for again
   (`scryfall.h` 36).

Found on the way, in the models as outcomes or as exemptions of a property, without runs of their own:

4. Deleting a card with faces frees what `malloc` left in a face's `id` and follows what it left in `faces`
   (`scryfall.h` 69; `CardOwnership!DeleteGarbage`).
5. The argument length a handler is given is two short, and wraps around for arguments of one byte or none
   (`parsing.h` 19; `ClientBuffer!ArgsLen`). No handler of the program uses it.
6. A telnet command that two segments share is answered from stale bytes, and its rest taken for data (`celnet.c`
   83-84; `TelnetOptions!Read`).
7. An answer without a body is returned as what the buffer held before (`CardRequest`, the symbol "unset").
8. A read that ends between the carriage return and the line feed behind a chunk ends the parsing, and the rest of the
   body is lost; the line break behind the last chunk may stay on the connection and be taken for the header of the
   next answer (`CardRequest`, the variable `cut`).
9. A connection that ends inside a body gives the header's status and the part of the body that came
   (`CardRequest!ReadEnds`).
10. A search whose answer is no JSON, or has no data, frees neither the response nor the document
   (`CardOwnership!NotJson`, `NoData`).
11. `strcount` counts in a variable nobody has set. A value other than zero makes `strreplace` read behind its string; the
   result is right all the same, unless the value is so near to `SIZE_MAX` that the length of the block wraps around:
   then the block is too short, and the result has no NUL or is written behind it (`CardText!CopyIsReplaced`, `Wraps`).
12. An argument whose encoding is longer than 239 bytes for a search, or 236 for `info`, is cut, perhaps inside an
   escape, and the service asked for what is left (`https.c` 106; `CardAddress!ParseUrl`).
13. The text of an error that `http_get` put into the buffer can be returned as the answer, with status 200, when the
   request is repeated and the connection ends behind the header (`CardRequest!ResponseIsOfOneAnswer`).
14. When a read fills `r_buf`, the NUL behind it (`https.c` 799) falls on the low byte of `r_len`, the next member of `HTTP_INFO` (on a little-endian machine). That byte is
   zero then, 2048 being a multiple of 256, so nothing comes of it (`CardRequest!Terminated`); with another size of `r_buf` bytes of an
   answer would be lost.
15. The body of an answer that gives neither a content length nor chunks is lost: `length` is 0 behind the header (`https.c` 251), and `http_get`
   returns at once (`CardRequest!AnswerType`, the field `untold`).
16. When `accept` fails, `launch_telnet_server` destroys the lock and both tables while handlers and listeners still use
   them, until `main` returns (`telnet.c` 193; `TelnetServer!MemorySafeUntilTeardown` is about the time before).
17. One card that does not exist, one failed request, or one card that lacks what a search reads, ends the process and with it
   every connection (`scryfall.c` 212, `commands.c` 31; `TelnetServer!FetchFails`, `CommandCrashes`). No property denies
   it, and each liveness property allows for it.

## What is not modelled, and why

- `shutdown_telnet_server`: only `catchkill` calls it, and nothing installs `catchkill`.
- What stands behind a handler in `option_handlers`, `pbuffer` included: the table is never filled.
- `client_read_char`, `client_reput_char`, `client_peek_char`, `arraylist_insert`, `arraylist_dequeue`,
  `arraylist_last`: no caller.
- `create_player`: no caller; nothing in the program inserts a player.
- The UI, login and user controller: not built, and partly not valid C.
- cJSON, mbedtls, the certificate table: third-party code. It is nearly all of the repository's lines; the program's own
  C, without what is not built, is about 2800.
- `http_post`, `http_open`, the functions for uploads, `display_card_face`: no caller.
- The numbers of bytes TLS puts in a record, and mbedtls' own errors beyond what `https_read` and `https_write` return.
- `command_mutex` where the parser takes it (`parsing.c` 54): it is held around one `dict_get`, always inside
  `connection_lock` and with no other lock taken inside it, so that no thread ever waits for it.
- Blocks that one stretch of straight code allocates and frees: the encoded name and the address (`scryfall.c` 141-150, 169-178), the
  text of a card and its reply (`commands.c` 31-35, 46-52). They are not in the heap of `CardOwnership`; that what is written to
  them fits is `CardAddress` and `CardText`.
- A service that ends the connection without having said so in its header, behind a body whose length it did not tell either.
- Log output, among it the port that `display_ip` writes without its last digit.
- `socket`, `bind` and `listen` failing before the accept loop begins: nothing has started that could interact.
- `TelnetServer` with a `TelnetConnection` for every connection in place of `Segments` and `CommandLists`: the product of
  their states is out of reach, and the lists the constants allow include every one the bytes can give.

## Plan

Done: threads and registry, with their refinement and proofs; client buffer, parser and option scan, composed into one
connection, and what it promises (`LineServer`); dictionary; the commands from the address through the request loop with
its HTTP parser to the ownership of cards and their text; start-up with the database and the players; why the loops of
handlers, connections, requests and starts end.

Still worth doing: the encoder's tables and `hash_string_prime` as data of their own.

---------------------------- MODULE TelnetServer ----------------------------
(***************************************************************************)
(* The threads of the telnet server and what they share: the accept loop   *)
(* of src/io/celnet.c (the main thread), the two threads every connection  *)
(* gets (its handler, src/io/celnet.c, and its disconnection listener,     *)
(* src/io/telnet.c), connection_lock, the dictionaries current_connections *)
(* and current_sockets, the heap blocks whose addresses are their keys,    *)
(* the descriptors and the process itself.                                 *)
(*                                                                         *)
(* One action is what a thread does between two points where another       *)
(* thread can tell the difference.  What a command line contains is left   *)
(* to \E over CommandLists, what a segment contains to \E over Segments.   *)
(***************************************************************************)
EXTENDS Naturals, Sequences, FiniteSets, Progress

CONSTANTS
  FdLimit,        \* descriptors the process may still open when it listens
  Addrs,          \* heap blocks calloc may return for a sockaddr_in
  NoAddr,         \* the NULL pointer
  Segments,       \* what one recv may bring: sequences of "data" and "option"
  CommandLists,   \* commands one data chunk may complete, in order
  MaxSegments,    \* bound: segments each peer sends before it hangs up
  Window          \* replies a peer's socket buffers before send blocks

ASSUME LimitAssumption  == FdLimit \in Nat \ {0}
ASSUME AddrAssumption   == NoAddr \notin Addrs
ASSUME TrafficAssumption ==
  /\ Segments \subseteq Seq({"data", "option"}) \ {<<>>}
  /\ CommandLists \subseteq Seq({"fetch", "exit"})
  /\ MaxSegments \in Nat
  /\ Window \in Nat \ {0}

\* Connections in the order they are accepted.  The program never closes a
\* descriptor, so a connection and its descriptor name each other.
Conns == 1 .. FdLimit
NoFd == 0

Main == <<"main", 0>>
Handler(c) == <<"handler", c>>
Listener(c) == <<"listener", c>>
NoThread == <<"none", 0>>
Threads == {Main} \cup {Handler(c) : c \in Conns} \cup {Listener(c) : c \in Conns}

VARIABLES
  proc,           \* "running", or how the process ended
  live,           \* globals not destroyed yet: "lock", "conns", "socks"
  lock,           \* connection_lock: the thread that holds it
  mpc, caddr,     \* main thread: where it is, the block it has allocated
  opened,         \* connections accepted so far
  hpc, lpc,       \* where each handler and each listener is
  addrOf,         \* the block a connection's threads were given
  heap,           \* sockaddr_in blocks allocated and not freed
  conns,          \* current_connections: key |-> connections whose bytes
                  \*   were appended to that client record, {} for no entry
  socks,          \* current_sockets: key |-> descriptor, NoFd for no entry
  shut,           \* descriptors shut down on our side
  closed,         \* connections whose peer has hung up
  budget,         \* segments each peer may still send
  unread,         \* replies sent and not yet read by the peer
  scan,           \* pieces of the received segment not yet dealt with
  todo,           \* commands of the parsed buffer not yet executed
  sigpipeIgnored  \* set by the first outgoing https connection

shared   == <<proc, live, lock>>
mainVars == <<mpc, caddr, opened>>
threads  == <<hpc, lpc, addrOf>>
tables   == <<heap, conns, socks>>
net      == <<shut, closed, budget, unread>>
local    == <<scan, todo, sigpipeIgnored>>
vars     == <<shared, mainVars, threads, tables, net, local>>

Running == proc = "running"

\* Descriptors in use: those of the connections are never closed, a fetch
\* holds one, and so does a call of accept that waits for a peer.
Fetching == {c \in Conns : hpc[c] = "fetch"}
Descriptors ==
  opened + Cardinality(Fetching) + (IF mpc = "waiting" THEN 1 ELSE 0)

Init ==
  /\ proc = "running" /\ live = {"lock", "conns", "socks"} /\ lock = NoThread
  /\ mpc = "alloc" /\ caddr = NoAddr /\ opened = 0
  /\ hpc = [c \in Conns |-> "none"] /\ lpc = [c \in Conns |-> "none"]
  /\ addrOf = [c \in Conns |-> NoAddr]
  /\ heap = {} /\ conns = [a \in Addrs |-> {}] /\ socks = [a \in Addrs |-> NoFd]
  /\ shut = {} /\ closed = {}
  /\ budget = [c \in Conns |-> MaxSegments] /\ unread = [c \in Conns |-> 0]
  /\ scan = [c \in Conns |-> <<>>] /\ todo = [c \in Conns |-> <<>>]
  /\ sigpipeIgnored = FALSE

-----------------------------------------------------------------------------
(* The process ends. *)

Stop(how) ==
  /\ proc' = how
  /\ UNCHANGED <<live, lock, mainVars, threads, tables, net, local>>

\* A step that reads or writes through a pointer, or uses a mutex or a
\* dictionary: when what it needs is gone the behaviour is undefined.
Using(ok, Step) ==
  \/ ok /\ Step
  \/ ~ok /\ Stop("undefined")

Take(t) == lock = NoThread /\ lock' = t

-----------------------------------------------------------------------------
(* Main thread: the accept loop of server_listen_and_serve, with           *)
(* client_cleanup called from it, and the end of launch_telnet_server.     *)

MainGoes(to) == mpc' = to

Alloc ==
  /\ Running /\ mpc = "alloc"
  /\ \E a \in Addrs \ heap : heap' = heap \cup {a} /\ caddr' = a
  /\ MainGoes("accept")
  /\ UNCHANGED <<shared, opened, threads, conns, socks, net, local>>

AllocFails ==
  /\ Running /\ mpc = "alloc"
  /\ MainGoes("destroyLock")
  /\ UNCHANGED <<shared, caddr, opened, threads, tables, net, local>>

CallAccept ==
  /\ Running /\ mpc = "accept" /\ Descriptors < FdLimit
  /\ MainGoes("waiting")
  /\ UNCHANGED <<shared, caddr, opened, threads, tables, net, local>>

Accept ==
  /\ Running /\ mpc = "waiting"
  /\ opened' = opened + 1
  /\ MainGoes("spawn")
  /\ UNCHANGED <<shared, caddr, threads, tables, net, local>>

\* accept fails: the block is freed and the loop is left.
LeaveLoop ==
  /\ heap' = heap \ {caddr} /\ caddr' = NoAddr
  /\ MainGoes("destroyLock")
  /\ UNCHANGED <<shared, opened, threads, conns, socks, net, local>>

AcceptFails == Running /\ mpc = "waiting" /\ LeaveLoop

\* Variant: the loop goes round again instead of being left.
AcceptFullRetries ==
  /\ Running /\ mpc = "accept" /\ Descriptors >= FdLimit
  /\ heap' = heap \ {caddr} /\ caddr' = NoAddr
  /\ MainGoes("alloc")
  /\ UNCHANGED <<shared, opened, threads, conns, socks, net, local>>

\* No descriptor is left: accept fails at once, without any peer.
AcceptFull == Running /\ mpc = "accept" /\ Descriptors >= FdLimit /\ LeaveLoop

\* cargs is filled in and the handler thread created.
Spawn ==
  /\ Running /\ mpc = "spawn"
  /\ hpc' = [hpc EXCEPT ![opened] = "start"]
  /\ addrOf' = [addrOf EXCEPT ![opened] = caddr]
  /\ MainGoes("register")
  /\ UNCHANGED <<shared, caddr, opened, lpc, tables, net, local>>

\* malloc of cargs fails (the block leaks), or pthread_create fails (it is
\* freed).  Neither shuts the accepted socket.
SpawnFails ==
  /\ Running /\ mpc = "spawn"
  /\ heap' \in {heap, heap \ {caddr}} /\ caddr' = NoAddr
  /\ MainGoes("destroyLock")
  /\ UNCHANGED <<shared, opened, threads, conns, socks, net, local>>

RegisterLock ==
  /\ Running /\ mpc = "register"
  /\ Take(Main)
  /\ MainGoes("put")
  /\ UNCHANGED <<proc, live, caddr, opened, threads, tables, net, local>>

\* Keys that are dereferenced when a dictionary is used with key a: the key
\* itself, and, when dict_put grows the table, every key stored in it.
KeysReadable(a, stored) == {a} \cup stored \subseteq heap
ConnKeys == {a \in Addrs : conns[a] # {}}
SockKeys == {a \in Addrs : socks[a] # NoFd}

\* Variant: the unlock is forgotten.
PutSocketKeepsLock ==
  /\ Running /\ mpc = "put"
  /\ socks' = [socks EXCEPT ![caddr] = opened]
  /\ MainGoes("listen")
  /\ UNCHANGED <<shared, caddr, opened, threads, heap, conns, net, local>>

PutSocket ==
  /\ Running /\ mpc = "put"
  /\ Using(KeysReadable(caddr, SockKeys),
       /\ socks' = [socks EXCEPT ![caddr] = opened]
       /\ lock' = NoThread
       /\ MainGoes("listen")
       /\ UNCHANGED <<proc, live, caddr, opened, threads, heap, conns, net, local>>)

\* The listener thread is created and the loop goes round.
Listen ==
  /\ Running /\ mpc = "listen"
  /\ lpc' = [lpc EXCEPT ![opened] = "join"]
  /\ caddr' = NoAddr
  /\ MainGoes("alloc")
  /\ UNCHANGED <<shared, opened, hpc, addrOf, tables, net, local>>

ListenFails == Running /\ mpc = "listen" /\ Stop("exit5")

\* pthread_mutex_destroy answers EBUSY and does nothing when the lock is held.
DestroyLock ==
  /\ Running /\ mpc = "destroyLock"
  /\ live' = IF lock = NoThread THEN live \ {"lock"} ELSE live
  /\ MainGoes("destroyConns")
  /\ UNCHANGED <<proc, lock, caddr, opened, threads, tables, net, local>>

DestroyConns ==
  /\ Running /\ mpc = "destroyConns"
  /\ live' = live \ {"conns"}
  /\ MainGoes("destroySocks")
  /\ UNCHANGED <<proc, lock, caddr, opened, threads, tables, net, local>>

DestroySocks ==
  /\ Running /\ mpc = "destroySocks"
  /\ live' = live \ {"socks"}
  /\ MainGoes("return")
  /\ UNCHANGED <<proc, lock, caddr, opened, threads, tables, net, local>>

\* main returns, which ends every thread.
Return == Running /\ mpc = "return" /\ Stop("exit0")

Teardown == {"destroyLock", "destroyConns", "destroySocks", "return"}

-----------------------------------------------------------------------------
(* Handler thread of connection c: connection_handler, and through it      *)
(* telnet_connection_handler, parse_client_buffer and the commands.        *)

HandlerGoes(c, to) == hpc' = [hpc EXCEPT ![c] = to]

\* The two buffers are allocated, or one is not and the thread ends at once.
Start(c) ==
  /\ Running /\ hpc[c] = "start"
  /\ \E to \in {"recv", "ended"} : HandlerGoes(c, to)
  /\ UNCHANGED <<shared, mainVars, lpc, addrOf, tables, net, local>>

\* The peer has sent a segment and recv returns it.  A hang-up or a shutdown
\* does not discard what was queued before it.
Recv(c) ==
  /\ Running /\ hpc[c] = "recv" /\ budget[c] > 0
  /\ budget' = [budget EXCEPT ![c] = @ - 1]
  /\ \E s \in Segments : scan' = [scan EXCEPT ![c] = s]
  /\ HandlerGoes(c, "scan")
  /\ UNCHANGED <<shared, mainVars, lpc, addrOf, tables, shut, closed, unread,
                 todo, sigpipeIgnored>>

\* recv returns 0 or an error.
RecvEnds(c) ==
  /\ Running /\ hpc[c] = "recv" /\ c \in shut \cup closed
  /\ HandlerGoes(c, "leave")
  /\ UNCHANGED <<shared, mainVars, lpc, addrOf, tables, net, local>>

\* The next piece of the segment, or recv again after the last.
PieceDone(c) ==
  /\ scan' = [scan EXCEPT ![c] = Tail(@)]
  /\ HandlerGoes(c, IF Len(scan[c]) = 1 THEN "recv" ELSE "scan")

\* send blocks while the peer's buffers are full, unless the socket is gone.
Sent(c) ==
  /\ c \notin shut /\ unread[c] < Window
  /\ unread' = [unread EXCEPT ![c] = @ + 1]
SendBroken(c) == c \in shut \cup closed

\* An IAC command is refused: every option handler of this program is NULL.
Refuse(c) ==
  /\ Running /\ hpc[c] = "scan" /\ Head(scan[c]) = "option"
  /\ Sent(c)
  /\ PieceDone(c)
  /\ UNCHANGED <<shared, mainVars, lpc, addrOf, tables, shut, closed, budget,
                 todo, sigpipeIgnored>>

\* The refusal cannot be sent, or the copy of a data chunk not be allocated:
\* the rest of the segment is dropped and the loop left.
GiveUp(c) ==
  /\ Running /\ hpc[c] = "scan"
  /\ \/ Head(scan[c]) = "option" /\ SendBroken(c)
     \/ Head(scan[c]) = "data"
  /\ scan' = [scan EXCEPT ![c] = <<>>]
  /\ HandlerGoes(c, "leave")
  /\ UNCHANGED <<shared, mainVars, lpc, addrOf, tables, net, todo, sigpipeIgnored>>

CopyFails(c) == GiveUp(c) /\ Head(scan[c]) = "data"

\* As long as nobody has set SIGPIPE to SIG_IGN a failing send kills.
Sending(c) ==
  \/ hpc[c] = "scan" /\ Head(scan[c]) = "option"
  \/ hpc[c] = "reply"
Killed(c) ==
  /\ Running /\ Sending(c) /\ SendBroken(c) /\ ~sigpipeIgnored
  /\ Stop("sigpipe")

\* Variant: another mutex is taken, so connection_lock excludes nobody.
DataLockOther(c) ==
  /\ Running /\ hpc[c] = "scan" /\ Head(scan[c]) = "data"
  /\ HandlerGoes(c, "append")
  /\ UNCHANGED <<shared, mainVars, lpc, addrOf, tables, net, local>>

\* telnet_connection_handler takes connection_lock.
DataLock(c) ==
  /\ Running /\ hpc[c] = "scan" /\ Head(scan[c]) = "data"
  /\ Using("lock" \in live,
       /\ Take(Handler(c))
       /\ HandlerGoes(c, "append")
       /\ UNCHANGED <<proc, live, mainVars, lpc, addrOf, tables, net, local>>)

\* The client record is found or made, the chunk appended, and the copy of
\* the buffer parsed into the commands it completes.
AppendData(c) ==
  /\ Running /\ hpc[c] = "append"
  /\ Using("conns" \in live /\ KeysReadable(addrOf[c], ConnKeys),
       /\ conns' = [conns EXCEPT ![addrOf[c]] = @ \cup {c}]
       /\ \E l \in CommandLists : todo' = [todo EXCEPT ![c] = l]
       /\ HandlerGoes(c, "exec")
       /\ UNCHANGED <<shared, mainVars, lpc, addrOf, heap, socks, net, scan,
                      sigpipeIgnored>>)

\* Variant: the https client leaves SIGPIPE alone.
OpenFetchNoSignal(c) ==
  /\ Running /\ hpc[c] = "exec" /\ todo[c] # <<>> /\ Head(todo[c]) = "fetch"
  /\ Descriptors < FdLimit
  /\ HandlerGoes(c, "fetch")
  /\ UNCHANGED <<shared, mainVars, lpc, addrOf, tables, net, local>>

\* search and info: an https connection is opened while the lock is held.
OpenFetch(c) ==
  /\ Running /\ hpc[c] = "exec" /\ todo[c] # <<>> /\ Head(todo[c]) = "fetch"
  /\ Descriptors < FdLimit
  /\ sigpipeIgnored' = TRUE
  /\ HandlerGoes(c, "fetch")
  /\ UNCHANGED <<shared, mainVars, lpc, addrOf, tables, net, scan, todo>>

\* scryfall.c ends the process when no descriptor is left or it cannot connect,
\* and when the answer is not 200: a card that does not exist is enough.
FetchFails(c) ==
  /\ Running
  /\ \/ hpc[c] = "exec" /\ todo[c] # <<>> /\ Head(todo[c]) = "fetch"
     \/ hpc[c] = "fetch"
  /\ Stop("exit2")

\* What the answer says is copied without a look at what it leaves out: a card
\* without a mana cost, or with two faces, reaches strlen and free as garbage.
CommandCrashes(c) ==
  /\ Running /\ hpc[c] \in {"fetch", "reply"}
  /\ Stop("sigsegv")

Fetched(c) ==
  /\ Running /\ hpc[c] = "fetch"
  /\ HandlerGoes(c, "reply")
  /\ UNCHANGED <<shared, mainVars, lpc, addrOf, tables, net, local>>

CommandDone(c) == todo' = [todo EXCEPT ![c] = Tail(@)]

\* Variant: connection_lock is taken for the reply as well.
ReplyLocks(c) ==
  /\ Running /\ hpc[c] = "reply"
  /\ lock = NoThread
  /\ \/ Sent(c)
     \/ SendBroken(c) /\ unread' = unread
  /\ CommandDone(c)
  /\ HandlerGoes(c, "exec")
  /\ UNCHANGED <<shared, mainVars, lpc, addrOf, tables, shut, closed, budget,
                 scan, sigpipeIgnored>>

\* comm_write_message: a failed send is only a warning.
Reply(c) ==
  /\ Running /\ hpc[c] = "reply"
  /\ \/ Sent(c)
     \/ SendBroken(c) /\ unread' = unread
  /\ CommandDone(c)
  /\ HandlerGoes(c, "exec")
  /\ UNCHANGED <<shared, mainVars, lpc, addrOf, tables, shut, closed, budget,
                 scan, sigpipeIgnored>>

\* command_shutdown; the remaining lines of the buffer are still executed.
Exit(c) ==
  /\ Running /\ hpc[c] = "exec" /\ todo[c] # <<>> /\ Head(todo[c]) = "exit"
  /\ shut' = shut \cup {c}
  /\ CommandDone(c)
  /\ UNCHANGED <<shared, mainVars, threads, tables, closed, budget, unread,
                 scan, sigpipeIgnored>>

\* Variant: a connection that was shut down returns without unlocking.
DataUnlockUnlessShut(c) ==
  /\ Running /\ hpc[c] = "exec" /\ todo[c] = <<>>
  /\ lock' = IF c \in shut THEN lock ELSE NoThread
  /\ PieceDone(c)
  /\ UNCHANGED <<proc, live, mainVars, lpc, addrOf, tables, net, todo,
                 sigpipeIgnored>>

\* client_pop_count and the unlock.
DataUnlock(c) ==
  /\ Running /\ hpc[c] = "exec" /\ todo[c] = <<>>
  /\ lock' = NoThread
  /\ PieceDone(c)
  /\ UNCHANGED <<proc, live, mainVars, lpc, addrOf, tables, net, todo,
                 sigpipeIgnored>>

\* Variant: the handler frees the block although a listener was asked for.
LeaveFreesBlock(c) ==
  /\ Running /\ hpc[c] = "leave"
  /\ shut' = shut \cup {c}
  /\ heap' = heap \ {addrOf[c]}
  /\ HandlerGoes(c, "ended")
  /\ UNCHANGED <<shared, mainVars, lpc, addrOf, conns, socks, closed, budget,
                 unread, local>>

\* EXIT_HANDLE: the socket is shut down, cargs freed, the thread ends.
Leave(c) ==
  /\ Running /\ hpc[c] = "leave"
  /\ shut' = shut \cup {c}
  /\ HandlerGoes(c, "ended")
  /\ UNCHANGED <<shared, mainVars, lpc, addrOf, tables, closed, budget, unread, local>>

-----------------------------------------------------------------------------
(* Disconnection listener of connection c.                                 *)

ListenerGoes(c, to) == lpc' = [lpc EXCEPT ![c] = to]

\* Variant: the handler is not joined.
ListenerLockEarly(c) ==
  /\ Running /\ lpc[c] = "join"
  /\ Using("lock" \in live /\ addrOf[c] \in heap,
       /\ Take(Listener(c))
       /\ ListenerGoes(c, "record")
       /\ UNCHANGED <<proc, live, mainVars, hpc, addrOf, tables, net, local>>)

\* The handler thread is joined, then connection_lock taken.
ListenerLock(c) ==
  /\ Running /\ lpc[c] = "join" /\ hpc[c] = "ended"
  /\ Using("lock" \in live /\ addrOf[c] \in heap,
       /\ Take(Listener(c))
       /\ ListenerGoes(c, "record")
       /\ UNCHANGED <<proc, live, mainVars, hpc, addrOf, tables, net, local>>)

\* Variant: the client record is looked up and not removed.
RemoveRecordNot(c) ==
  /\ Running /\ lpc[c] = "record"
  /\ ListenerGoes(c, "socket")
  /\ UNCHANGED <<shared, mainVars, hpc, addrOf, tables, net, local>>

RemoveRecord(c) ==
  /\ Running /\ lpc[c] = "record"
  /\ Using("conns" \in live /\ KeysReadable(addrOf[c], {}),
       /\ conns' = [conns EXCEPT ![addrOf[c]] = {}]
       /\ ListenerGoes(c, "socket")
       /\ UNCHANGED <<shared, mainVars, hpc, addrOf, heap, socks, net, local>>)

\* Variant: the descriptor is looked up and not removed.
RemoveSocketNot(c) ==
  /\ Running /\ lpc[c] = "socket"
  /\ shut' = shut \cup {c}
  /\ ListenerGoes(c, "free")
  /\ lock' = NoThread
  /\ UNCHANGED <<proc, live, mainVars, hpc, addrOf, tables, closed, budget,
                 unread, local>>

\* Variant: the entry points to the accept loop's variable, which holds the
\* latest descriptor by now.
RemoveSocketLatest(c) ==
  /\ Running /\ lpc[c] = "socket"
  /\ shut' = shut \cup {opened}
  /\ socks' = [socks EXCEPT ![addrOf[c]] = NoFd]
  /\ ListenerGoes(c, "free")
  /\ lock' = NoThread
  /\ UNCHANGED <<proc, live, mainVars, hpc, addrOf, heap, conns, closed,
                 budget, unread, local>>

\* Variant: an early return keeps the lock.
RemoveSocketKeepsLock(c) ==
  /\ Running /\ lpc[c] = "socket"
  /\ shut' = shut \cup {c}
  /\ socks' = [socks EXCEPT ![addrOf[c]] = NoFd]
  /\ ListenerGoes(c, "free")
  /\ UNCHANGED <<shared, mainVars, hpc, addrOf, heap, conns, closed, budget,
                 unread, local>>

\* *fdp is read before fdp is tested: an absent entry is a NULL dereference.
RemoveSocket(c) ==
  /\ Running /\ lpc[c] = "socket"
  /\ Using(/\ "socks" \in live /\ KeysReadable(addrOf[c], {})
           /\ socks[addrOf[c]] # NoFd,
       /\ shut' = shut \cup {socks[addrOf[c]]}
       /\ socks' = [socks EXCEPT ![addrOf[c]] = NoFd]
       /\ ListenerGoes(c, "free")
       /\ lock' = NoThread
       /\ UNCHANGED <<proc, live, mainVars, hpc, addrOf, heap, conns, closed,
                      budget, unread, local>>)

\* free of the block, a double free when it is not allocated.
FreeAddr(c) ==
  /\ Running /\ lpc[c] = "free"
  /\ Using(addrOf[c] \in heap,
       /\ heap' = heap \ {addrOf[c]}
       /\ ListenerGoes(c, "done")
       /\ UNCHANGED <<shared, mainVars, hpc, addrOf, conns, socks, net, local>>)

-----------------------------------------------------------------------------
(* The rest of the world. *)

PeerReads(c) ==
  /\ Running /\ unread[c] > 0
  /\ unread' = [unread EXCEPT ![c] = 0]
  /\ UNCHANGED <<shared, mainVars, threads, tables, shut, closed, budget, local>>

PeerCloses(c) ==
  /\ Running /\ c <= opened /\ c \notin closed
  /\ closed' = closed \cup {c}
  /\ UNCHANGED <<shared, mainVars, threads, tables, shut, budget, unread, local>>

\* handle_memory_error, wherever the program asks for memory through it.
OutOfMemory ==
  /\ Running
  /\ \/ mpc \in {"register", "put", "listen"}
     \/ \E c \in Conns : hpc[c] \in {"append", "fetch", "reply"}
     \/ \E c \in Conns : lpc[c] = "join" /\ hpc[c] = "ended"
  /\ Stop("exit1")

Over == ~Running /\ UNCHANGED vars

-----------------------------------------------------------------------------
MainStep ==
  \/ Alloc \/ AllocFails \/ CallAccept \/ AcceptFull \/ Spawn
  \/ RegisterLock \/ PutSocket \/ Listen
  \/ DestroyLock \/ DestroyConns \/ DestroySocks \/ Return
\* What needs a peer, or a resource to run out, and so need never happen.
MainChance == Accept \/ AcceptFails \/ SpawnFails \/ ListenFails

HandlerStep(c) ==
  \/ Start(c) \/ RecvEnds(c) \/ Refuse(c) \/ GiveUp(c) \/ Killed(c)
  \/ DataLock(c) \/ AppendData(c) \/ OpenFetch(c) \/ FetchFails(c)
  \/ CommandCrashes(c) \/ Fetched(c) \/ Reply(c) \/ Exit(c) \/ DataUnlock(c) \/ Leave(c)
ListenerStep(c) ==
  ListenerLock(c) \/ RemoveRecord(c) \/ RemoveSocket(c) \/ FreeAddr(c)
PeerStep(c) == Recv(c) \/ PeerReads(c) \/ PeerCloses(c)

Next ==
  \/ MainStep \/ MainChance \/ OutOfMemory
  \/ \E c \in Conns : HandlerStep(c) \/ ListenerStep(c) \/ PeerStep(c)
  \/ Over

Spec == Init /\ [][Next]_vars

\* The scheduler runs every thread that can run, and peers read what they
\* are sent.  No peer has to connect, send or hang up, and a handler that waits
\* for the lock cannot count on an allocation to fail instead.
Fairness ==
  /\ WF_vars(MainStep)
  /\ \A c \in Conns :
       /\ WF_vars(HandlerStep(c) /\ ~CopyFails(c)) /\ WF_vars(ListenerStep(c))
       /\ WF_vars(PeerReads(c))

FairSpec == Spec /\ Fairness

-----------------------------------------------------------------------------
(* Properties *)

MainStates == {"alloc", "accept", "waiting", "spawn", "register", "put", "listen"}
                \cup Teardown
HandlerStates == {"none", "start", "recv", "scan", "append", "exec", "fetch",
                  "reply", "leave", "ended"}
ListenerStates == {"none", "join", "record", "socket", "free", "done"}
Outcomes == {"running", "exit0", "exit1", "exit2", "exit5", "sigpipe", "sigsegv",
             "undefined"}

\* Every variable has its type.
TypeOK ==
  /\ proc \in Outcomes /\ live \subseteq {"lock", "conns", "socks"}
  /\ lock \in Threads \cup {NoThread}
  /\ mpc \in MainStates /\ caddr \in Addrs \cup {NoAddr} /\ opened \in 0 .. FdLimit
  /\ hpc \in [Conns -> HandlerStates] /\ lpc \in [Conns -> ListenerStates]
  /\ addrOf \in [Conns -> Addrs \cup {NoAddr}]
  /\ heap \subseteq Addrs
  /\ conns \in [Addrs -> SUBSET Conns] /\ socks \in [Addrs -> Conns \cup {NoFd}]
  /\ shut \subseteq Conns /\ closed \subseteq Conns
  /\ budget \in [Conns -> 0 .. MaxSegments] /\ unread \in [Conns -> 0 .. Window]
  /\ scan \in [Conns -> Seq({"data", "option"})]
  /\ todo \in [Conns -> Seq({"fetch", "exit"})]
  /\ sigpipeIgnored \in BOOLEAN

\* As long as the accept loop runs, no thread touches a freed block, a missing
\* descriptor entry or a destroyed lock or table, whatever the order in which the
\* handler, the listener and the accepting thread of a connection run
\* (celnet.c 252-259, telnet.c 119-171).
MemorySafeUntilTeardown == proc = "undefined" => mpc \in Teardown

\* The client record under key a is c's and nobody else's.
OwnsRecord(c, a) ==
  /\ conns[a] = {c} /\ addrOf[c] = a /\ a \in heap
  /\ lpc[c] \notin {"socket", "free", "done"}
\* A client record holds bytes of one connection only, the one that owns the
\* block it is keyed by and has not been cleaned up, although blocks and so
\* keys are reused (telnet.c 94-110 and 128-138).
RecordHasOneOwner ==
  \A a \in Addrs : conns[a] # {} => \E c \in Conns : OwnsRecord(c, a)

\* c has been registered under key a, and its listener has not removed it.
RegisteredAs(c, a) ==
  /\ addrOf[c] = a
  /\ \/ lpc[c] \in {"join", "record", "socket"}
     \/ mpc = "listen" /\ c = opened

\* current_sockets lists exactly the connections that have been registered and
\* whose listener has not removed them, each under its own block: a sweep of
\* the table (telnet.c 200-203) reaches each of them and no other.
SocketsAreRegistered ==
  \A a \in Addrs, c \in Conns : socks[a] = c <=> RegisteredAs(c, a)

\* connection_lock is held by the one thread that is between its lock and
\* unlock calls, and by nobody else: no two threads are in the tables at once
\* (short of the teardown, which does not lock), and no path, the early ones
\* included, ends with the lock kept (telnet.c 95-109, 127-136, 153-155).
LockHeldByWorker ==
  /\ lock = Main <=> mpc = "put"
  /\ \A c \in Conns :
       /\ lock = Handler(c) <=> hpc[c] \in {"append", "exec", "fetch", "reply"}
       /\ lock = Listener(c) <=> lpc[c] \in {"record", "socket"}

\* Whoever holds connection_lock can go on, to its unlock or to the end of the
\* process, without waiting for another thread: neither does it wait for a second
\* lock, nor in client_cleanup for the thread it has yet to create.  What stops it,
\* and with it every thread that wants the lock, is a peer alone, one that is still
\* connected and has not read the replies it was sent (comm.c 10, telnet.c 95-109).
HolderGoesOn(c) ==
  ENABLED (\/ AppendData(c) \/ OpenFetch(c) \/ FetchFails(c) \/ Fetched(c)
           \/ Reply(c) \/ Exit(c) \/ DataUnlock(c))
PeerStops(c) == hpc[c] = "reply" /\ unread[c] = Window /\ c \notin shut \cup closed
HolderIsStoppedByPeerOnly ==
  Running =>
    /\ lock = Main => ENABLED PutSocket
    /\ \A c \in Conns :
         /\ lock = Handler(c) => HolderGoesOn(c) \/ PeerStops(c)
         /\ lock = Listener(c) => ENABLED ListenerStep(c)

\* comm_write_message never kills the process: when a thread has a reply to
\* send, an https connection has been made and SIGPIPE is ignored (https.c
\* 460).  Only the refusal of an option may kill (celnet.c 131, 155, 180).
ReplyNeverKills ==
  [][proc' = "sigpipe" => \A c \in Conns : hpc[c] # "reply"]_vars

\* A socket is shut down by the threads of its own connection and by no other.
ShutByOwnThreads ==
  [][\A c \in shut' \ shut :
       \/ hpc[c] \in {"exec", "leave"}
       \/ lpc[c] = "socket" /\ lpc'[c] = "free"]_vars

\* When a peer has hung up, or a socket is shut down, or a handler thread has
\* ended, both entries of the connection are removed and its block is freed,
\* unless the process ends first.
GoneIsCleanedUp ==
  \A c \in Conns :
    c \in shut \cup closed \/ hpc[c] = "ended" ~> lpc[c] = "done" \/ ~Running

\* What was received is handled to the end: no thread keeps connection_lock,
\* and none waits for it for ever.
DataIsHandled ==
  \A c \in Conns : hpc[c] = "scan" ~> hpc[c] \in {"recv", "leave", "ended"} \/ ~Running

\* The accept loop comes back from registering a connection.
AcceptsAgain == mpc = "register" ~> mpc \in {"accept", "waiting"} \cup Teardown \/ ~Running

\* Descriptors are shut down and never closed: when as many connections have
\* been accepted as there are descriptors, the server ends, even if every one
\* of them is long gone (celnet.c 203 and 237-242).
LeakEndsServer == mpc = "accept" /\ opened = FdLimit ~> ~Running

\* What a handler has left of a segment: pieces, with the first of them the way to
\* the record, commands, and with the first of them the way to its reply.
AtWork(c) == hpc[c] \in {"scan", "append", "exec", "fetch", "reply"}
Effort(c) ==
  <<Len(scan[c]),
    CASE hpc[c] = "scan" -> 2 [] hpc[c] = "append" -> 1 [] OTHER -> 0,
    Len(todo[c]),
    CASE hpc[c] = "exec" -> 2 [] hpc[c] = "fetch" -> 1 [] OTHER -> 0>>

\* Each step of a handler leaves it less to do of its segment, and no other thread,
\* whoever has the lock, adds to it: a handler that can run gets through its
\* segment, commands and all (celnet.c 109-186, telnet.c 94-110).
WorkRunsOut ==
  [][\A c \in Conns : AtWork(c) =>
       IF HandlerStep(c) /\ Running' THEN Below(Effort(c)', Effort(c))
       ELSE Effort(c)' = Effort(c)]_vars

-----------------------------------------------------------------------------
(* The inductive invariant of the safety properties above. *)

\* c's block is its own: its threads have it and have not freed it.
Owns(c) == hpc[c] # "none" /\ lpc[c] # "done"

\* A connection's threads start in order and the listener waits for the handler.
ThreadsInOrder ==
  \A c \in Conns :
    /\ hpc[c] = "none" => addrOf[c] = NoAddr /\ lpc[c] = "none"
    /\ hpc[c] # "none" => addrOf[c] \in Addrs /\ c <= opened
    /\ lpc[c] \notin {"none", "join"} => hpc[c] = "ended"

\* Where the accept loop is with the connection it is setting up.
AcceptInOrder ==
  /\ mpc = "waiting" => opened < FdLimit
  /\ mpc = "spawn" => opened \in Conns /\ hpc[opened] = "none"
  /\ mpc \in {"register", "put", "listen"} =>
       /\ opened \in Conns /\ Owns(opened)
       /\ addrOf[opened] = caddr /\ lpc[opened] = "none"

\* Owned blocks are allocated and have one owner; the accept loop's is not
\* owned until the handler is created.
BlocksAreOwned ==
  /\ \A c \in Conns : Owns(c) => addrOf[c] \in heap
  /\ \A c, d \in Conns : Owns(c) /\ Owns(d) /\ addrOf[c] = addrOf[d] => c = d
  /\ mpc \in {"accept", "waiting", "spawn"} =>
       caddr \in heap /\ \A c \in Conns : Owns(c) => addrOf[c] # caddr

\* Nothing is destroyed while the accept loop runs.
AllLive == mpc \notin Teardown => live = {"lock", "conns", "socks"}

\* A handler at work has a piece, and a command that is being executed is
\* still the first of the list; replies come after an https connection.
WorkInHand ==
  \A c \in Conns :
    /\ hpc[c] \in {"scan", "append", "exec", "fetch", "reply"} => scan[c] # <<>>
    /\ hpc[c] \in {"fetch", "reply"} => todo[c] # <<>> /\ sigpipeIgnored

Consistent ==
  /\ ThreadsInOrder /\ AcceptInOrder /\ BlocksAreOwned /\ AllLive /\ WorkInHand
  /\ LockHeldByWorker /\ RecordHasOneOwner /\ SocketsAreRegistered
  /\ MemorySafeUntilTeardown

IInv == TypeOK /\ Consistent

-----------------------------------------------------------------------------
(* What the tables promise: SessionRegistry, a session being a connection. *)

StageOf(c) ==
  CASE hpc[c] = "none" -> "unborn"
    [] lpc[c] \in {"free", "done"} -> "gone"
    [] hpc[c] = "ended" /\ lpc[c] \notin {"free", "done"} -> "left"
    [] OTHER -> "open"
Stage == [c \in Conns |-> StageOf(c)]
Buffered == {c \in Conns : \E a \in Addrs : c \in conns[a]}
Registered == {c \in Conns : \E a \in Addrs : socks[a] = c}

Abstract == INSTANCE SessionRegistry WITH
  Sessions <- Conns, stage <- Stage, buffered <- Buffered,
  registered <- Registered, serving <- Running

\* Seen as sessions with entries of their own, the two tables keyed by
\* recyclable pointers behave as SessionRegistry says: an entry is made by its
\* session, removed once, after the handler has ended, and the record before
\* the descriptor (telnet.c 94-171).
Implements == Abstract!Spec
=============================================================================

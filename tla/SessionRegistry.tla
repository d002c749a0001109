-------------------------- MODULE SessionRegistry --------------------------
(***************************************************************************)
(* What the two tables of src/io/telnet.c promise, with nothing left of    *)
(* how they are kept.  A session is one accepted connection.  It may have  *)
(* an entry in current_connections (its client record with the bytes it    *)
(* sent) and an entry in current_sockets (its descriptor).                 *)
(*                                                                         *)
(* The program keys both tables by the address of a heap block that is     *)
(* freed and reused; here the entries belong to the session itself.  That  *)
(* TelnetServer implements this module is the claim that reuse of a block  *)
(* never shows: a session's entries are made by that session, removed once *)
(* when it has left, and no other session can see or remove them.          *)
(***************************************************************************)
EXTENDS FiniteSets

CONSTANT Sessions    \* every session the server may ever accept

VARIABLES
  stage,             \* stage[s]: how far the life of session s has come
  buffered,          \* sessions with an entry in current_connections
  registered,        \* sessions with an entry in current_sockets
  serving            \* FALSE once the process is over

vars == <<stage, buffered, registered, serving>>

Stages == {"unborn", "open", "left", "gone"}

Init ==
  /\ stage = [s \in Sessions |-> "unborn"]
  /\ buffered = {}
  /\ registered = {}
  /\ serving = TRUE

\* A connection is accepted and its handler thread runs.
Open(s) ==
  /\ serving /\ stage[s] = "unborn"
  /\ stage' = [stage EXCEPT ![s] = "open"]
  /\ UNCHANGED <<buffered, registered, serving>>

\* The accepting thread records the descriptor.  The session may have left
\* already, its listener cannot have run yet.
Register(s) ==
  /\ serving /\ stage[s] \in {"open", "left"} /\ s \notin registered
  /\ registered' = registered \cup {s}
  /\ UNCHANGED <<stage, buffered, serving>>

\* The session's handler appends what it received to its own record.
Feed(s) ==
  /\ serving /\ stage[s] = "open"
  /\ buffered' = buffered \cup {s}
  /\ UNCHANGED <<stage, registered, serving>>

\* The session's handler thread ends.
Leave(s) ==
  /\ serving /\ stage[s] = "open"
  /\ stage' = [stage EXCEPT ![s] = "left"]
  /\ UNCHANGED <<buffered, registered, serving>>

\* Its record is dropped, if it ever sent anything.
DropRecord(s) ==
  /\ serving /\ stage[s] = "left" /\ s \in registered
  /\ buffered' = buffered \ {s}
  /\ UNCHANGED <<stage, registered, serving>>

\* Its descriptor is dropped, after the record: nothing is left of it.
DropSocket(s) ==
  /\ serving /\ stage[s] = "left" /\ s \in registered /\ s \notin buffered
  /\ registered' = registered \ {s}
  /\ stage' = [stage EXCEPT ![s] = "gone"]
  /\ UNCHANGED <<buffered, serving>>

\* The process ends, whatever the reason.
Halt ==
  /\ serving
  /\ serving' = FALSE
  /\ UNCHANGED <<stage, buffered, registered>>

Next ==
  \/ \E s \in Sessions :
       \/ Open(s) \/ Register(s) \/ Feed(s) \/ Leave(s)
       \/ DropRecord(s) \/ DropSocket(s)
  \/ Halt

Spec == Init /\ [][Next]_vars
=============================================================================

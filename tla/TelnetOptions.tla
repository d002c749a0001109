---------------------------- MODULE TelnetOptions ----------------------------
(***************************************************************************)
(* How connection_handler (src/io/celnet.c) takes the telnet commands out  *)
(* of what a peer sends: each recv fills the receiving buffer from its     *)
(* start, a loop looks for IAC bytes, answers the command behind each, and *)
(* gives the bytes around the commands to the telnet layer.                *)
(*                                                                         *)
(* Nothing in the program puts a handler into option_handlers, so every    *)
(* option is refused, and pbuffer, which is filled on a handler's demand   *)
(* only, stays empty: start_offset is always 0.                            *)
(***************************************************************************)
EXTENDS Naturals, Sequences, SequencesExt, Subsequence

CONSTANTS
  Plain,        \* bytes that are not one of "iac", "will" and "do"
  BufferSize,   \* cargs->buffer_size: 1024
  MaxReceived,  \* bound: bytes of the whole connection
  MaxSplit      \* bound: the same, if a segment ended inside a command

ASSUME BufferAssumption ==
  BufferSize \in Nat \ {0} /\ MaxReceived \in Nat /\ MaxSplit \in Nat

Bytes == Plain \cup {"iac", "will", "do"}

ASSUME UnsetAssumption == "unset" \notin Bytes

VARIABLES
  pc,         \* "recv"; "scan" while a segment is gone through, "refuse"
              \*   within it before a command is answered; "left" at the end
  rbuffer,    \* the receiving buffer; "unset" where malloc left it
  rbuff,      \* bytes of it the last recv filled
  ri, last,   \* ri and last_start of the loop, counted from 0
  data,       \* what the telnet layer has been given
  sent,       \* refusals: what was sent after the IAC
  received,   \* history: every byte received
  whole       \* history: no segment ended inside a command

vars == <<pc, rbuffer, rbuff, ri, last, data, sent, received, whole>>

Init ==
  /\ pc = "recv" /\ rbuffer = [i \in 0 .. BufferSize - 1 |-> "unset"]
  /\ rbuff = 0 /\ ri = 0 /\ last = 0
  /\ data = <<>> /\ sent = <<>> /\ received = <<>> /\ whole = TRUE

-----------------------------------------------------------------------------
(* A stream of bytes as a whole: an IAC makes the two bytes behind it part of *)
(* a command.  Kind says for each byte how many bytes of a command, itself    *)
(* included, are still to come: 0 for data, 3 for an IAC.                     *)

Kind(s) ==
  LET kind[i \in 0 .. Len(s)] ==
        IF i = 0 THEN 0
        ELSE LET before == kind[i - 1]
             IN  IF before > 1 THEN before - 1 ELSE IF s[i] = "iac" THEN 3 ELSE 0
  IN  kind
EndsInCommand(s) == Kind(s)[Len(s)] > 1

\* s at the positions whose kind is k.
OfKind(s, k) == LET kind == Kind(s) IN Picked(s, {i \in DOMAIN s : kind[i] = k})

-----------------------------------------------------------------------------

\* Lengths the next segment may have within the bounds.
Lengths == {n \in 1 .. BufferSize :
              Len(received) + n <= IF whole THEN MaxReceived ELSE MaxSplit}

\* Variant: last_start is not set for the new segment.
RecvKeepsLast(segment) ==
  /\ pc = "recv" /\ Len(segment) \in Lengths
  /\ rbuffer' = [i \in DOMAIN rbuffer |->
                   IF i < Len(segment) THEN segment[i + 1] ELSE rbuffer[i]]
  /\ rbuff' = Len(segment) /\ ri' = 0 /\ last' = last
  /\ received' = received \o segment
  /\ whole' = (whole /\ ~EndsInCommand(received'))
  /\ pc' = "scan"
  /\ UNCHANGED <<data, sent>>

Recv(segment) ==
  /\ pc = "recv" /\ Len(segment) \in Lengths
  /\ rbuffer' = [i \in DOMAIN rbuffer |->
                   IF i < Len(segment) THEN segment[i + 1] ELSE rbuffer[i]]
  /\ rbuff' = Len(segment) /\ ri' = 0 /\ last' = 0
  /\ received' = received \o segment
  /\ whole' = (whole /\ ~EndsInCommand(received'))
  /\ pc' = "scan"
  /\ UNCHANGED <<data, sent>>

\* What reading rbuffer[i] gives.  The code does not look whether i is below
\* rbuff: behind it are bytes of an earlier segment, bytes malloc left there,
\* or, past the block, whatever is next to it.
Read(i) ==
  IF i \in DOMAIN rbuffer /\ rbuffer[i] # "unset" THEN {rbuffer[i]} ELSE Bytes

\* rbuffer from last_start up to, and not including, end.
DataUpTo(end) == [i \in 1 .. end - last |-> rbuffer[last + i - 1]]
Given(end) == IF last < end THEN data \o DataUpTo(end) ELSE data

\* Variant: data in front of a command waits for the end of the segment.
KeepInFront ==
  /\ pc = "scan" /\ ri < rbuff /\ rbuffer[ri] = "iac"
  /\ pc' = "refuse"
  /\ UNCHANGED <<rbuffer, rbuff, ri, last, data, sent, received, whole>>

\* An IAC: the data in front of it is handed over first.
GiveInFront ==
  /\ pc = "scan" /\ ri < rbuff /\ rbuffer[ri] = "iac"
  /\ data' = Given(ri)
  /\ pc' = "refuse"
  /\ UNCHANGED <<rbuffer, rbuff, ri, last, sent, received, whole>>

\* What a command, and the option that may follow it, is answered.
Refusal(command, option) ==
  CASE command = "will" -> <<"wont", option>>
    [] command = "do" -> <<"dont", option>>
    [] OTHER -> <<"dont", command>>

\* Variant: the option byte of a command is not skipped.
RefuseTwo ==
  /\ pc = "refuse"
  /\ \E c \in Read(ri + 1), o \in Read(ri + 2) : sent' = Append(sent, Refusal(c, o))
  /\ ri' = ri + 2 /\ last' = ri + 2
  /\ pc' = "scan"
  /\ UNCHANGED <<rbuffer, rbuff, data, received, whole>>

Refuse ==
  /\ pc = "refuse"
  /\ \E c \in Read(ri + 1), o \in Read(ri + 2) : sent' = Append(sent, Refusal(c, o))
  /\ ri' = ri + 3 /\ last' = ri + 3
  /\ pc' = "scan"
  /\ UNCHANGED <<rbuffer, rbuff, data, received, whole>>

\* The send of a refusal or the next recv fails, or the peer has hung up: the
\* loop is left, with what it had not looked at.
Leave ==
  /\ pc \in {"recv", "refuse"}
  /\ pc' = "left"
  /\ UNCHANGED <<rbuffer, rbuff, ri, last, data, sent, received, whole>>

PlainByte ==
  /\ pc = "scan" /\ ri < rbuff /\ rbuffer[ri] # "iac"
  /\ ri' = ri + 1
  /\ UNCHANGED <<pc, rbuffer, rbuff, last, data, sent, received, whole>>

EndOfSegment ==
  /\ pc = "scan" /\ ri >= rbuff
  /\ data' = Given(rbuff)
  /\ pc' = "recv"
  /\ UNCHANGED <<rbuffer, rbuff, ri, last, sent, received, whole>>

\* A peer may stop sending at any time, and nothing follows the end.
Over == pc \in {"recv", "left"} /\ UNCHANGED vars

Next ==
  \/ \E n \in Lengths : \E segment \in [1 .. n -> Bytes] : Recv(segment)
  \/ GiveInFront \/ Refuse \/ PlainByte \/ EndOfSegment \/ Leave \/ Over

Spec == Init /\ [][Next]_vars

-----------------------------------------------------------------------------
(* Properties *)

\* Each position of the loop is in the segment, or behind a command that began
\* in it; the telnet layer is given bytes that were received and no others
\* (celnet.c 107-196).
TypeOK ==
  /\ pc \in {"recv", "scan", "refuse", "left"} /\ rbuff \in 0 .. BufferSize
  /\ rbuffer \in [0 .. BufferSize - 1 -> Bytes \cup {"unset"}]
  /\ ri \in 0 .. rbuff + 2 /\ last \in 0 .. ri
  /\ data \in Seq(Bytes) /\ whole \in BOOLEAN

\* What lies in front of the end of the segment is of this segment, so that
\* nothing malloc or an earlier segment left behind is ever handed over.
Filled == \A i \in 0 .. rbuff - 1 : rbuffer[i] \in Bytes
AtCommand == pc = "refuse" => ri < rbuff
IInv == TypeOK /\ Filled /\ AtCommand

\* As long as no segment ends inside a command, the telnet layer is given
\* exactly the bytes that are not part of one, in order, wherever segments end
\* otherwise (celnet.c 107-196).
DataIsStripped == pc = "recv" /\ whole => data = OfKind(received, 0)

\* And every command is answered once, in order, by a refusal of what it says;
\* no byte of the buffer's past gets into an answer (celnet.c 120-185).
Refusals(s) ==
  LET commands == OfKind(s, 2)
      options == OfKind(s, 1)
  IN  [i \in DOMAIN commands |-> Refusal(commands[i], options[i])]
CommandsAreRefused == pc = "recv" /\ whole => sent = Refusals(received)

\* Why: as long as no segment ends inside a command, the loop has dealt with a
\* beginning of what was received that ends outside a command too, with all of it
\* before a recv, with all in front of last_start or of the command at hand before.
DealtWith(n) ==
  LET p == SubSeq(received, 1, n)
  IN  /\ n \in 0 .. Len(received) /\ ~EndsInCommand(p)
      /\ data = OfKind(p, 0) /\ sent = Refusals(p)
      /\ Len(OfKind(p, 1)) = Len(OfKind(p, 2))
Before == Len(received) - rbuff
SegmentIsRead == \A i \in 0 .. rbuff - 1 : rbuffer[i] = received[Before + i + 1]
Accounted ==
  whole =>
    /\ pc = "recv" => DealtWith(Len(received))
    /\ pc = "scan" =>
         /\ DealtWith(Before + last) /\ ri <= rbuff
         /\ \A i \in last .. ri - 1 : rbuffer[i] # "iac"
    /\ pc = "refuse" => DealtWith(Before + ri) /\ rbuffer[ri] = "iac"
    /\ pc \in {"scan", "refuse"} => SegmentIsRead /\ ~EndsInCommand(received)
AccountInv == IInv /\ Accounted /\ received \in Seq(Bytes) /\ rbuff <= Len(received)
=============================================================================

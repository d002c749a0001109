----------------------------- MODULE LineServer -----------------------------
(***************************************************************************)
(* What a connection promises its peer, with nothing left of segments,     *)
(* buffers and parsers: it does what it is asked, each thing once, in the  *)
(* order of asking, nothing it was not asked, and all of it before it      *)
(* waits for more.  It may leave at any time.  To a peer that does not     *)
(* keep to the rules nothing is promised any more.                         *)
(***************************************************************************)
EXTENDS Naturals, SequencesExt

VARIABLES
  asked,    \* commands and telnet options the peer has asked for so far
  done,     \* what has been executed or refused
  stage,    \* "waiting" for the peer, "serving" it, or "left"
  orderly   \* FALSE once the peer has broken the rules

vars == <<asked, done, stage, orderly>>

Init == asked = <<>> /\ done = <<>> /\ stage = "waiting" /\ orderly = TRUE

\* The peer sends something, which may ask for anything or nothing.
Ask ==
  /\ stage = "waiting" /\ stage' = "serving"
  /\ IsPrefix(asked, asked')
  /\ UNCHANGED <<done, orderly>>

\* The next thing that was asked for and not done is done.
Serve ==
  /\ stage = "serving" /\ Len(done) < Len(asked)
  /\ done' = Append(done, asked[Len(done) + 1])
  /\ UNCHANGED <<asked, stage, orderly>>

Wait ==
  /\ stage = "serving" /\ done = asked
  /\ stage' = "waiting"
  /\ UNCHANGED <<asked, done, orderly>>

Leave ==
  /\ stage # "left" /\ stage' = "left"
  /\ UNCHANGED <<asked, done, orderly>>

Next == IF orderly' THEN orderly /\ (Ask \/ Serve \/ Wait \/ Leave) ELSE TRUE

Spec == Init /\ [][Next]_vars
=============================================================================

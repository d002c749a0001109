----------------------------- MODULE CardCommand -----------------------------
(***************************************************************************)
(* The commands search and info (src/commands/commands.c) from the words   *)
(* of the peer to the text it is sent: the service is asked (CardAddress), *)
(* and of what it answers a text is made (CardText).                       *)
(***************************************************************************)
EXTENDS CardText, CardAddress

commandVars == <<vars, addressVars>>

CommandInit == AddressInit /\ Init /\ command = verb

CommandNext ==
  \/ stage # "answered" /\ AddressNext /\ UNCHANGED vars
  \/ stage = "answered" /\ Next /\ UNCHANGED addressVars

CommandSpec == CommandInit /\ [][CommandNext]_commandVars
=============================================================================

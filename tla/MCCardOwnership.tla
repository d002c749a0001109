--------------------------- MODULE MCCardOwnership ---------------------------
(***************************************************************************)
(* Small instances of CardOwnership for TLC.                               *)
(***************************************************************************)
EXTENDS CardOwnership
=============================================================================

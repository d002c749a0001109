------------------------------ MODULE MCStartUp ------------------------------
(***************************************************************************)
(* Small instances of StartUp for TLC.                                     *)
(***************************************************************************)
EXTENDS StartUp

FourTables == <<"cards", "players", "deck_names", "decks">>
ThreeCommands == {"search", "info", "exit"}
TwoRows == {[username |-> "iggy12345", password |-> p] : p \in {"old", "new"}}
=============================================================================

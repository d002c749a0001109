--------------------------- MODULE MCTelnetServer ---------------------------
(***************************************************************************)
(* Small instances of TelnetServer for TLC.                                *)
(***************************************************************************)
EXTENDS TelnetServer, TLC

\* For three connections: one chunk, with or without a whole command.
DataOnly == {<<"data">>}
OneCommand == {<<>>, <<"fetch">>}

\* For two: two chunks around an option command, each with a command that fetches,
\* at the first of which or before which the connection may be shut down; or an option
\* command before anything was fetched.
DataTwice == {<<"data", "option", "data">>, <<"option">>}
Fetches == {<<"fetch">>, <<"exit", "fetch">>}

AddrSymmetry == Permutations(Addrs)
=============================================================================

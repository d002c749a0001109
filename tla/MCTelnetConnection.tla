-------------------------- MODULE MCTelnetConnection --------------------------
(***************************************************************************)
(* Small instances of TelnetConnection for TLC.                            *)
(***************************************************************************)
EXTENDS TelnetConnection

CONSTANT MaxWords  \* bound: words of a stream

Letters == {"c", "a", "sp", "lf", "nul"}
Command == {<<"c">>}

\* Of such words, up to MaxWords make a stream.
Words == {<<"c", "lf">>, <<"c", "sp", "a">>, <<"lf">>, <<"a", "nul">>,
          <<"iac", "will", "iac">>, <<"iac", "do", "c">>, <<"iac", "iac", "do">>}
Sentences ==
  {FlattenSeq(s) : s \in UNION {[1 .. n -> Words] : n \in 0 .. MaxWords}}
=============================================================================

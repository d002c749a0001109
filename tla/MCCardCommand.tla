---------------------------- MODULE MCCardCommand ----------------------------
(***************************************************************************)
(* Small instances of CardCommand for TLC.                                 *)
(***************************************************************************)
EXTENDS CardCommand

\* What the templates need, one byte more, and the NUL.
SmallBytes ==
  {"cr", "lf", "tab", " ", ":", "/", "(", ")", "digit", "0", "N", "O", "E", "x", "nul"}

\* The empty string, and one with line feeds at both ends.
TwoValues == {<<>>, <<"lf", "x", "lf">>}

\* Three bytes that stand for themselves, two of which are digits of the others;
\* the space; and the slash and the plus, which are escaped as %2F and %2B.
SafeBytes == {"2", "F", "B"}
TypedBytes == SafeBytes \cup {" ", "/", "+"}
HexDigits == "/" :> <<"2", "F">> @@ "+" :> <<"2", "B">>
UpToThree == SeqOf(TypedBytes, 3)
=============================================================================

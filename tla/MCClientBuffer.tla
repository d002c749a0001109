--------------------------- MODULE MCClientBuffer ---------------------------
(***************************************************************************)
(* Small instances of ClientBuffer for TLC.                                *)
(***************************************************************************)
EXTENDS ClientBuffer

ASSUME LineAssumption == NamesAreWords /\ SizesAreNumbers

\* One command's name begins another's.
ShortNames == {<<"c">>, <<"c", "a">>}

AllBytes == {"c", "a", "sp", "lf", "nul"}
=============================================================================

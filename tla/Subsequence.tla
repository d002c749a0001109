---------------------------- MODULE Subsequence ----------------------------
(***************************************************************************)
(* Parts of a sequence that need not be connected.  SelectSeq, which takes *)
(* a test, is built into the provers and has no definition they could      *)
(* expand; this one takes the positions and has.                           *)
(***************************************************************************)
EXTENDS Naturals, Sequences

\* The elements of s at the positions in P, in their order.
Picked(s, P) ==
  LET picked[i \in 0 .. Len(s)] ==
        IF i = 0 THEN <<>>
        ELSE IF i \in P THEN Append(picked[i - 1], s[i]) ELSE picked[i - 1]
  IN  picked[Len(s)]
============================================================================

------------------------------ MODULE Progress ------------------------------
(***************************************************************************)
(* The order in which work gets less: by the first of several numbers that *)
(* differ.  Nothing goes down in it for ever.                              *)
(***************************************************************************)
EXTENDS Naturals, Sequences

Below(s, t) ==
  \E i \in 1 .. Len(s) : s[i] < t[i] /\ \A j \in 1 .. i - 1 : s[j] = t[j]
=============================================================================

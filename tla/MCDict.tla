------------------------------- MODULE MCDict -------------------------------
(***************************************************************************)
(* Small instances of Dict for TLC.                                        *)
(***************************************************************************)
EXTENDS Dict

\* Neighbours always collide, others with some numbers of bins only.
Halved == [k \in Keys |-> 3 * (k \div 2)]
=============================================================================

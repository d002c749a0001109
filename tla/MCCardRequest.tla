--------------------------- MODULE MCCardRequest ---------------------------
(***************************************************************************)
(* Small instances of CardRequest for TLC.                                 *)
(***************************************************************************)
EXTENDS CardRequest

\* The bytes from i to j of a body.
Chunk(i, j) == [k \in 1 .. j - i + 1 |-> Sym("data", i + k - 1)]

Some(status, coded, close, chunks) ==
  [status |-> status, coded |-> coded, close |-> close, chunks |-> chunks, untold |-> <<>>]

\* Bodies of up to six bytes, whole or in chunks; the buffer starts with four.
SomeAnswers ==
  { Some(200, coded, FALSE, chunks) : coded \in {"length", "chunked"},
      chunks \in { <<>>, <<Chunk(1, 2)>>, <<Chunk(1, 1), Chunk(2, 3)>>, <<Chunk(1, 4)>>,
                   <<Chunk(1, 2), Chunk(3, 5)>>, <<Chunk(1, 6)>> } }
    \cup { Some(200, coded, TRUE, <<Chunk(1, 2), Chunk(3, 5)>>) : coded \in {"length", "chunked"} }
    \cup { Some(404, "length", TRUE, <<Chunk(1, 1)>>), Some(204, "none", FALSE, <<>>),
           [Some(200, "none", TRUE, <<>>) EXCEPT !.untold = Chunk(1, 2)] }
=============================================================================

----------------------------- MODULE KeyValueMap -----------------------------
(***************************************************************************)
(* What src/utils/dict.h promises of a dictionary: a value, or none, for   *)
(* each key; dict_put and dict_remove change it for one key and no other,  *)
(* and dict_remove says what the value was.                                *)
(***************************************************************************)
CONSTANTS Keys, Values, NoValue   \* NoValue is NULL

VARIABLES map, answer             \* answer: what the last call returned

Init == map = [k \in Keys |-> NoValue] /\ answer = NoValue

Put(k, v) == map' = [map EXCEPT ![k] = v] /\ answer' = NoValue

Remove(k) == map' = [map EXCEPT ![k] = NoValue] /\ answer' = map[k]

Next == \E k \in Keys : Remove(k) \/ \E v \in Values : Put(k, v)

Spec == Init /\ [][Next]_<<map, answer>>
=============================================================================

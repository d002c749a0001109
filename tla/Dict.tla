-------------------------------- MODULE Dict --------------------------------
(***************************************************************************)
(* The dictionary of src/utils/dict.c: bins of key and value pairs, more   *)
(* bins when they fill up.  current_connections and current_sockets        *)
(* (src/io/telnet.c) and command_handler_map (src/controllers/parsing.c)   *)
(* are three of them, each used under a mutex of its own user.             *)
(***************************************************************************)
EXTENDS Integers, Sequences, SequencesExt, Subsequence

CONSTANTS
  Keys,           \* pointers, as numbers
  Values, NoValue,
  Hash,           \* hash_function of each key, a function
  CompareWidth,   \* bits of the int default_comparator cuts a difference to
  InitialBins,    \* create_dict's argument: 10
  Growth          \* bins added at a time: 10

ASSUME KeyAssumption ==
  /\ Keys \subseteq Nat /\ NoValue \notin Values /\ Hash \in [Keys -> Nat]
  /\ CompareWidth \in Nat /\ InitialBins \in Nat \ {0} /\ Growth \in Nat \ {0, 1}

\* key_comparing_func is 0.
Same(a, b) == (a - b) % 2^CompareWidth = 0

\* Two keys of one dictionary are never 2^32 bytes, or a multiple, apart.
ASSUME KeysApart == \A a, b \in Keys : Same(a, b) <=> a = b

VARIABLES
  bins,     \* 0 .. number of bins - 1 -> pairs, in the order of the arraylist
  count,    \* dict->count
  answer    \* what the last call returned, NoValue for NULL and for void

dictVars == <<bins, count, answer>>

Pair(k, v) == [key |-> k, value |-> v]
BinCount == Cardinality(DOMAIN bins)

DictInit ==
  /\ bins = [b \in 0 .. InitialBins - 1 |-> <<>>]
  /\ count = 0 /\ answer = NoValue

BinOf(k, n) == Hash[k] % n
Bin(k) == BinOf(k, BinCount)

\* Position of the first pair of a bin that has key k, 0 when there is none.
PositionOf(k, bin) == SelectInSeq(bin, LAMBDA p : Same(p.key, k))

ValueIn(bin, k) ==
  LET at == PositionOf(k, bin) IN IF at = 0 THEN NoValue ELSE bin[at].value
DictGet(k) == ValueIn(bins[Bin(k)], k)

\* The pairs of a list that belong in bin b of n, in their order.
PairsFor(b, n, list) == Picked(list, {i \in DOMAIN list : BinOf(list[i].key, n) = b})

\* Variant: the pairs are put where the old number of bins had them.
RehashedByOldCount(old, n) ==
  LET m == Cardinality(DOMAIN old)
      all == FlattenSeq([i \in 1 .. m |-> old[m - i]])
  IN  [b \in 0 .. n - 1 |-> PairsFor(b, m, all)]

\* dict_resize: every bin is emptied from its end into a list, the list from
\* its end into the new bins.
Rehashed(old, n) ==
  LET m == Cardinality(DOMAIN old)
      all == FlattenSeq([i \in 1 .. m |-> old[m - i]])
  IN  [b \in 0 .. n - 1 |-> PairsFor(b, n, all)]

\* dict_load_factor above rehash_threshold, 0.75.
Overloaded(c, n) == 4 * c > 3 * n

Replace(k, v) ==
  /\ DictGet(k) # NoValue
  /\ bins' = [bins EXCEPT ![Bin(k)][PositionOf(k, bins[Bin(k)])].value = v]
  /\ count' = count

Insert(k, v) ==
  LET added == [bins EXCEPT ![Bin(k)] = Append(@, Pair(k, v))]
  IN  /\ DictGet(k) = NoValue
      /\ count' = count + 1
      /\ bins' = IF Overloaded(count', BinCount)
                 THEN Rehashed(added, BinCount + Growth) ELSE added

DictPut(k, v) == (Replace(k, v) \/ Insert(k, v)) /\ answer' = NoValue

\* Variant: the count is left as it is.
RemoveKeepsCount(k) ==
  /\ answer' = DictGet(k)
  /\ IF DictGet(k) = NoValue THEN UNCHANGED bins
     ELSE bins' = [bins EXCEPT ![Bin(k)] = RemoveAt(@, PositionOf(k, @))]
  /\ count' = count

DictRemove(k) ==
  /\ answer' = DictGet(k)
  /\ IF DictGet(k) = NoValue THEN UNCHANGED <<bins, count>>
     ELSE /\ bins' = [bins EXCEPT ![Bin(k)] = RemoveAt(@, PositionOf(k, @))]
          /\ count' = count - 1

DictNext == \E k \in Keys : DictRemove(k) \/ \E v \in Values : DictPut(k, v)

DictSpec == DictInit /\ [][DictNext]_dictVars

-----------------------------------------------------------------------------
(* Properties *)

Places == UNION {{b} \X DOMAIN bins[b] : b \in DOMAIN bins}

\* The count is the number of pairs, so that the load factor, and with it the
\* moment of the next rehash, does not drift however long pairs are put and
\* removed; and no key is in two pairs, or in another bin than its own, in
\* which dict_get would not look (dict.c 39-86).
WellFormed ==
  /\ count = Cardinality(Places)
  /\ ~Overloaded(count, BinCount)
  /\ \A b \in DOMAIN bins : \A i \in DOMAIN bins[b] :
       /\ Bin(bins[b][i].key) = b
       /\ \A j \in DOMAIN bins[b] : bins[b][i].key = bins[b][j].key => i = j

Map == INSTANCE KeyValueMap WITH map <- [k \in Keys |-> DictGet(k)]

\* Seen through dict_get the dictionary is a map: a call changes what is found
\* under its own key and, resize or not, under no other (dict.c 44-121).
DictIsMap == Map!Spec

-----------------------------------------------------------------------------
(* The invariant of the proofs                                               *)

Pairs == [key : Keys, value : Values]

\* bs is a table of n bins, each pair in its own, no key in two.
Unrepeated(list) ==
  \A i, j \in 1 .. Len(list) : list[i].key = list[j].key => i = j
Placed(bs, n) ==
  /\ n \in Nat \ {0} /\ bs \in [0 .. n - 1 -> Seq(Pairs)]
  /\ \A b \in 0 .. n - 1 :
       /\ Unrepeated(bs[b])
       /\ \A i \in 1 .. Len(bs[b]) : BinOf(bs[b][i].key, n) = b

\* The keys under which something is found are as many as the count says.
Held == {k \in Keys : DictGet(k) # NoValue}

DictIInv ==
  /\ Placed(bins, BinCount)
  /\ IsFiniteSet(Held) /\ count = Cardinality(Held)
  /\ ~Overloaded(count, BinCount)
=============================================================================

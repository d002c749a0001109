--------------------------- MODULE CardTextProofs ---------------------------
(***************************************************************************)
(* That the copy of a string stays in its block if the counter was zero,   *)
(* that the text of a card fits, and that the address the service is asked *)
(* for does, for strings and arguments of any length.                      *)
(***************************************************************************)
EXTENDS CardCommand, InductionLemmas, FiniteSetTheorems, TLAPS

LEMMA EightMembers == Len(Members) = 8
  BY DEF Members

LEMMA Join ==
  \A a, b \in Seq(Bytes) : a \o b \in Seq(Bytes) /\ Len(a \o b) = Len(a) + Len(b)
  OBVIOUS

LEMMA Join3 ==
  \A a, b, c \in Seq(Bytes) :
    a \o b \o c \in Seq(Bytes) /\ Len(a \o b \o c) = Len(a) + Len(b) + Len(c)
<1> SUFFICES ASSUME NEW a \in Seq(Bytes), NEW b \in Seq(Bytes), NEW c \in Seq(Bytes)
             PROVE  /\ a \o b \o c \in Seq(Bytes)
                    /\ Len(a \o b \o c) = Len(a) + Len(b) + Len(c)
  OBVIOUS
<1>1. a \o b \in Seq(Bytes) /\ Len(a \o b) = Len(a) + Len(b)
  BY Join, Zenon
<1>2. (a \o b) \o c \in Seq(Bytes) /\ Len((a \o b) \o c) = Len(a \o b) + Len(c)
  BY <1>1, Join, Zenon
<1> QED
  BY <1>1, <1>2, Zenon

LEMMA Alone == \A b \in Bytes : <<b>> \in Seq(Bytes) /\ Len(<<b>>) = 1
  OBVIOUS

LEMMA Pair == \A b, c \in Bytes : <<b, c>> \in Seq(Bytes) /\ Len(<<b, c>>) = 2
  OBVIOUS

LEMMA Four == \A a, b, c, d \in Bytes : <<a, b, c, d>> \in Seq(Bytes)
  OBVIOUS

LEMMA Data ==
  /\ Values \subseteq Seq(Bytes) /\ Strays \subseteq Nat /\ MaxCards \in 1 .. 10
  /\ Sizes \in Nat /\ Sizes > 0 /\ Strays \subseteq 0 .. Sizes - 1
<1>1. Sizes \in Nat \ {0} /\ Strays \subseteq 0 .. Sizes - 1
  BY TextAssumption, Zenon
<1>2. 0 .. Sizes - 1 \subseteq Nat /\ Sizes \in Nat /\ Sizes > 0
  BY <1>1
<1> QED
  BY <1>1, <1>2, TextAssumption, Zenon

\* A sum of two sizes loses at most one multiple of their number.
LEMMA Wrapped ==
  ASSUME NEW n \in Nat, NEW s \in Nat
  PROVE  /\ n < s => n % s = n
         /\ s <= n /\ n < 2 * s => n % s = n - s
<1>1. ASSUME n < s
      PROVE  n % s = n
  BY <1>1
<1>2. ASSUME s <= n, n < 2 * s
      PROVE  n % s = n - s
  BY <1>2
<1> QED
  BY <1>1, <1>2

\* The fixed parts of the templates.
LEMMA Fixed ==
  /\ CrLf \in Seq(Bytes) /\ Len(CrLf) = 2
  /\ None \in Seq(Bytes) /\ <<"0">> \in Seq(Bytes)
  /\ <<":", " ">> \in Seq(Bytes) /\ Len(<<":", " ">>) = 2
  /\ <<" ">> \in Seq(Bytes) /\ Len(<<" ">>) = 1
  /\ <<"digit">> \in Seq(Bytes) /\ Len(<<"digit">>) = 1
  /\ <<"tab">> \in Seq(Bytes) /\ Len(<<"tab">>) = 1
  /\ <<"(">> \in Seq(Bytes) /\ Len(<<"(">>) = 1
  /\ <<"/">> \in Seq(Bytes) /\ Len(<<"/">>) = 1
  /\ <<")">> \in Seq(Bytes) /\ Len(<<")">>) = 1
<1>1. /\ "cr" \in Bytes /\ "lf" \in Bytes /\ "tab" \in Bytes /\ " " \in Bytes
      /\ ":" \in Bytes /\ "/" \in Bytes /\ "(" \in Bytes /\ ")" \in Bytes
      /\ "digit" \in Bytes /\ "0" \in Bytes /\ "N" \in Bytes /\ "O" \in Bytes
      /\ "E" \in Bytes
  BY TextAssumption
<1> QED
  BY <1>1, Alone, Pair, Four, Zenon DEF CrLf, None

\* A line feed that is passed is one less to come; another byte is none.
LEMMA BreaksAreCounted ==
  ASSUME NEW v \in Seq(Bytes), NEW n \in 0 .. Len(v)
  PROVE  /\ IsFiniteSet(BreaksBehind(v, n)) /\ Cardinality(BreaksBehind(v, n)) \in Nat
         /\ n < Len(v) /\ v[n + 1] = "lf" =>
              Cardinality(BreaksBehind(v, n + 1)) = Cardinality(BreaksBehind(v, n)) - 1
         /\ n < Len(v) /\ v[n + 1] # "lf" => BreaksBehind(v, n + 1) = BreaksBehind(v, n)
<1>1. n \in Nat /\ Len(v) \in Nat
  OBVIOUS
<1>2. IsFiniteSet(BreaksBehind(v, n))
  <2>1. BreaksBehind(v, n) \subseteq n + 1 .. Len(v)
    BY DEF BreaksBehind
  <2>2. IsFiniteSet(n + 1 .. Len(v))
    BY <1>1, FS_Interval
  <2> QED
    BY <2>1, <2>2, FS_Subset
<1>3. Cardinality(BreaksBehind(v, n)) \in Nat
  BY <1>2, FS_CardinalityType
<1>4. ASSUME n < Len(v), v[n + 1] = "lf"
      PROVE  Cardinality(BreaksBehind(v, n + 1)) = Cardinality(BreaksBehind(v, n)) - 1
  <2>1. n + 1 \in BreaksBehind(v, n)
    BY <1>1, <1>4 DEF BreaksBehind
  <2>2. BreaksBehind(v, n + 1) = BreaksBehind(v, n) \ {n + 1}
    BY <1>1 DEF BreaksBehind
  <2> QED
    BY <1>2, <2>1, <2>2, FS_RemoveElement
<1>5. ASSUME n < Len(v), v[n + 1] # "lf"
      PROVE  BreaksBehind(v, n + 1) = BreaksBehind(v, n)
  BY <1>1, <1>5 DEF BreaksBehind
<1> QED
  BY <1>2, <1>3, <1>4, <1>5

\* The length of a block is the sum that is allocated, or wraps around once.
LEMMA BlockIsSum ==
  ASSUME NEW v \in Values, NEW g \in Strays
  PROVE  LET c == Cardinality(BreaksBehind(v, 0))
             n == Len(v) + g + c + 1
         IN  /\ c \in Nat /\ BlockOf(v, g) \in Nat
             /\ g = 0 => BlockOf(v, g) = Len(v) + c + 1
             /\ n < Sizes => BlockOf(v, g) = n
             /\ n >= Sizes => BlockOf(v, g) = n - Sizes /\ g # 0
<1> DEFINE c == Cardinality(BreaksBehind(v, 0))
           n == Len(v) + g + c + 1
<1>1. v \in Seq(Bytes) /\ g \in Nat /\ Sizes \in Nat /\ g \in 0 .. Sizes - 1
  BY Data, Zenon
<1>2. Len(v) \in Nat
  BY <1>1
<1>3. 2 * Len(v) + 1 < Sizes
  BY TextAssumption, Zenon
<1>4. c \in Nat /\ c <= Len(v)
  <2>1. BreaksBehind(v, 0) \subseteq 1 .. Len(v)
    BY DEF BreaksBehind
  <2>2. IsFiniteSet(1 .. Len(v)) /\ Cardinality(1 .. Len(v)) = Len(v)
    <3>1. /\ IsFiniteSet(1 .. Len(v))
          /\ Cardinality(1 .. Len(v)) = IF 1 > Len(v) THEN 0 ELSE Len(v) - 1 + 1
      BY <1>2, FS_Interval
    <3> QED
      BY <1>2, <3>1
  <2> QED
    BY <2>1, <2>2, FS_Subset, FS_CardinalityType
<1> HIDE DEF c
<1>5. n \in Nat /\ n < 2 * Sizes /\ (g = 0 => n < Sizes)
  BY <1>1, <1>2, <1>3, <1>4
<1>6. BlockOf(v, g) = n % Sizes
  <2>1. Len(CrLf) - 1 = 1
    <3>1. Len(CrLf) = 2
      BY Fixed, Zenon
    <3> QED
      BY <3>1
  <2>2. BlockOf(v, g) = (Len(v) + (g + c) * (Len(CrLf) - 1) + 1) % Sizes
    BY DEF BlockOf, c
  <2>3. (g + c) * 1 = g + c
    BY <1>1, <1>4
  <2>4. Len(v) + (g + c) + 1 = n
    BY <1>1, <1>2, <1>4
  <2> QED
    BY <2>1, <2>2, <2>3, <2>4, Zenon
<1>7. g = 0 => n = Len(v) + c + 1
  BY <1>1, <1>2, <1>4
<1> HIDE DEF n
<1>8. /\ n < Sizes => n % Sizes = n
      /\ Sizes <= n /\ n < 2 * Sizes => n % Sizes = n - Sizes
  BY <1>1, <1>5, Wrapped, Zenon
<1>9. /\ BlockOf(v, g) \in Nat
      /\ n < Sizes => BlockOf(v, g) = n
      /\ n >= Sizes => BlockOf(v, g) = n - Sizes /\ g # 0
      /\ g = 0 => BlockOf(v, g) = n
  BY <1>1, <1>5, <1>6, <1>8
<1> QED
  BY <1>4, <1>7, <1>9 DEF n, c

\* What a member contributes to a text is a string of symbols.
LEMMA PartsAreStrings ==
  ASSUME TypeOK
  PROVE  /\ Name \in Seq(Bytes) /\ Cost \in Seq(Bytes) /\ Type \in Seq(Bytes)
         /\ \A m : Text(m) \in Seq(Bytes)
<1>1. <<>> \in Seq(Bytes)
  OBVIOUS
<1>2. \A m, default : default \in Seq(Bytes) => Or(m, default) \in Seq(Bytes)
  BY DEF TypeOK, Or, Has
<1> QED
  BY <1>1, <1>2, Fixed, Zenon DEF Name, Cost, Type, Text

LEMMA FilledFits ==
  ASSUME TypeOK
  PROVE  Filled \in Seq(Bytes) /\ Room \in Nat /\ Len(Filled) < Room
<1> DEFINE Tab == <<"tab">>
           Open == <<"(">>
           Slash == <<"/">>
           Close == <<")">>
<1> DEFINE Head1 == Name \o Tab \o Cost
           Head2 == Head1 \o CrLf \o Type
           Head4 == Head2 \o CrLf \o Text("text")
           Tail0 == CrLf \o Open \o Text("power")
           Tail1 == Tail0 \o Slash \o Text("toughness")
           Tail2 == CrLf \o Open \o Text("loyalty")
<1>1. /\ Name \in Seq(Bytes) /\ Cost \in Seq(Bytes) /\ Type \in Seq(Bytes)
      /\ Text("text") \in Seq(Bytes) /\ Text("power") \in Seq(Bytes)
      /\ Text("toughness") \in Seq(Bytes) /\ Text("loyalty") \in Seq(Bytes)
  BY PartsAreStrings
<1>2. /\ CrLf \in Seq(Bytes) /\ Len(CrLf) = 2 /\ Tab \in Seq(Bytes) /\ Len(Tab) = 1
      /\ Open \in Seq(Bytes) /\ Len(Open) = 1 /\ Slash \in Seq(Bytes) /\ Len(Slash) = 1
      /\ Close \in Seq(Bytes) /\ Len(Close) = 1
  BY Fixed, Zenon
<1> HIDE DEF Tab, Open, Slash, Close
<1>3. /\ Len(Name) \in Nat /\ Len(Cost) \in Nat /\ Len(Type) \in Nat
      /\ Len(Text("text")) \in Nat /\ Len(Text("power")) \in Nat
      /\ Len(Text("toughness")) \in Nat /\ Len(Text("loyalty")) \in Nat
  BY <1>1
<1>4. /\ Head4 \in Seq(Bytes)
      /\ Len(Head4) = Len(Name) + Len(Cost) + Len(Type) + Len(Text("text")) + 5
  <2>1. Head1 \in Seq(Bytes) /\ Len(Head1) = Len(Name) + Len(Tab) + Len(Cost)
    <3>1. Name \in Seq(Bytes) /\ Tab \in Seq(Bytes) /\ Cost \in Seq(Bytes)
      BY <1>1, <1>2
    <3> QED
      BY <3>1, Join3, Zenon
  <2> HIDE DEF Head1
  <2>2. Head2 \in Seq(Bytes) /\ Len(Head2) = Len(Head1) + Len(CrLf) + Len(Type)
    <3>1. Head1 \in Seq(Bytes) /\ CrLf \in Seq(Bytes) /\ Type \in Seq(Bytes)
      BY <1>1, <1>2, <2>1
    <3> QED
      BY <3>1, Join3, Zenon
  <2> HIDE DEF Head2
  <2>3. Head4 \in Seq(Bytes) /\ Len(Head4) = Len(Head2) + Len(CrLf) + Len(Text("text"))
    <3>1. Head2 \in Seq(Bytes) /\ CrLf \in Seq(Bytes) /\ Text("text") \in Seq(Bytes)
      BY <1>1, <1>2, <2>2
    <3> QED
      BY <3>1, Join3, Zenon
  <2> HIDE DEF Head4
  <2> QED
    BY <1>2, <1>3, <2>1, <2>2, <2>3
<1>5. /\ Tail1 \o Close \in Seq(Bytes)
      /\ Len(Tail1 \o Close) = Len(Text("power")) + Len(Text("toughness")) + 5
  <2>1. Tail0 \in Seq(Bytes) /\ Len(Tail0) = Len(CrLf) + Len(Open) + Len(Text("power"))
    <3>1. CrLf \in Seq(Bytes) /\ Open \in Seq(Bytes) /\ Text("power") \in Seq(Bytes)
      BY <1>1, <1>2
    <3> QED
      BY <3>1, Join3, Zenon
  <2> HIDE DEF Tail0
  <2>2. Tail1 \in Seq(Bytes) /\ Len(Tail1) = Len(Tail0) + Len(Slash) + Len(Text("toughness"))
    <3>1. Tail0 \in Seq(Bytes) /\ Slash \in Seq(Bytes) /\ Text("toughness") \in Seq(Bytes)
      BY <1>1, <1>2, <2>1
    <3> QED
      BY <3>1, Join3, Zenon
  <2> HIDE DEF Tail1
  <2>3. Tail1 \o Close \in Seq(Bytes) /\ Len(Tail1 \o Close) = Len(Tail1) + Len(Close)
    BY <1>2, <2>2, Join, Zenon
  <2> QED
    BY <1>2, <1>3, <2>1, <2>2, <2>3
<1>6. /\ Tail2 \o Close \in Seq(Bytes)
      /\ Len(Tail2 \o Close) = Len(Text("loyalty")) + 4
  <2>1. Tail2 \in Seq(Bytes) /\ Len(Tail2) = Len(CrLf) + Len(Open) + Len(Text("loyalty"))
    <3>1. CrLf \in Seq(Bytes) /\ Open \in Seq(Bytes) /\ Text("loyalty") \in Seq(Bytes)
      BY <1>1, <1>2
    <3> QED
      BY <3>1, Join3, Zenon
  <2> HIDE DEF Tail2
  <2>2. Tail2 \o Close \in Seq(Bytes) /\ Len(Tail2 \o Close) = Len(Tail2) + Len(Close)
    BY <1>2, <2>1, Join, Zenon
  <2> QED
    BY <1>2, <1>3, <2>1, <2>2
<1>7. CASE Has("power") /\ Has("toughness")
  <2>1. Filled = Head4 \o (Tail1 \o Close)
    BY <1>7, Zenon DEF Filled, Tab, Open, Slash, Close
  <2>2. Filled \in Seq(Bytes) /\ Len(Filled) = Len(Head4) + Len(Tail1 \o Close)
    BY <1>4, <1>5, <2>1, Join, Zenon
  <2>3. Room = 6 + Len(Name) + Len(Cost) + Len(Type) + Len(Text("text")) + Len(Text("power"))
                 + Len(Text("toughness")) + Len(Text("loyalty")) + 5
    BY <1>7, Zenon DEF Room
  <2> HIDE DEF Head4, Tail1
  <2> QED
    BY <1>3, <1>4, <1>5, <2>2, <2>3
<1>8. CASE ~(Has("power") /\ Has("toughness")) /\ Has("loyalty")
  <2>1. Filled = Head4 \o (Tail2 \o Close)
    BY <1>8, Zenon DEF Filled, Tab, Open, Close
  <2>2. Filled \in Seq(Bytes) /\ Len(Filled) = Len(Head4) + Len(Tail2 \o Close)
    BY <1>4, <1>6, <2>1, Join, Zenon
  <2>3. Room = 6 + Len(Name) + Len(Cost) + Len(Type) + Len(Text("text")) + Len(Text("power"))
                 + Len(Text("toughness")) + Len(Text("loyalty")) + 4
    BY <1>8, Zenon DEF Room
  <2> HIDE DEF Head4, Tail2
  <2> QED
    BY <1>3, <1>4, <1>6, <2>2, <2>3
<1>9. CASE ~(Has("power") /\ Has("toughness")) /\ ~Has("loyalty")
  <2>1. Filled = Head4 \o <<>>
    BY <1>9, Zenon DEF Filled, Tab
  <2> HIDE DEF Head4
  <2>2. Filled \in Seq(Bytes) /\ Len(Filled) = Len(Head4)
    BY <1>4, <2>1
  <2>3. Room = 6 + Len(Name) + Len(Cost) + Len(Type) + Len(Text("text")) + Len(Text("power"))
                 + Len(Text("toughness")) + Len(Text("loyalty")) + 0
    BY <1>9, Zenon DEF Room
  <2> QED
    BY <1>3, <1>4, <2>2, <2>3
<1> QED
  BY <1>7, <1>8, <1>9

\* One turn of the loop that copies a byte or a substitute.
LEMMA PutKeeps ==
  ASSUME IInv, PutBreak \/ PutByte \/ PutNul
  PROVE  IInv'
<1>1. /\ TypeOK /\ CopyIsMeasured /\ pc = "copy" /\ written < block
      /\ pc' = "copy" /\ UNCHANGED <<command, next, texts, value, stray, block, room, shown>>
      /\ at' = at + 1
  BY DEF IInv, PutBreak, PutByte, PutNul, Put, Copying
<1>2. /\ value \in Seq(Bytes) /\ Len(value) \in Nat /\ at \in Nat /\ written \in Nat
      /\ block \in Nat
  <2>1. at \in Nat /\ written \in Nat /\ block \in Nat
    BY <1>1 DEF TypeOK
  <2>2. value \in Values \cup {<<>>}
    BY <1>1 DEF TypeOK
  <2>3. value \in Seq(Bytes)
    <3>1. <<>> \in Seq(Bytes)
      OBVIOUS
    <3> QED
      BY <2>2, <3>1, Data, Zenon
  <2> QED
    BY <2>1, <2>3
<1>3. CrLf \in Seq(Bytes) /\ Len(CrLf) = 2
  BY Fixed
<1>4. copy' \in Seq(Bytes) /\ written' \in Nat
  <2>1. copy \in Seq(Bytes)
    BY <1>1 DEF TypeOK
  <2>2. CASE PutBreak
    <3>1. copy' = copy \o CrLf /\ written' = written + Len(CrLf)
      BY <2>2 DEF PutBreak, Put
    <3> QED
      BY <1>2, <1>3, <2>1, <3>1
  <2>3. CASE PutByte
    <3>1. value[at + 1] \in Bytes
      BY <1>2, <2>3 DEF PutByte
    <3>2. <<value[at + 1]>> \in Seq(Bytes) /\ Len(<<value[at + 1]>>) = 1
      BY <3>1, Alone
    <3>3. copy' = copy \o <<value[at + 1]>> /\ written' = written + 1
      BY <2>3, <3>2 DEF PutByte, Put
    <3>4. copy' \in Seq(Bytes)
      BY <2>1, <3>2, <3>3, Join, Zenon
    <3> QED
      BY <1>2, <3>3, <3>4
  <2>4. CASE PutNul
    BY <1>2, <1>3, <2>1, <2>4 DEF PutNul
  <2> QED
    BY <2>2, <2>3, <2>4
<1>5. TypeOK'
  BY <1>1, <1>2, <1>4 DEF TypeOK
<1>6. CopyIsMeasured'
  <2> SUFFICES ASSUME stray = 0
               PROVE  \/ at + 1 = Len(value) + 1 /\ written' = block
                      \/ /\ at + 1 \in 0 .. Len(value)
                         /\ block = written' + (Len(value) - (at + 1))
                              + Cardinality(BreaksBehind(value, at + 1)) + 1
    BY <1>1 DEF CopyIsMeasured, BreaksBehind
  <2>1. /\ at \in 0 .. Len(value)
        /\ block = written + (Len(value) - at) + Cardinality(BreaksBehind(value, at)) + 1
    BY <1>1, <1>2 DEF CopyIsMeasured
  <2>2. Cardinality(BreaksBehind(value, at)) \in Nat
    BY <1>2, <2>1, BreaksAreCounted
  <2>3. CASE PutBreak
    <3>1. at < Len(value) /\ value[at + 1] = "lf" /\ written' = written + 2
      BY <1>3, <2>3 DEF PutBreak, Put
    <3>2. Cardinality(BreaksBehind(value, at + 1)) = Cardinality(BreaksBehind(value, at)) - 1
      BY <1>2, <2>1, <3>1, BreaksAreCounted
    <3> QED
      BY <1>2, <2>1, <2>2, <3>1, <3>2
  <2>4. CASE PutByte
    <3>1. at < Len(value) /\ value[at + 1] # "lf" /\ written' = written + 1
      BY <2>4 DEF PutByte, Put
    <3>2. BreaksBehind(value, at + 1) = BreaksBehind(value, at)
      BY <1>2, <2>1, <3>1, BreaksAreCounted
    <3> QED
      BY <1>2, <2>1, <2>2, <3>1, <3>2
  <2>5. CASE PutNul
    <3>1. at = Len(value) /\ written' = written + 1
      BY <1>2, <2>1, <2>5 DEF PutNul
    <3>2. BreaksBehind(value, at) = {}
      BY <1>2, <3>1 DEF BreaksBehind
    <3>3. Cardinality(BreaksBehind(value, at)) = 0
      BY <3>2, FS_EmptySet
    <3> QED
      BY <1>2, <2>1, <3>1, <3>3
  <2> QED
    BY <2>3, <2>4, <2>5
<1>7. CopyInBounds'
  <2> SUFFICES ASSUME stray = 0
               PROVE  at + 1 <= Len(value) + 1 /\ written' <= block
    BY <1>1 DEF CopyInBounds
  <2>1. \/ at + 1 = Len(value) + 1 /\ written' = block
        \/ /\ at + 1 \in 0 .. Len(value)
           /\ block = written' + (Len(value) - (at + 1))
                + Cardinality(BreaksBehind(value, at + 1)) + 1
    BY <1>1, <1>6 DEF CopyIsMeasured, BreaksBehind
  <2>2. CASE at + 1 \in 0 .. Len(value)
    <3>1. Cardinality(BreaksBehind(value, at + 1)) \in Nat
      BY <1>2, <2>2, BreaksAreCounted
    <3> QED
      BY <1>2, <1>4, <2>1, <2>2, <3>1
  <2> QED
    BY <1>2, <2>1, <2>2
<1> QED
  BY <1>1, <1>5, <1>6, <1>7 DEF IInv, TextFits

LEMMA CopiedTypes ==
  ASSUME TypeOK
  PROVE  /\ value \in Seq(Bytes) /\ Len(value) \in Nat /\ stray \in Nat
         /\ at \in Nat /\ written \in Nat /\ block \in Nat
<1>1. /\ at \in Nat /\ written \in Nat /\ block \in Nat
      /\ value \in Values \cup {<<>>} /\ stray \in Strays \cup {0}
  BY DEF TypeOK
<1>2. <<>> \in Seq(Bytes) /\ 0 \in Nat
  OBVIOUS
<1>3. value \in Seq(Bytes) /\ stray \in Nat
  BY <1>1, <1>2, Data, Zenon
<1> QED
  BY <1>1, <1>3

\* The other steps.
LEMMA RestKeeps ==
  ASSUME IInv,
         \/ Missing \/ Replace \/ OverreadFaults \/ Copied \/ DisplayCard \/ SearchLine
         \/ SearchCrashes \/ OutOfMemory
  PROVE  IInv'
<1>1. /\ TypeOK /\ CopyIsMeasured /\ CopyInBounds /\ next \in 1 .. 9
      /\ pc # "copy" => at = 0 /\ value = <<>> /\ written = 0 /\ block = 0
  BY EightMembers DEF IInv, TypeOK, CopyIsMeasured
<1>2. Len(<<>>) = 0 /\ <<>> \in Seq(Bytes)
  OBVIOUS
<1>3. CASE Missing
  <2>1. /\ pc = "string" /\ next <= 8 /\ next' = next + 1
        /\ UNCHANGED <<pc, command, texts, value, stray, block, at, written, copy, room, shown>>
    BY <1>3, EightMembers DEF Missing
  <2>2. TypeOK'
    BY <1>1, <2>1, EightMembers DEF TypeOK
  <2> QED
    BY <1>1, <2>1, <2>2 DEF IInv, CopyIsMeasured, CopyInBounds, TextFits
<1>4. CASE Replace
  <2>1. /\ pc' = "copy" /\ value' \in Values /\ stray' \in Strays /\ block' = BlockOf(value', stray')
        /\ at' = 0 /\ written' = 0 /\ copy' = <<>> /\ UNCHANGED <<command, next, texts, room, shown>>
    BY <1>4 DEF Replace
  <2>2. value' \in Seq(Bytes) /\ stray' \in Nat /\ Len(value') \in Nat
    BY <2>1, Data
  <2>3. Cardinality(BreaksBehind(value', 0)) \in Nat
    BY <2>1, BlockIsSum
  <2>4. /\ stray' = 0 => block' = Len(value') + Cardinality(BreaksBehind(value', 0)) + 1
        /\ block' \in Nat
    BY <2>1, BlockIsSum
  <2>5. TypeOK'
    BY <1>1, <1>2, <2>1, <2>4 DEF TypeOK
  <2>6. CopyIsMeasured'
    <3>1. stray' = 0 =>
            block' = written' + (Len(value') - at') + Cardinality(BreaksBehind(value', at')) + 1
      BY <2>1, <2>2, <2>3, <2>4
    <3>2. at' \in 0 .. Len(value') /\ pc' = "copy" /\ next' <= Len(Members)
      BY <1>4, <2>1, <2>2 DEF Replace
    <3>3. BreaksBehind(value, at)' = BreaksBehind(value', at')
      BY DEF BreaksBehind
    <3> QED
      BY <3>1, <3>2, <3>3 DEF CopyIsMeasured
  <2> QED
    BY <2>1, <2>2, <2>4, <2>5, <2>6 DEF IInv, CopyInBounds, TextFits
<1>5. CASE Copied
  <2>1. /\ pc = "copy" /\ written >= block /\ value' = <<>> /\ at' = 0 /\ copy' = <<>>
        /\ written' = 0 /\ block' = 0 /\ UNCHANGED <<command, stray, room, shown>>
    BY <1>5 DEF Copied
  <2>2. CASE written = block /\ at > Len(value)
    <3>1. /\ texts' = [m \in DOMAIN texts \cup {Members[next]} |->
                         IF m = Members[next] THEN copy ELSE texts[m]]
          /\ next' = next + 1 /\ pc' = "string"
      BY <1>5, <2>2 DEF Copied
    <3>2. next \in 1 .. 8
      BY <1>1, <2>1, EightMembers DEF CopyIsMeasured
    <3>3. \A m \in DOMAIN texts' : texts'[m] \in Seq(Bytes)
      BY <1>1, <3>1 DEF TypeOK
    <3>4. DOMAIN texts' \subseteq {Members[i] : i \in 1 .. next' - 1}
      BY <1>1, <3>1, <3>2 DEF TypeOK
    <3>5. TypeOK'
      BY <1>1, <1>2, <2>1, <3>1, <3>2, <3>3, <3>4, EightMembers DEF TypeOK
    <3> QED
      BY <1>2, <2>1, <3>1, <3>5 DEF IInv, CopyIsMeasured, CopyInBounds, TextFits
  <2>3. CASE ~(written = block /\ at > Len(value))
    <3>1. pc' = "undefined" /\ UNCHANGED <<texts, next>>
      BY <1>5, <2>3 DEF Copied
    <3>2. ASSUME stray = 0
          PROVE  FALSE
      <4>1. /\ value \in Seq(Bytes) /\ Len(value) \in Nat /\ at \in Nat /\ written \in Nat
            /\ block \in Nat
        BY <1>1, CopiedTypes
      <4>2. written = block
        BY <1>1, <2>1, <3>2, <4>1 DEF CopyInBounds
      <4>3. at \in 0 .. Len(value)
        BY <2>3, <4>1, <4>2
      <4>4. block = written + (Len(value) - at) + Cardinality(BreaksBehind(value, at)) + 1
        BY <1>1, <2>1, <2>3, <3>2, <4>1, <4>2 DEF CopyIsMeasured
      <4>5. Cardinality(BreaksBehind(value, at)) \in Nat
        BY <4>1, <4>3, BreaksAreCounted
      <4> QED
        BY <4>1, <4>2, <4>3, <4>4, <4>5
    <3>3. TypeOK'
      BY <1>1, <1>2, <2>1, <3>1 DEF TypeOK
    <3> QED
      BY <1>2, <2>1, <3>1, <3>2, <3>3 DEF IInv, CopyIsMeasured, CopyInBounds, TextFits
  <2> QED
    BY <2>2, <2>3
<1>6. CASE DisplayCard
  <2>1. /\ pc = "string" /\ pc' = "done" /\ room' = Room /\ shown' = Filled
        /\ UNCHANGED <<command, next, texts, value, stray, block, at, written, copy>>
    BY <1>6 DEF DisplayCard, AllParsed
  <2>2. shown' \in Seq(Bytes) /\ room' \in Nat /\ Len(shown') < room'
    BY <1>1, <2>1, FilledFits
  <2>3. TypeOK'
    BY <1>1, <2>1, <2>2 DEF TypeOK
  <2> QED
    BY <1>1, <2>1, <2>2, <2>3 DEF IInv, CopyIsMeasured, CopyInBounds, TextFits
<1>7. CASE SearchLine
  <2>1. /\ pc = "string" /\ pc' = "done" /\ room' = 7 + Len(Name) + Len(Cost)
        /\ UNCHANGED <<command, next, texts, value, stray, block, at, written, copy>>
    BY <1>7 DEF SearchLine, AllParsed
  <2>2. PICK i \in 0 .. MaxCards - 1 :
          shown' = Position(i) \o <<":", " ">> \o Name \o <<" ">> \o Cost \o CrLf
    BY <1>7 DEF SearchLine
  <2>3. Position(i) = <<"digit">>
    <3>1. i \in 0 .. MaxCards - 1 /\ MaxCards \in 1 .. 10
      BY Data, Zenon
    <3>2. i < 10
      BY <3>1
    <3> QED
      BY <3>2, Zenon DEF Position
  <2>4. Name \in Seq(Bytes) /\ Cost \in Seq(Bytes)
    BY <1>1, PartsAreStrings
  <2>5. shown' \in Seq(Bytes) /\ Len(shown') = Len(Name) + Len(Cost) + 6
    <3> DEFINE Digit == <<"digit">>
               Colon == <<":", " ">>
               Space == <<" ">>
    <3> DEFINE Left == Digit \o Colon \o Name
               Right == Left \o Space \o Cost
    <3>1. shown' = Right \o CrLf
      BY <2>2, <2>3, Zenon
    <3>2. /\ Digit \in Seq(Bytes) /\ Len(Digit) = 1 /\ Colon \in Seq(Bytes) /\ Len(Colon) = 2
          /\ Space \in Seq(Bytes) /\ Len(Space) = 1 /\ CrLf \in Seq(Bytes) /\ Len(CrLf) = 2
      BY Fixed, Zenon
    <3> HIDE DEF Digit, Colon, Space
    <3>3. Left \in Seq(Bytes) /\ Len(Left) = Len(Digit) + Len(Colon) + Len(Name)
      <4>1. Digit \in Seq(Bytes) /\ Colon \in Seq(Bytes) /\ Name \in Seq(Bytes)
        BY <2>4, <3>2
      <4> QED
        BY <4>1, Join3, Zenon
    <3> HIDE DEF Left
    <3>4. Right \in Seq(Bytes) /\ Len(Right) = Len(Left) + Len(Space) + Len(Cost)
      <4>1. Left \in Seq(Bytes) /\ Space \in Seq(Bytes) /\ Cost \in Seq(Bytes)
        BY <2>4, <3>2, <3>3
      <4> QED
        BY <4>1, Join3, Zenon
    <3> HIDE DEF Right
    <3>5. shown' \in Seq(Bytes) /\ Len(shown') = Len(Right) + Len(CrLf)
      BY <3>1, <3>2, <3>4, Join, Zenon
    <3>6. Len(Name) \in Nat /\ Len(Cost) \in Nat
      BY <2>4
    <3> QED
      BY <3>2, <3>3, <3>4, <3>5, <3>6
  <2>6. room' \in Nat /\ Len(shown') < room'
    BY <2>1, <2>4, <2>5
  <2>7. TypeOK'
    BY <1>1, <2>1, <2>5, <2>6 DEF TypeOK
  <2> QED
    BY <1>1, <2>1, <2>6, <2>7 DEF IInv, CopyIsMeasured, CopyInBounds, TextFits
<1>8. CASE SearchCrashes
  <2>1. /\ pc = "string" /\ pc' = "sigsegv"
        /\ UNCHANGED <<command, next, texts, value, stray, block, at, written, copy, room, shown>>
    BY <1>8 DEF SearchCrashes, AllParsed
  <2>2. TypeOK'
    BY <1>1, <2>1 DEF TypeOK
  <2> QED
    BY <1>1, <2>1, <2>2 DEF IInv, CopyIsMeasured, CopyInBounds, TextFits
<1>9. CASE OutOfMemory
  <2>1. /\ pc = "string" /\ pc' = "exit1"
        /\ UNCHANGED <<command, next, texts, value, stray, block, at, written, copy, room, shown>>
    BY <1>9 DEF OutOfMemory
  <2>2. TypeOK'
    BY <1>1, <2>1 DEF TypeOK
  <2> QED
    BY <1>1, <2>1, <2>2 DEF IInv, CopyIsMeasured, CopyInBounds, TextFits
<1>10. CASE OverreadFaults
  <2>1. /\ pc = "copy" /\ pc' = "sigsegv" /\ value' = <<>> /\ at' = 0 /\ copy' = <<>>
        /\ written' = 0 /\ block' = 0 /\ UNCHANGED <<command, next, texts, stray, room, shown>>
    BY <1>10 DEF OverreadFaults, Copying
  <2>2. TypeOK'
    BY <1>1, <1>2, <2>1 DEF TypeOK
  <2> QED
    BY <1>2, <2>1, <2>2 DEF IInv, CopyIsMeasured, CopyInBounds, TextFits
<1> QED
  BY <1>3, <1>4, <1>5, <1>6, <1>7, <1>8, <1>9, <1>10

LEMMA Inductive == Spec => []IInv
<1>1. ASSUME Init PROVE IInv
  <2>1. /\ pc = "string" /\ command \in {"search", "info"} /\ next = 1 /\ texts = <<>>
        /\ value = <<>> /\ stray = 0 /\ block = 0 /\ at = 0 /\ written = 0 /\ copy = <<>>
        /\ room = 0 /\ shown = <<>>
    BY <1>1 DEF Init
  <2>2. Len(value) = 0 /\ <<>> \in Seq(Bytes) /\ DOMAIN texts = {}
    BY <2>1
  <2>3. TypeOK
    BY <2>1, <2>2, EightMembers DEF TypeOK
  <2> QED
    BY <2>1, <2>2, <2>3 DEF IInv, CopyIsMeasured, CopyInBounds, TextFits
<1>2. IInv /\ [Next]_vars => IInv'
  <2> SUFFICES ASSUME IInv, [Next]_vars
               PROVE  IInv'
    OBVIOUS
  <2>1. CASE UNCHANGED vars
    BY <2>1 DEF vars, IInv, TypeOK, CopyIsMeasured, BreaksBehind, CopyInBounds, TextFits
  <2> QED
    BY <2>1, PutKeeps, RestKeeps DEF Next, Over
<1> QED
  BY <1>1, <1>2, PTL DEF Spec

\* If the counter held zero, strreplace stays in its memory, for strings of any
\* length with any number of line feeds (strings.c 22-51).
THEOREM CopyStaysInBounds == Spec => []CopyInBounds
<1>1. IInv => CopyInBounds
  BY DEF IInv
<1> QED
  BY <1>1, Inductive, PTL

\* The text of a card, or its line in a search, fits what was allocated for it, for
\* strings of any length and every combination of missing members (scryfall.c
\* 248-333, commands.c 29-33).  It needs that a search shows ten cards at most.
THEOREM TextAlwaysFits == Spec => []TextFits
<1>1. IInv => TextFits
  BY DEF IInv
<1> QED
  BY <1>1, Inductive, PTL

\* What the copies hold has its type: no symbol of an answer is lost or made up
\* outside the break that is put in (strings.c 22-51, scryfall.c 74-94).
THEOREM TypeCorrect == Spec => []TypeOK
<1>1. IInv => TypeOK
  BY DEF IInv
<1> QED
  BY <1>1, Inductive, PTL

-----------------------------------------------------------------------------
(* What the copy is *)

\* One symbol more.
LEMMA ReplacedMore ==
  \A v \in Seq(Bytes), b \in Bytes :
    Replaced(Append(v, b)) = Replaced(v) \o (IF b = "lf" THEN CrLf ELSE <<b>>)
<1> SUFFICES ASSUME NEW v \in Seq(Bytes), NEW b \in Bytes
             PROVE  Replaced(Append(v, b)) =
                      Replaced(v) \o (IF b = "lf" THEN CrLf ELSE <<b>>)
  OBVIOUS
<1> DEFINE t == Append(v, b)
           m == Len(v)
           y == IF b = "lf" THEN CrLf ELSE <<b>>
           x(u) == [i \in DOMAIN u |-> IF u[i] = "lf" THEN CrLf ELSE <<u[i]>>]
           l == x(v)
           r == x(t)
           w == Append(l, y)
<1>1. /\ m \in Nat /\ DOMAIN t = 1 .. m + 1 /\ DOMAIN v = 1 .. m
      /\ t[m + 1] = b /\ \A i \in 1 .. m : t[i] = v[i] /\ v[i] \in Bytes
  OBVIOUS
<1>2. CrLf \in Seq(Bytes) /\ \A c \in Bytes : <<c>> \in Seq(Bytes)
  BY Fixed, Alone
<1>3. y \in Seq(Bytes)
  BY <1>2
<1>4. l = [i \in 1 .. m |-> l[i]] /\ \A i \in 1 .. m : l[i] \in Seq(Bytes)
  BY <1>1, <1>2
<1>5. r = [i \in 1 .. m + 1 |-> r[i]] /\ r[m + 1] = y /\ \A i \in 1 .. m : r[i] = l[i]
  <2> HIDE DEF t
  <2> QED
    BY <1>1
<1> HIDE DEF l, r, y
<1>6. l \in Seq(Seq(Bytes)) /\ Len(l) = m
  BY <1>1, <1>4
<1>7. /\ w \in Seq(Seq(Bytes)) /\ Len(w) = m + 1 /\ w[m + 1] = y
      /\ \A i \in 1 .. m : w[i] = l[i]
  BY <1>1, <1>3, <1>6
<1>8. FlattenSeq(w) = FlattenSeq(l) \o y
  BY <1>3, <1>6, FlattenAppend
<1> HIDE DEF w
<1>9. w = [i \in 1 .. m + 1 |-> w[i]]
  BY <1>1, <1>7
<1>10. ASSUME NEW i \in 1 .. m + 1
       PROVE  r[i] = w[i]
  <2>1. i \in 1 .. m \/ i = m + 1
    BY <1>1
  <2> QED
    BY <1>5, <1>7, <2>1
<1>11. r = w
  BY <1>5, <1>9, <1>10
<1>12. Replaced(t) = FlattenSeq(r) /\ Replaced(v) = FlattenSeq(l)
  BY DEF Replaced, r, l
<1> QED
  BY <1>8, <1>11, <1>12 DEF y

LEMMA ReplacedNone == Replaced(<<>>) = <<>>
<1>1. [i \in DOMAIN <<>> |-> IF <<>>[i] = "lf" THEN CrLf ELSE <<(<<>>[i])>>] = <<>>
  OBVIOUS
<1> QED
  BY <1>1, FlattenNone DEF Replaced

FaithfulInv == IInv /\ CopyIsFaithful

\* A turn of the loop writes what the next symbol is replaced by.
LEMMA PutIsFaithful ==
  ASSUME FaithfulInv, PutBreak \/ PutByte \/ PutNul
  PROVE  CopyIsFaithful'
<1>1. /\ TypeOK /\ pc = "copy" /\ UNCHANGED <<pc, value, stray, block>> /\ at' = at + 1
  BY DEF FaithfulInv, IInv, PutBreak, PutByte, PutNul, Put, Copying
<1>2. /\ value \in Seq(Bytes) /\ Len(value) \in Nat /\ at \in Nat /\ written \in Nat
      /\ block \in Nat /\ stray \in Nat
  BY <1>1, CopiedTypes
<1>3. at <= Len(value) =>
        /\ copy = Replaced(SubSeq(value, 1, at))
        /\ block + Lost = written + (Len(value) - at) + Cardinality(BreaksBehind(value, at))
                            + stray + 1
  BY <1>1, <1>2 DEF FaithfulInv, CopyIsFaithful, Lost
<1>4. Lost' = Lost /\ Lost \in Nat /\ stray < Sizes /\ (Wraps => Lost = Sizes)
  <2>1. /\ Sizes \in Nat /\ Sizes > 0 /\ stray \in Strays \cup {0}
        /\ Strays \subseteq 0 .. Sizes - 1
    BY <1>1, Data, Zenon DEF TypeOK
  <2>2. stray < Sizes
    BY <2>1
  <2> QED
    BY <1>1, <2>1, <2>2 DEF Wraps, Lost, BreaksBehind
<1>5. CASE PutNul
  <2>1. at >= Len(value) /\ copy' = copy /\ at' > Len(value)
    BY <1>1, <1>2, <1>5 DEF PutNul
  <2>2. SubSeq(value, 1, Len(value)) = value
    BY <1>2
  <2>3. copy = Replaced(value) /\ ~Wraps
    <3>1. CASE at > Len(value)
      BY <1>1, <1>2, <3>1 DEF FaithfulInv, CopyIsFaithful
    <3>2. CASE at = Len(value)
      <4>1. copy = Replaced(SubSeq(value, 1, at)) /\ SubSeq(value, 1, at) = value
        BY <1>2, <1>3, <2>2, <3>2
      <4>2. written < block
        BY <1>5 DEF PutNul, Copying
      <4>3. Cardinality(BreaksBehind(value, at)) = 0
        <5>1. BreaksBehind(value, at) = {}
          BY <1>2, <3>2 DEF BreaksBehind
        <5> QED
          BY <5>1, FS_EmptySet
      <4>4. block + Lost = written + 0 + 0 + stray + 1
        BY <1>2, <1>3, <3>2, <4>3
      <4>5. Sizes \in Nat
        BY Data, Zenon
      <4>6. ~Wraps
        BY <1>2, <1>4, <4>2, <4>4, <4>5
      <4> QED
        BY <4>1, <4>6, Zenon
    <3> QED
      BY <1>2, <2>1, <3>1, <3>2
  <2>4. ~Wraps'
    BY <1>1, <2>3 DEF Wraps, BreaksBehind
  <2> QED
    BY <1>1, <2>1, <2>3, <2>4 DEF CopyIsFaithful
<1>6. CASE PutBreak \/ PutByte
  <2> DEFINE b == value[at + 1]
             y == IF b = "lf" THEN CrLf ELSE <<b>>
             g == IF b = "lf" THEN 2 ELSE 1
             c == Cardinality(BreaksBehind(value, at))
             d == Cardinality(BreaksBehind(value, at + 1))
  <2>1. at < Len(value) /\ b \in Bytes /\ at \in 0 .. Len(value)
    BY <1>2, <1>6 DEF PutBreak, PutByte
  <2>2. copy' = copy \o y /\ written' = written + g
    BY <1>6, Fixed, Alone, <2>1 DEF PutBreak, PutByte, Put
  <2>3. c \in Nat /\ d = c - (g - 1)
    BY <1>2, <2>1, BreaksAreCounted
  <2>4. SubSeq(value, 1, at + 1) = Append(SubSeq(value, 1, at), b)
    BY <1>2, <2>1
  <2>5. Replaced(SubSeq(value, 1, at + 1)) = Replaced(SubSeq(value, 1, at)) \o y
    <3>1. SubSeq(value, 1, at) \in Seq(Bytes)
      BY <1>2, <2>1
    <3> QED
      BY <2>1, <2>4, <3>1, ReplacedMore
  <2>6. copy' = Replaced(SubSeq(value, 1, at + 1))
    <3>1. copy = Replaced(SubSeq(value, 1, at))
      BY <1>2, <1>3, <2>1
    <3> HIDE DEF b, y
    <3> QED
      BY <2>2, <2>5, <3>1, Zenon
  <2>7. block + Lost = written' + (Len(value) - (at + 1)) + d + stray + 1
    <3>1. g \in {1, 2}
      OBVIOUS
    <3>2. block + Lost = written + (Len(value) - at) + c + stray + 1
      BY <1>2, <1>3, <2>1
    <3> HIDE DEF g, c, d
    <3> QED
      <4>1. Lost \in Nat
        BY <1>4
      <4> QED
        BY <1>2, <2>2, <2>3, <3>1, <3>2, <4>1
  <2>8. at + 1 <= Len(value)
    BY <1>2, <2>1
  <2>9. BreaksBehind(value, at)' = BreaksBehind(value, at + 1)
    BY <1>1 DEF BreaksBehind
  <2> HIDE DEF b, y, g
  <2> QED
    BY <1>1, <1>4, <2>6, <2>7, <2>8, <2>9 DEF CopyIsFaithful
<1> QED
  BY <1>5, <1>6

LEMMA AlwaysFaithful == Spec => []FaithfulInv
<1>1. Init => CopyIsFaithful
  BY DEF Init, CopyIsFaithful
<1>2. FaithfulInv /\ [Next]_vars => CopyIsFaithful'
  <2> SUFFICES ASSUME FaithfulInv, [Next]_vars
               PROVE  CopyIsFaithful'
    OBVIOUS
  <2>1. CASE Replace
    <3>1. /\ pc' = "copy" /\ at' = 0 /\ written' = 0 /\ copy' = <<>>
          /\ block' = BlockOf(value', stray') /\ value' \in Seq(Bytes) /\ stray' \in Nat
      BY <2>1, Data DEF Replace
    <3> DEFINE v == value'
               g == stray'
               c == Cardinality(BreaksBehind(v, 0))
               n == Len(v) + g + c + 1
    <3>2. v \in Values /\ g \in Strays /\ Sizes \in Nat /\ Len(v) \in Nat /\ g \in Nat
      <4>1. v \in Values /\ g \in Strays /\ v \in Seq(Bytes) /\ g \in Nat
        BY <2>1, <3>1 DEF Replace
      <4>2. Sizes \in Nat
        BY Data, Zenon
      <4> QED
        BY <4>1, <4>2
    <3>3. SubSeq(v, 1, 0) = <<>>
      BY <3>1
    <3>4. /\ c \in Nat /\ BlockOf(v, g) \in Nat
          /\ n < Sizes => BlockOf(v, g) = n
          /\ n >= Sizes => BlockOf(v, g) = n - Sizes
      BY <3>2, BlockIsSum
    <3>5. Lost' = IF Len(v) + g + c + 1 >= Sizes THEN Sizes ELSE 0
      BY DEF Lost, Wraps, BreaksBehind
    <3>6. BreaksBehind(value, at)' = BreaksBehind(v, 0)
      BY <3>1 DEF BreaksBehind
    <3>7. /\ block' = BlockOf(v, g) /\ written' = 0 /\ at' = 0 /\ pc' = "copy"
          /\ copy' = <<>> /\ value' = v /\ stray' = g
      BY <3>1
    <3> HIDE DEF v, g
    <3>8. Cardinality(BreaksBehind(value, at)') = c
      BY <3>6
    <3> HIDE DEF c
    <3>9. block' + Lost' = 0 + (Len(v) - 0) + c + g + 1 /\ 0 <= Len(v)
      BY <3>2, <3>4, <3>5, <3>7
    <3> QED
      BY <3>3, <3>7, <3>8, <3>9, ReplacedNone DEF CopyIsFaithful
  <2>2. PutBreak \/ PutByte \/ PutNul => CopyIsFaithful'
    BY PutIsFaithful
  <2>3. CASE \/ Missing \/ OverreadFaults \/ Copied \/ DisplayCard \/ SearchLine
             \/ SearchCrashes \/ OutOfMemory
    BY <2>3 DEF Missing, OverreadFaults, Copied, DisplayCard, SearchLine, SearchCrashes,
                OutOfMemory, CopyIsFaithful, AllParsed
  <2>4. CASE UNCHANGED vars
    BY <2>4 DEF vars, FaithfulInv, CopyIsFaithful, Wraps, Lost, BreaksBehind
  <2> QED
    BY <2>1, <2>2, <2>3, <2>4 DEF Next, Over
<1> QED
  BY <1>1, <1>2, Inductive, PTL DEF Spec, FaithfulInv

\* For strings of any length and any start of its counter: a copy that has its NUL is
\* the string with each line feed replaced and nothing else.  It has one when the loop
\* ends, unless the length of its block wrapped around in a size_t, and then it never
\* has (strings.c 9-51).
THEOREM CopiesAreReplaced == Spec => []CopyIsReplaced
<1>1. FaithfulInv => CopyIsReplaced
  <2> SUFFICES ASSUME FaithfulInv, pc = "copy"
               PROVE  /\ at > Len(value) => copy = Replaced(value)
                      /\ written >= block => (at > Len(value) <=> ~Wraps)
    BY DEF CopyIsReplaced
  <2>1. /\ value \in Seq(Bytes) /\ stray \in Nat /\ Len(value) \in Nat
        /\ at \in Nat /\ written \in Nat /\ block \in Nat
    BY CopiedTypes DEF FaithfulInv, IInv
  <2>2. CASE at <= Len(value)
    <3>1. at \in 0 .. Len(value)
      BY <2>1, <2>2
    <3>2. Cardinality(BreaksBehind(value, at)) \in Nat
      BY <2>1, <3>1, BreaksAreCounted
    <3>3. block + Lost = written + (Len(value) - at) + Cardinality(BreaksBehind(value, at))
                           + stray + 1
      BY <2>1, <2>2 DEF FaithfulInv, CopyIsFaithful
    <3>4. ~Wraps => Lost = 0
      BY DEF Lost
    <3> QED
      BY <2>1, <2>2, <3>2, <3>3, <3>4
  <2>3. CASE at > Len(value)
    BY <2>1, <2>3 DEF FaithfulInv, CopyIsFaithful
  <2> QED
    BY <2>1, <2>2, <2>3
<1> QED
  BY <1>1, AlwaysFaithful, PTL

-----------------------------------------------------------------------------
(* The address *)

Symbols == Safe \cup {"+", "%", "nul"}

Written(n, symbols) ==
  /\ encoded' \in Seq(Symbols) /\ Len(encoded') = Len(encoded)
  /\ enc' = enc + n /\ enc + n <= Len(encoded) /\ read' = read + 1
  /\ stage = "encode" /\ stage' = "encode" /\ UNCHANGED <<verb, typed>>
  /\ Blank(enc)' /\ enc \in 1 .. 3 * read + 1
  /\ \A j \in 1 .. enc - 1 : encoded'[j] = encoded[j]
  /\ \A j \in 1 .. n : encoded'[enc + j - 1] = symbols[j]

\* One or three symbols are written inside the block, and enc moves behind them.
LEMMA EncodeWrites ==
  ASSUME AddressIInv, Encoding, NEW n \in {1, 3}, NEW symbols,
         Len(symbols) = n,
         \A i \in 1 .. n : symbols[i] \in Safe \cup {"+", "%"},
         EncodeAs(symbols)
  PROVE  Written(n, symbols)
<1> USE DEF Symbols
<1> DEFINE Out == Symbols
           J == {j \in enc + 1 .. Len(encoded') : encoded'[j] = "nul"}
<1>1. /\ stage = "encode" /\ read \in Nat /\ read < Len(typed) /\ Len(typed) \in Nat
      /\ enc \in 1 .. 3 * read + 1 /\ encoded \in Seq(Out)
      /\ Len(encoded) = 3 * Len(typed) + 1 /\ Blank(enc)
      /\ typed \in Seq(Typed) /\ verb \in {"search", "info"}
  BY DEF AddressIInv, Encoding
<1>2. enc + n <= Len(encoded) /\ enc \in Nat /\ Len(encoded) \in Nat
  BY <1>1
<1>3. /\ encoded' = [i \in DOMAIN encoded |->
                       IF i \in enc .. enc + n - 1 THEN symbols[i - enc + 1] ELSE encoded[i]]
      /\ enc' = EndFrom(encoded', enc + 1)
      /\ read' = read + 1 /\ stage' = "encode"
      /\ UNCHANGED <<verb, typed>>
  BY <1>1, <1>2 DEF EncodeAs
<1>4. DOMAIN encoded = 1 .. Len(encoded)
  BY <1>1
<1>5. \A i \in 1 .. Len(encoded) : encoded'[i] \in Out
  <2> SUFFICES ASSUME NEW i \in 1 .. Len(encoded)
               PROVE  encoded'[i] \in Out
    OBVIOUS
  <2>1. CASE i \in enc .. enc + n - 1
    <3>1. i - enc + 1 \in 1 .. n
      BY <1>2, <2>1
    <3>2. encoded'[i] = symbols[i - enc + 1]
      BY <1>3, <1>4, <2>1
    <3> QED
      BY <3>1, <3>2
  <2>2. CASE i \notin enc .. enc + n - 1
    <3>1. encoded'[i] = encoded[i]
      BY <1>3, <1>4, <2>2
    <3> QED
      BY <1>1, <3>1
  <2> QED
    BY <2>1, <2>2
<1>6. encoded' \in Seq(Out) /\ Len(encoded') = Len(encoded)
  <2>1. encoded' = [i \in 1 .. Len(encoded) |-> encoded'[i]]
    BY <1>3, <1>4
  <2> QED
    BY <1>2, <1>5, <2>1
<1>7. \A j \in enc + n .. Len(encoded) : encoded'[j] = "nul"
  <2> SUFFICES ASSUME NEW j \in enc + n .. Len(encoded)
               PROVE  encoded'[j] = "nul"
    OBVIOUS
  <2>1. j \in enc .. Len(encoded) /\ j \in 1 .. Len(encoded) /\ j \notin enc .. enc + n - 1
    BY <1>2
  <2>2. encoded'[j] = encoded[j]
    BY <1>3, <1>4, <2>1
  <2> QED
    BY <1>1, <2>1, <2>2 DEF Blank
<1>8. \A j \in enc + 1 .. enc + n - 1 : encoded'[j] # "nul"
  <2> SUFFICES ASSUME NEW j \in enc + 1 .. enc + n - 1
               PROVE  encoded'[j] # "nul"
    OBVIOUS
  <2>1. j \in enc .. enc + n - 1 /\ j \in 1 .. Len(encoded) /\ j - enc + 1 \in 1 .. n
    BY <1>2
  <2>2. encoded'[j] = symbols[j - enc + 1]
    BY <1>3, <1>4, <2>1
  <2>3. "nul" \notin Safe
    BY AddressAssumption
  <2> QED
    BY <2>1, <2>2, <2>3
<1>9. enc' = enc + n
  <2>1. enc + n \in J
    BY <1>2, <1>6, <1>7
  <2>2. \A j \in J : enc + n <= j
    BY <1>2, <1>6, <1>8
  <2>3. J \in SUBSET Nat
    BY <1>2
  <2>4. Min(J) \in J /\ \A j \in J : Min(J) <= j
    BY <2>1, <2>3, MinIsLeast
  <2>5. enc' = Min(J)
    BY <1>3 DEF EndFrom
  <2>6. Min(J) \in Nat /\ Min(J) <= enc + n /\ enc + n <= Min(J)
    <3> HIDE DEF J
    <3> QED
      BY <2>1, <2>2, <2>3, <2>4, Zenon
  <2> HIDE DEF J
  <2> QED
    BY <1>2, <2>5, <2>6
<1>10. Blank(enc)'
  BY <1>6, <1>7, <1>9 DEF Blank
<1>11. \A j \in 1 .. enc - 1 : encoded'[j] = encoded[j]
  BY <1>2, <1>3, <1>4
<1>12. ASSUME NEW j \in 1 .. n
       PROVE  encoded'[enc + j - 1] = symbols[j]
  <2>1. /\ enc + j - 1 \in enc .. enc + n - 1 /\ enc + j - 1 \in 1 .. Len(encoded)
        /\ (enc + j - 1) - enc + 1 = j
    BY <1>1, <1>2
  <2> QED
    BY <1>3, <1>4, <2>1
<1> QED
  BY <1>1, <1>2, <1>3, <1>6, <1>9, <1>10, <1>11, <1>12 DEF Written

LEMMA EncodeKeeps ==
  ASSUME AddressIInv, Encoding, NEW n \in {1, 3}, NEW symbols,
         Len(symbols) = n,
         \A i \in 1 .. n : symbols[i] \in Safe \cup {"+", "%"},
         EncodeAs(symbols)
  PROVE  AddressIInv'
<1>1. /\ read \in Nat /\ read < Len(typed) /\ Len(typed) \in Nat
      /\ typed \in Seq(Typed) /\ verb \in {"search", "info"}
      /\ Len(encoded) = 3 * Len(typed) + 1
  BY DEF AddressIInv, Encoding
<1>2. /\ encoded' \in Seq(Symbols) /\ Len(encoded') = Len(encoded)
      /\ enc' = enc + n /\ read' = read + 1 /\ stage' = "encode"
      /\ UNCHANGED <<verb, typed>> /\ Blank(enc)' /\ enc \in 1 .. 3 * read + 1
  <2>1. Written(n, symbols)
    BY EncodeWrites
  <2> QED
    BY <2>1 DEF Written
<1>3. read' \in 0 .. Len(typed') /\ enc' \in 1 .. 3 * read' + 1
  BY <1>1, <1>2
<1> QED
  BY <1>1, <1>2, <1>3 DEF AddressIInv, Symbols

\* The other steps, up to the address.
LEMMA AddressKeeps ==
  ASSUME AddressIInv,
         Call \/ EncodingEnds \/ PrintUrl \/ ParseUrl \/ Answer
  PROVE  AddressIInv'
<1>1. CASE Call
  <2>1. /\ typed' \in Seq(Typed) /\ Len(typed') \in Nat
        /\ stage' = "encode" /\ read' = 0 /\ enc' = 1 /\ verb' = verb
        /\ encoded' = [i \in 1 .. 3 * Len(typed') + 1 |-> "nul"]
    <3>1. typed' \in Arguments /\ Arguments \subseteq Seq(Typed)
      BY <1>1, AddressAssumption DEF Call
    <3>2. typed' \in Seq(Typed)
      BY <3>1, Zenon
    <3> QED
      BY <1>1, <3>2 DEF Call
  <2>2. 3 * Len(typed') + 1 \in Nat
    BY <2>1
  <2>3. encoded' \in Seq(Safe \cup {"+", "%", "nul"}) /\ Len(encoded') = 3 * Len(typed') + 1
    BY <2>1, <2>2
  <2>4. Blank(1)'
    BY <2>1, <2>3 DEF Blank
  <2> QED
    BY <2>1, <2>3, <2>4 DEF AddressIInv
<1>2. CASE EncodingEnds
  <2>1. encoded[Len(encoded)] = "nul" /\ Len(encoded) \in 1 .. Len(encoded)
    BY <1>2 DEF EncodingEnds, AddressIInv, Blank
  <2> QED
    BY <1>2, <2>1 DEF EncodingEnds, AddressIInv
<1>3. CASE PrintUrl
  <2>1. Needed <= Allocated
    <3> DEFINE J == {j \in 1 .. Len(encoded) : encoded[j] = "nul"}
    <3>1. J \in SUBSET Nat /\ J # {} /\ encoded \in Seq(Safe \cup {"+", "%", "nul"})
      BY <1>3 DEF PrintUrl, AddressIInv
    <3>2. Min(J) \in J
      BY <3>1, MinIsLeast
    <3>3. EndFrom(encoded, 1) \in 1 .. Len(encoded)
      BY <3>2 DEF EndFrom
    <3>4. Len(StringIn(encoded)) \in Nat
      BY <3>1, <3>3 DEF StringIn
    <3>5. PathLen[verb] \in 0 .. 19
      BY DEF PathLen, AddressIInv
    <3>6. HostLen \in Nat
      BY AddressAssumption
    <3>7. \A h, l \in Nat : \A p \in 0 .. 19 : h + p + l + 1 <= h + l + 20
      OBVIOUS
    <3> QED
      BY <3>4, <3>5, <3>6, <3>7, Zenon DEF Needed, Allocated
  <2> QED
    BY <1>3, <2>1 DEF PrintUrl, AddressIInv
<1>4. CASE ParseUrl
  BY <1>4 DEF ParseUrl, AddressIInv
<1>5. CASE Answer
  <2>1. <<>> \in Seq(Typed)
    OBVIOUS
  <2> QED
    BY <1>5, <2>1 DEF Answer, AddressIInv
<1> QED
  BY <1>1, <1>2, <1>3, <1>4, <1>5

LEMMA AlwaysAddressIInv == AddressSpec => []AddressIInv
<1>1. AddressInit => AddressIInv
  <2>1. <<>> \in Seq(Typed)
    OBVIOUS
  <2> QED
    BY <2>1 DEF AddressInit, AddressIInv
<1>2. AddressIInv /\ [AddressNext]_addressVars => AddressIInv'
  <2> SUFFICES ASSUME AddressIInv, [AddressNext]_addressVars
               PROVE  AddressIInv'
    OBVIOUS
  <2>1. CASE EncodePlain
    <3>1. /\ Encoding /\ Byte \in Safe /\ EncodeAs(<<Byte>>)
          /\ Len(<<Byte>>) = 1 /\ <<Byte>>[1] = Byte
      BY <2>1 DEF EncodePlain
    <3>2. \A i \in 1 .. 1 : <<Byte>>[i] \in Safe \cup {"+", "%"}
      BY <3>1
    <3> QED
      BY <3>1, <3>2, EncodeKeeps
  <2>2. CASE EncodeSpace
    <3>1. \A i \in 1 .. 1 : <<"+">>[i] \in Safe \cup {"+", "%"}
      OBVIOUS
    <3> QED
      BY <2>2, <3>1, EncodeKeeps DEF EncodeSpace
  <2>3. CASE Escape
    <3>1. Hex[Byte] \in Safe \X Safe
      BY <2>3, AddressAssumption DEF Escape
    <3>2. Hex[Byte][1] \in Safe /\ Hex[Byte][2] \in Safe
      BY <3>1
    <3> DEFINE triple == <<"%", Hex[Byte][1], Hex[Byte][2]>>
    <3>3. Len(triple) = 3 /\ \A i \in 1 .. 3 : triple[i] \in Safe \cup {"+", "%"}
      BY <3>2
    <3>4. Encoding /\ EncodeAs(triple)
      BY <2>3 DEF Escape
    <3> HIDE DEF triple
    <3> QED
      BY <3>3, <3>4, EncodeKeeps
  <2>4. CASE UNCHANGED addressVars
    BY <2>4 DEF addressVars, AddressIInv, Blank
  <2> QED
    BY <2>1, <2>2, <2>3, <2>4, AddressKeeps DEF AddressNext, AddressOver
<1> QED
  BY <1>1, <1>2, PTL DEF AddressSpec

\* Neither the encoded argument nor the address passes its block, whatever was typed
\* and of whatever length; the longer of the two paths leaves no byte to spare
\* (urlencode.c 18-28, scryfall.c 141-147 and 169-175).
THEOREM AddressFits == AddressSpec => []AddressInBounds
<1>1. AddressIInv => AddressInBounds
  BY DEF AddressIInv, AddressInBounds
<1> QED
  BY <1>1, AlwaysAddressIInv, PTL

-----------------------------------------------------------------------------
(* What the address asks for *)

Owe1(before, x) == IF before > 0 THEN before - 1 ELSE IF x = "%" THEN 2 ELSE 0
IsOwed(f, e) ==
  /\ f \in [0 .. Len(e) -> 0 .. 2] /\ f[0] = 0
  /\ \A i \in 1 .. Len(e) : f[i] = Owe1(f[i - 1], e[i])

LEMMA OwedSteps ==
  ASSUME NEW T, NEW e \in Seq(T)
  PROVE  IsOwed(Owed(e), e)
<1> DEFINE Body(f) == [i \in 0 .. Len(e) |->
                         IF i = 0 THEN 0
                         ELSE IF f[i - 1] > 0 THEN f[i - 1] - 1
                         ELSE IF e[i] = "%" THEN 2 ELSE 0]
           step == [i \in 1 .. Len(e) |-> [x \in 0 .. 2 |-> Owe1(x, e[i])]]
<1>1. Len(e) \in Nat /\ 0 \in 0 .. 2
  OBVIOUS
<1>2. step \in [1 .. Len(e) -> [0 .. 2 -> 0 .. 2]]
  BY DEF Owe1
<1>3. \A i \in 1 .. Len(e), x \in 0 .. 2 : step[i][x] = Owe1(x, e[i])
  OBVIOUS
<1> HIDE DEF step
<1>4. PICK f : GoesOn(f, Len(e), 0 .. 2, 0, step)
  <2>1. step \in Steps(Len(e), 0 .. 2)
    BY <1>2 DEF Steps
  <2> QED
    BY <1>1, <2>1, Recursion
<1>5. IsOwed(f, e)
  <2>1. ASSUME NEW i \in 1 .. Len(e)
        PROVE  f[i] = Owe1(f[i - 1], e[i])
    <3>1. i - 1 \in 0 .. Len(e)
      BY <1>1
    <3>2. f[i - 1] \in 0 .. 2
      BY <1>4, <3>1 DEF GoesOn
    <3> QED
      BY <1>3, <1>4, <3>2 DEF GoesOn
  <2> QED
    BY <1>4, <2>1 DEF GoesOn, IsOwed
<1>6. f = Body(f)
  <2>1. \A i \in 0 .. Len(e) : i # 0 => i \in 1 .. Len(e)
    BY <1>1
  <2>2. \A i \in 0 .. Len(e) : f[i] = IF i = 0 THEN 0 ELSE Owe1(f[i - 1], e[i])
    BY <1>5, <2>1, Zenon DEF IsOwed
  <2> QED
    BY <1>5, <2>2 DEF IsOwed, Owe1
<1>7. Owed(e) = CHOOSE g : g = Body(g)
  BY DEF Owed
<1>8. Owed(e) = Body(Owed(e))
  <2> HIDE DEF Body
  <2> QED
    BY <1>6, <1>7
<1> DEFINE k == Owed(e)
<1>9. k = Body(k)
  BY <1>8
<1> HIDE DEF k
<1>10. k[0] = 0 /\ \A i \in 1 .. Len(e) : k[i] = Owe1(k[i - 1], e[i])
  <2>1. \A i \in 0 .. Len(e) : k[i] = Body(k)[i]
    BY <1>9
  <2> QED
    BY <1>1, <2>1 DEF Owe1
<1>11. DOMAIN k = 0 .. Len(e) /\ k = [i \in DOMAIN k |-> k[i]]
  BY <1>9
<1> HIDE DEF Body
<1>12. Alike(f, k, Len(e))
  <2>1. f[0] = k[0] /\ StepAlike(f, k, Len(e))
    BY <1>5, <1>10 DEF IsOwed, StepAlike
  <2> QED
    BY <1>1, <2>1, SameSteps
<1>13. \A i \in 0 .. Len(e) : k[i] \in 0 .. 2
  BY <1>5, <1>12 DEF IsOwed, Alike
<1>14. k \in [0 .. Len(e) -> 0 .. 2]
  BY <1>11, <1>13, Zenon
<1> QED
  BY <1>10, <1>14 DEF IsOwed, k

\* What is owed behind a symbol depends on what is in front of it only.
LEMMA OwedOfFront ==
  ASSUME NEW T, NEW e \in Seq(T), NEW x \in T
  PROVE  /\ Alike(Owed(e), Owed(Append(e, x)), Len(e))
         /\ Owed(Append(e, x))[Len(e) + 1] = Owe1(Owed(e)[Len(e)], x)
<1> DEFINE t == Append(e, x)
           n == Len(e)
<1>1. /\ t \in Seq(T) /\ Len(t) = n + 1 /\ n \in Nat
      /\ t[n + 1] = x /\ \A i \in 1 .. n : t[i] = e[i]
  OBVIOUS
<1> HIDE DEF t
<1>2. IsOwed(Owed(e), e) /\ IsOwed(Owed(t), t)
  BY <1>1, OwedSteps
<1>3. ASSUME NEW i \in 1 .. n, Owed(e)[i - 1] = Owed(t)[i - 1]
      PROVE  Owed(e)[i] = Owed(t)[i]
  <2>1. i \in 1 .. Len(t) /\ t[i] = e[i]
    BY <1>1
  <2> QED
    BY <1>2, <1>3, <2>1 DEF IsOwed
<1>4. Alike(Owed(e), Owed(t), n)
  <2>1. StepAlike(Owed(e), Owed(t), n) /\ Owed(e)[0] = Owed(t)[0]
    BY <1>2, <1>3 DEF StepAlike, IsOwed
  <2> QED
    BY <1>1, <2>1, SameSteps
<1>5. Owed(t)[n + 1] = Owe1(Owed(t)[n], x)
  <2>1. n + 1 \in 1 .. Len(t) /\ (n + 1) - 1 = n
    BY <1>1
  <2> QED
    BY <1>1, <1>2, <2>1 DEF IsOwed
<1>6. Owed(e)[n] = Owed(t)[n]
  BY <1>1, <1>4 DEF Alike
<1> QED
  BY <1>4, <1>5, <1>6 DEF t

Due(e) == Owed(e)[Len(e)]
MeantAt(e, i) ==
  IF Owed(e)[i - 1] = 1 THEN CHOOSE b \in Escaped : Hex[b] = <<e[i - 1], e[i]>>
  ELSE IF e[i] = "+" THEN " " ELSE e[i]

\* What one more symbol says.
Meaning(e, x) ==
  IF Due(e) = 1 THEN CHOOSE b \in Escaped : Hex[b] = <<e[Len(e)], x>>
  ELSE IF x = "+" THEN " " ELSE x

SymbolMore(e, x, t) ==
  /\ t \in Seq(Symbols) /\ Due(t) = Owe1(Due(e), x)
  /\ Decoded(t) = IF Due(t) = 0 THEN Append(Decoded(e), Meaning(e, x)) ELSE Decoded(e)

LEMMA SymbolAppend ==
  \A e \in Seq(Symbols), x \in Symbols : SymbolMore(e, x, Append(e, x))
<1> SUFFICES ASSUME NEW e \in Seq(Symbols), NEW x \in Symbols
             PROVE  SymbolMore(e, x, Append(e, x))
  OBVIOUS
<1> DEFINE t == Append(e, x)
           n == Len(e)
           l == [i \in DOMAIN e |-> MeantAt(e, i)]
           r == [i \in DOMAIN t |-> MeantAt(t, i)]
           w == Append(l, Meaning(e, x))
           P == {i \in DOMAIN e : Owed(e)[i] = 0}
           Q == {i \in DOMAIN t : Owed(t)[i] = 0}
           A == {MeantAt(e, i) : i \in DOMAIN e} \cup {Meaning(e, x)}
<1>1. /\ t \in Seq(Symbols) /\ Len(t) = n + 1 /\ n \in Nat
      /\ DOMAIN t = 1 .. n + 1 /\ DOMAIN e = 1 .. n
      /\ t[n + 1] = x /\ \A i \in 1 .. n : t[i] = e[i]
  OBVIOUS
<1>2. Alike(Owed(e), Owed(t), n) /\ Owed(t)[n + 1] = Owe1(Owed(e)[n], x)
  BY OwedOfFront
<1> HIDE DEF t
<1>3. IsOwed(Owed(e), e) /\ IsOwed(Owed(t), t)
  BY <1>1, OwedSteps
<1>4. Due(t) = Owe1(Due(e), x) /\ Due(t) = Owed(t)[n + 1]
  BY <1>1, <1>2 DEF Due
<1>5. Decoded(e) = Picked(l, P) /\ Decoded(t) = Picked(r, Q)
  BY DEF Decoded, MeantAt
<1>6. \A i \in 0 .. n : Owed(e)[i] = Owed(t)[i]
  BY <1>2 DEF Alike
<1>7. ASSUME NEW i \in 1 .. n
      PROVE  MeantAt(t, i) = MeantAt(e, i)
  <2>1. Owed(t)[i - 1] = Owed(e)[i - 1]
    BY <1>1, <1>6
  <2>2. t[i] = e[i]
    BY <1>1
  <2>3. CASE i = 1
    <3>1. Owed(t)[i - 1] = 0
      BY <1>3, <2>3 DEF IsOwed
    <3> QED
      BY <2>1, <2>2, <3>1 DEF MeantAt
  <2>4. CASE i # 1
    <3>1. i - 1 \in 1 .. n
      BY <1>1, <2>4
    <3>2. t[i - 1] = e[i - 1]
      BY <1>1, <3>1
    <3> QED
      BY <2>1, <2>2, <3>2 DEF MeantAt
  <2> QED
    BY <2>3, <2>4
<1>8. MeantAt(t, n + 1) = Meaning(e, x)
  <2>1. (n + 1) - 1 = n /\ Owed(t)[n] = Due(e)
    BY <1>1, <1>6 DEF Due
  <2>2. CASE Due(e) = 1
    <3>1. n # 0
      BY <1>3, <2>2 DEF IsOwed, Due
    <3>2. t[n] = e[n]
      BY <1>1, <3>1
    <3> QED
      BY <1>1, <2>1, <2>2, <3>2 DEF MeantAt, Meaning
  <2>3. CASE Due(e) # 1
    BY <1>1, <2>1, <2>3 DEF MeantAt, Meaning
  <2> QED
    BY <2>2, <2>3
<1>9. l \in Seq(A) /\ Len(l) = n /\ \A i \in 1 .. n : l[i] = MeantAt(e, i)
  BY <1>1
<1>10. r = [i \in 1 .. n + 1 |-> r[i]] /\ \A i \in 1 .. n + 1 : r[i] = MeantAt(t, i)
  BY <1>1
<1>11. Meaning(e, x) \in A
  OBVIOUS
<1> HIDE DEF l, r, A, P, Q
<1>12. /\ w \in Seq(A) /\ Len(w) = n + 1 /\ w[n + 1] = Meaning(e, x)
       /\ \A i \in 1 .. n : w[i] = l[i]
  BY <1>1, <1>9, <1>11
<1>13. Picked(w, Q) = IF n + 1 \in Q THEN Append(Picked(l, Q), Meaning(e, x)) ELSE Picked(l, Q)
  BY <1>9, <1>11, PickedAppend
<1> HIDE DEF w
<1>14. r = w
  <2>1. w = [i \in 1 .. n + 1 |-> w[i]]
    BY <1>1, <1>12
  <2>2. ASSUME NEW i \in 1 .. n + 1
        PROVE  r[i] = w[i]
    <3>1. i \in 1 .. n \/ i = n + 1
      BY <1>1
    <3>2. CASE i \in 1 .. n
      BY <1>7, <1>9, <1>10, <1>12, <3>2
    <3>3. CASE i = n + 1
      BY <1>8, <1>10, <1>12, <3>3
    <3> QED
      BY <3>1, <3>2, <3>3
  <2> QED
    BY <1>10, <2>1, <2>2
<1>15. Picked(l, Q) = Picked(l, P)
  <2>1. \A i \in 1 .. Len(l) : i \in Q <=> i \in P
    BY <1>1, <1>6, <1>9 DEF P, Q
  <2> QED
    BY <1>9, <2>1, PickedSame
<1>16. n + 1 \in Q <=> Due(t) = 0
  BY <1>1, <1>4 DEF Q
<1>17. Decoded(t) = IF Due(t) = 0 THEN Append(Decoded(e), Meaning(e, x)) ELSE Decoded(e)
  BY <1>5, <1>13, <1>14, <1>15, <1>16
<1>18. SymbolMore(e, x, t)
  BY <1>1, <1>4, <1>17 DEF SymbolMore
<1> QED
  BY <1>18 DEF t

LEMMA NothingSaid == Due(<<>>) = 0 /\ Decoded(<<>>) = <<>>
<1>1. <<>> \in Seq({}) /\ Len(<<>>) = 0
  OBVIOUS
<1>2. Owed(<<>>)[0] = 0
  BY <1>1, OwedSteps DEF IsOwed
<1>3. [i \in DOMAIN <<>> |-> MeantAt(<<>>, i)] = <<>>
  OBVIOUS
<1>4. Decoded(<<>>) =
        Picked([i \in DOMAIN <<>> |-> MeantAt(<<>>, i)], {i \in DOMAIN <<>> : Owed(<<>>)[i] = 0})
  BY DEF Decoded, MeantAt
<1> QED
  BY <1>1, <1>2, <1>3, <1>4, PickedNone DEF Due

\* A complete encoding of one byte behind another of others.
Says(e, t, b) ==
  t \in Seq(Symbols) /\ Due(t) = 0 /\ Decoded(t) = Append(Decoded(e), b)

LEMMA SafeSays ==
  ASSUME NEW e \in Seq(Symbols), Due(e) = 0, NEW b \in Safe
  PROVE  Says(e, Append(e, b), b)
<1>1. b \in Symbols /\ b # "%" /\ b # "+"
  BY AddressAssumption DEF Symbols
<1>2. SymbolMore(e, b, Append(e, b))
  BY <1>1, SymbolAppend
<1>3. Owe1(Due(e), b) = 0 /\ Meaning(e, b) = b
  BY <1>1 DEF Owe1, Meaning
<1> QED
  BY <1>2, <1>3 DEF SymbolMore, Says

LEMMA PlusSays ==
  ASSUME NEW e \in Seq(Symbols), Due(e) = 0
  PROVE  Says(e, Append(e, "+"), " ")
<1>1. "+" \in Symbols
  BY DEF Symbols
<1>2. SymbolMore(e, "+", Append(e, "+"))
  BY <1>1, SymbolAppend
<1>3. Owe1(Due(e), "+") = 0 /\ Meaning(e, "+") = " "
  BY DEF Owe1, Meaning
<1> QED
  BY <1>2, <1>3 DEF SymbolMore, Says

LEMMA EscapeSays ==
  ASSUME NEW e \in Seq(Symbols), Due(e) = 0, NEW b \in Escaped
  PROVE  Says(e, Append(Append(Append(e, "%"), Hex[b][1]), Hex[b][2]), b)
<1> DEFINE h == Hex[b][1]
           g == Hex[b][2]
           t == Append(e, "%")
           u == Append(t, h)
           v == Append(u, g)
<1>1. h \in Safe /\ g \in Safe /\ Hex[b] = <<h, g>>
  <2>1. Hex[b] \in Safe \X Safe
    BY AddressAssumption
  <2> QED
    BY <2>1
<1>2. "%" \in Symbols /\ h \in Symbols /\ g \in Symbols
  BY <1>1 DEF Symbols
<1> HIDE DEF h, g
<1>3. SymbolMore(e, "%", t)
  BY <1>2, SymbolAppend
<1>4. t \in Seq(Symbols) /\ Due(t) = 2 /\ Decoded(t) = Decoded(e)
  BY <1>3 DEF SymbolMore, Owe1
<1> HIDE DEF t
<1>5. SymbolMore(t, h, u)
  BY <1>2, <1>4, SymbolAppend
<1>6. u \in Seq(Symbols) /\ Due(u) = 1 /\ Decoded(u) = Decoded(e)
  BY <1>4, <1>5 DEF SymbolMore, Owe1
<1>7. u[Len(u)] = h
  BY <1>4
<1> HIDE DEF u
<1>8. SymbolMore(u, g, v)
  BY <1>2, <1>6, SymbolAppend
<1>9. v \in Seq(Symbols) /\ Due(v) = 0 /\ Decoded(v) = Append(Decoded(e), Meaning(u, g))
  BY <1>6, <1>8 DEF SymbolMore, Owe1
<1>10. Meaning(u, g) = b
  <2>1. Meaning(u, g) = CHOOSE c \in Escaped : Hex[c] = <<h, g>>
    BY <1>6, <1>7 DEF Meaning
  <2>2. \A c \in Escaped : Hex[c] = <<h, g>> => c = b
    BY <1>1, AddressAssumption
  <2> QED
    BY <1>1, <2>1, <2>2
<1> QED
  BY <1>9, <1>10 DEF Says, v, u, t, h, g

\* What is in front of enc, and the string of the block once it is complete.
Done == SubSeq(encoded, 1, enc - 1)

LEMMA StringIsDone ==
  ASSUME encoded \in Seq(Symbols), enc \in 1 .. Len(encoded), Blank(enc),
         \A j \in 1 .. enc - 1 : encoded[j] # "nul"
  PROVE  StringIn(encoded) = Done
<1> DEFINE J == {j \in 1 .. Len(encoded) : encoded[j] = "nul"}
<1>1. enc \in J /\ J \in SUBSET Nat
  BY DEF Blank
<1>2. \A j \in J : enc <= j
  <2> SUFFICES ASSUME NEW j \in J, ~(enc <= j)
               PROVE  FALSE
    OBVIOUS
  <2>1. j \in 1 .. enc - 1
    OBVIOUS
  <2> QED
    BY <2>1
<1>3. Min(J) \in J /\ \A j \in J : Min(J) <= j
  BY <1>1, MinIsLeast
<1>4. Min(J) = enc
  <2>1. Min(J) \in Nat /\ enc \in Nat /\ Min(J) <= enc /\ enc <= Min(J)
    <3> HIDE DEF J
    <3> QED
      BY <1>1, <1>2, <1>3
  <2> HIDE DEF J
  <2> QED
    BY <2>1
<1> QED
  BY <1>4 DEF StringIn, EndFrom, Done

AddressSound == AddressIInv /\ AddressIsFaithful

\* The symbols that are written say the byte that is read.
LEMMA EncodeSays ==
  ASSUME AddressSound, Encoding, NEW n \in {1, 3}, NEW symbols,
         Len(symbols) = n,
         \A i \in 1 .. n : symbols[i] \in Safe \cup {"+", "%"},
         EncodeAs(symbols),
         n = 1 => Says(Done, Append(Done, symbols[1]), Byte),
         n = 3 => Says(Done, Append(Append(Append(Done, symbols[1]), symbols[2]), symbols[3]),
                       Byte)
  PROVE  AddressIsFaithful'
<1>1. /\ encoded' \in Seq(Symbols) /\ Len(encoded') = Len(encoded)
      /\ enc' = enc + n /\ enc + n <= Len(encoded) /\ read' = read + 1
      /\ stage = "encode" /\ stage' = "encode" /\ UNCHANGED <<verb, typed>>
      /\ enc \in 1 .. 3 * read + 1
      /\ \A j \in 1 .. enc - 1 : encoded'[j] = encoded[j]
      /\ \A j \in 1 .. n : encoded'[enc + j - 1] = symbols[j]
  <2>1. AddressIInv
    BY DEF AddressSound
  <2>2. Written(n, symbols)
    BY <2>1, EncodeWrites
  <2> QED
    BY <2>2 DEF Written
<1>2. /\ encoded \in Seq(Symbols) /\ Len(encoded) \in Nat /\ read \in Nat
      /\ read < Len(typed) /\ Len(typed) \in Nat /\ typed \in Seq(Typed)
  BY <1>1 DEF AddressSound, AddressIInv, Encoding, Symbols
<1>3. /\ \A j \in 1 .. enc - 1 : encoded[j] # "nul"
      /\ Due(Done) = 0 /\ Decoded(Done) = SubSeq(typed, 1, read)
  BY <1>1 DEF AddressSound, AddressIsFaithful, Done, Due
<1>4. enc \in Nat /\ enc >= 1
  BY <1>1, <1>2
<1>5. /\ Done \in Seq(Symbols) /\ Len(Done) = enc - 1
      /\ \A j \in 1 .. enc - 1 : Done[j] = encoded[j]
  BY <1>1, <1>2, <1>4 DEF Done
<1>6. /\ Done' \in Seq(Symbols) /\ Len(Done') = enc + n - 1
      /\ \A j \in 1 .. enc + n - 1 : Done'[j] = encoded'[j]
  BY <1>1, <1>2, <1>4 DEF Done
<1>7. \A j \in 1 .. n : symbols[j] \in Symbols /\ symbols[j] # "nul"
  BY AddressAssumption DEF Symbols
<1>8. \A j \in 1 .. enc' - 1 : encoded'[j] # "nul"
  <2> SUFFICES ASSUME NEW j \in 1 .. enc' - 1
               PROVE  encoded'[j] # "nul"
    OBVIOUS
  <2>1. CASE j <= enc - 1
    BY <1>1, <1>3, <1>4, <2>1
  <2>2. CASE j > enc - 1
    <3>1. j - enc + 1 \in 1 .. n /\ enc + (j - enc + 1) - 1 = j
      BY <1>1, <1>4, <2>2
    <3> QED
      BY <1>1, <1>7, <3>1
  <2> QED
    BY <1>4, <2>1, <2>2
<1>9. Says(Done, Done', Byte)
  <2>1. CASE n = 1
    <3> DEFINE t == Append(Done, symbols[1])
    <3>1. symbols[1] \in Symbols /\ encoded'[enc] = symbols[1]
      BY <1>1, <1>4, <1>7, <2>1
    <3>2. /\ t \in Seq(Symbols) /\ Len(t) = enc /\ t[enc] = symbols[1]
          /\ \A j \in 1 .. enc - 1 : t[j] = Done[j]
      BY <1>4, <1>5, <3>1
    <3> HIDE DEF t
    <3>3. ASSUME NEW j \in 1 .. enc
          PROVE  Done'[j] = t[j]
      <4>1. j \in 1 .. enc - 1 \/ j = enc
        BY <1>4
      <4> QED
        BY <1>1, <1>4, <1>5, <1>6, <2>1, <3>1, <3>2, <4>1
    <3>4. Done' = t
      BY <1>4, <1>6, <2>1, <3>2, <3>3
    <3> QED
      BY <2>1, <3>4 DEF t
  <2>2. CASE n = 3
    <3> DEFINE t == Append(Append(Append(Done, symbols[1]), symbols[2]), symbols[3])
    <3>1. /\ symbols[1] \in Symbols /\ symbols[2] \in Symbols /\ symbols[3] \in Symbols
          /\ encoded'[enc] = symbols[1] /\ encoded'[enc + 1] = symbols[2]
          /\ encoded'[enc + 2] = symbols[3]
      BY <1>1, <1>4, <1>7, <2>2
    <3>2. /\ t \in Seq(Symbols) /\ Len(t) = enc + 2
          /\ t[enc] = symbols[1] /\ t[enc + 1] = symbols[2] /\ t[enc + 2] = symbols[3]
          /\ \A j \in 1 .. enc - 1 : t[j] = Done[j]
      BY <1>4, <1>5, <3>1
    <3> HIDE DEF t
    <3>3. ASSUME NEW j \in 1 .. enc + 2
          PROVE  Done'[j] = t[j]
      <4>1. j \in 1 .. enc - 1 \/ j = enc \/ j = enc + 1 \/ j = enc + 2
        BY <1>4
      <4> QED
        BY <1>1, <1>4, <1>5, <1>6, <2>2, <3>1, <3>2, <4>1
    <3>4. Done' = t
      BY <1>4, <1>6, <2>2, <3>2, <3>3
    <3> QED
      BY <2>2, <3>4 DEF t
  <2> QED
    BY <2>1, <2>2
<1>10. Append(SubSeq(typed, 1, read), Byte) = SubSeq(typed, 1, read + 1)
  BY <1>2 DEF Byte
<1>11. Due(Done') = 0 /\ Decoded(Done') = SubSeq(typed, 1, read + 1)
  BY <1>3, <1>9, <1>10 DEF Says
<1> QED
  BY <1>1, <1>8, <1>11 DEF AddressIsFaithful, Done, Due

\* The string of the block is all of what the argument is encoded as.
LEMMA EncodingSays ==
  ASSUME AddressSound, EncodingEnds
  PROVE  AddressIsFaithful'
<1>1. /\ stage = "encode" /\ stage' = "print" /\ read = Len(typed)
      /\ UNCHANGED <<verb, typed, read, encoded, enc, url, asked>>
  BY DEF EncodingEnds
<1>2. /\ encoded \in Seq(Symbols) /\ Blank(enc) /\ typed \in Seq(Typed)
      /\ enc \in 1 .. 3 * read + 1 /\ Len(encoded) = 3 * Len(typed) + 1
  BY <1>1 DEF AddressSound, AddressIInv, Symbols
<1>3. enc \in 1 .. Len(encoded)
  BY <1>1, <1>2
<1>4. /\ \A j \in 1 .. enc - 1 : encoded[j] # "nul"
      /\ Decoded(Done) = SubSeq(typed, 1, Len(typed))
  BY <1>1 DEF AddressSound, AddressIsFaithful, Done
<1>5. Decoded(Done) = typed
  BY <1>2, <1>4
<1>6. StringIn(encoded) = Done
  BY <1>2, <1>3, <1>4, StringIsDone
<1>7. StringIn(encoded)' = StringIn(encoded)
  BY <1>1 DEF StringIn, EndFrom
<1> QED
  BY <1>1, <1>5, <1>6, <1>7 DEF AddressIsFaithful

\* The other steps.
LEMMA AddressIsKept ==
  ASSUME AddressSound, Call \/ PrintUrl \/ ParseUrl \/ Answer
  PROVE  AddressIsFaithful'
<1>1. CASE Call
  <2>1. /\ stage' = "encode" /\ read' = 0 /\ enc' = 1
        /\ typed' \in Seq(Typed) /\ Len(typed') \in Nat
        /\ encoded' = [i \in 1 .. 3 * Len(typed') + 1 |-> "nul"]
    <3>1. typed' \in Arguments /\ Arguments \subseteq Seq(Typed)
      BY <1>1, AddressAssumption DEF Call
    <3>2. typed' \in Seq(Typed)
      BY <3>1, Zenon
    <3> QED
      BY <1>1, <3>2 DEF Call
  <2>2. Done' = <<>> /\ SubSeq(typed', 1, 0) = <<>>
    <3>1. encoded' \in Seq({"nul"})
      BY <2>1
    <3> QED
      BY <2>1, <3>1 DEF Done
  <2>3. \A j \in 1 .. enc' - 1 : encoded'[j] # "nul"
    BY <2>1
  <2> QED
    <3>1. Due(Done') = 0 /\ Decoded(Done') = SubSeq(typed', 1, read')
      BY <2>1, <2>2, NothingSaid
    <3> QED
      BY <2>1, <2>3, <3>1 DEF AddressIsFaithful, Done, Due
<1>2. CASE PrintUrl
  <2>1. stage = "print" /\ UNCHANGED <<verb, typed, read, encoded, enc, asked>>
    BY <1>2 DEF PrintUrl
  <2>2. \/ stage' = "ask" /\ url' = StringIn(encoded)
        \/ stage' = "undefined"
    BY <1>2 DEF PrintUrl
  <2>3. StringIn(encoded)' = StringIn(encoded)
    BY <2>1 DEF StringIn, EndFrom
  <2>4. StringIn(encoded) \in Seq(Symbols)
    <3> DEFINE J == {j \in 1 .. Len(encoded) : encoded[j] = "nul"}
    <3>1. J \in SUBSET Nat /\ J # {} /\ encoded \in Seq(Symbols)
      BY <2>1 DEF AddressSound, AddressIInv, Symbols
    <3>2. Min(J) \in J
      BY <3>1, MinIsLeast
    <3>3. EndFrom(encoded, 1) \in 1 .. Len(encoded)
      BY <3>2 DEF EndFrom
    <3> QED
      BY <3>1, <3>3 DEF StringIn
  <2>5. Decoded(StringIn(encoded)) = typed
    BY <2>1 DEF AddressSound, AddressIsFaithful
  <2> QED
    BY <2>1, <2>2, <2>3, <2>4, <2>5 DEF AddressIsFaithful, Symbols
<1>3. CASE ParseUrl
  <2>1. /\ stage = "ask" /\ stage' = "asked"
        /\ asked' = SubSeq(url, 1, Min({Len(url), MaxPath - PathLen[verb]}))
        /\ UNCHANGED <<verb, typed, read, encoded, enc, url>>
    BY <1>3 DEF ParseUrl
  <2>2. StringIn(encoded)' = StringIn(encoded)
    BY <2>1 DEF StringIn, EndFrom
  <2> QED
    BY <2>1, <2>2 DEF AddressSound, AddressIsFaithful
<1>4. CASE Answer
  BY <1>4 DEF Answer, AddressIsFaithful
<1> QED
  BY <1>1, <1>2, <1>3, <1>4

LEMMA AlwaysAddressSound == AddressSpec => []AddressSound
<1>1. AddressInit => AddressIsFaithful
  BY DEF AddressInit, AddressIsFaithful
<1>2. AddressSound /\ [AddressNext]_addressVars => AddressIsFaithful'
  <2> SUFFICES ASSUME AddressSound, [AddressNext]_addressVars
               PROVE  AddressIsFaithful'
    OBVIOUS
  <2>1. stage = "encode" => Done \in Seq(Symbols) /\ Due(Done) = 0
    <3> SUFFICES ASSUME stage = "encode"
                 PROVE  Done \in Seq(Symbols) /\ Due(Done) = 0
      OBVIOUS
    <3>1. /\ encoded \in Seq(Symbols) /\ enc \in 1 .. 3 * read + 1 /\ read \in 0 .. Len(typed)
          /\ typed \in Seq(Typed) /\ Len(encoded) = 3 * Len(typed) + 1
      BY DEF AddressSound, AddressIInv, Symbols
    <3>2. enc - 1 \in 0 .. Len(encoded)
      BY <3>1
    <3> QED
      BY <3>1, <3>2 DEF AddressSound, AddressIsFaithful, Done, Due
  <2>2. CASE EncodePlain
    <3>1. /\ Encoding /\ Byte \in Safe /\ EncodeAs(<<Byte>>)
          /\ Len(<<Byte>>) = 1 /\ <<Byte>>[1] = Byte
      BY <2>2 DEF EncodePlain
    <3>2. \A i \in 1 .. 1 : <<Byte>>[i] \in Safe \cup {"+", "%"}
      BY <3>1
    <3>3. Says(Done, Append(Done, Byte), Byte)
      BY <2>1, <3>1, SafeSays DEF Encoding
    <3> QED
      BY <3>1, <3>2, <3>3, EncodeSays
  <2>3. CASE EncodeSpace
    <3> DEFINE plus == <<"+">>
    <3>1. Encoding /\ Byte = " " /\ EncodeAs(plus)
      BY <2>3 DEF EncodeSpace
    <3>2. Len(plus) = 1 /\ plus[1] = "+" /\ \A i \in 1 .. 1 : plus[i] \in Safe \cup {"+", "%"}
      OBVIOUS
    <3> HIDE DEF plus
    <3>3. Says(Done, Append(Done, plus[1]), Byte)
      BY <2>1, <3>1, <3>2, PlusSays DEF Encoding
    <3>4. 1 \in {1, 3} /\ 1 # 3
      OBVIOUS
    <3> QED
      BY <3>1, <3>2, <3>3, <3>4, EncodeSays, Zenon
  <2>4. CASE Escape
    <3> DEFINE triple == <<"%", Hex[Byte][1], Hex[Byte][2]>>
    <3>1. Encoding /\ Byte \in Escaped /\ EncodeAs(triple)
      BY <2>4 DEF Escape
    <3>2. Hex[Byte] \in Safe \X Safe
      BY <3>1, AddressAssumption
    <3>3. Hex[Byte][1] \in Safe /\ Hex[Byte][2] \in Safe
      BY <3>2
    <3>4. /\ Len(triple) = 3 /\ \A i \in 1 .. 3 : triple[i] \in Safe \cup {"+", "%"}
          /\ triple[1] = "%" /\ triple[2] = Hex[Byte][1] /\ triple[3] = Hex[Byte][2]
      BY <3>3
    <3> HIDE DEF triple
    <3>5. Says(Done, Append(Append(Append(Done, triple[1]), triple[2]), triple[3]), Byte)
      BY <2>1, <3>1, <3>4, EscapeSays DEF Encoding
    <3> QED
      BY <3>1, <3>4, <3>5, EncodeSays
  <2>5. CASE EncodingEnds
    BY <2>5, EncodingSays
  <2>6. CASE UNCHANGED addressVars
    BY <2>6 DEF addressVars, AddressSound, AddressIsFaithful, StringIn, EndFrom
  <2> QED
    BY <2>2, <2>3, <2>4, <2>5, <2>6, AddressIsKept DEF AddressNext, AddressOver
<1> QED
  BY <1>1, <1>2, AlwaysAddressIInv, PTL DEF AddressSpec, AddressSound

\* Whatever a peer types, of whatever length: the service is asked for what was typed
\* if the path is no longer than parse_url keeps, and for a beginning of its encoding
\* if it is (urlencode.c 7-28, https.c 83-106).
THEOREM AsksForTheWholeArgument == AddressSpec => []AsksForTheArgument
<1>1. AddressSound => AsksForTheArgument
  <2> SUFFICES ASSUME AddressSound, stage = "asked"
               PROVE  /\ PathLen[verb] + Len(StringIn(encoded)) <= MaxPath => Decoded(asked) = typed
                      /\ IsPrefix(asked, StringIn(encoded))
    BY DEF AsksForTheArgument
  <2> DEFINE left == MaxPath - PathLen[verb]
             m == Min({Len(url), left})
  <2>1. /\ Decoded(url) = typed /\ url = StringIn(encoded) /\ url \in Seq(Symbols)
        /\ asked = SubSeq(url, 1, m)
    BY DEF AddressSound, AddressIsFaithful, Symbols
  <2>2. left \in Nat /\ PathLen[verb] \in 0 .. 19 /\ MaxPath \in Nat
    <3>1. PathLen[verb] \in 0 .. 19
      BY DEF PathLen, AddressSound, AddressIInv
    <3>2. MaxPath \in Nat /\ MaxPath >= 19
      BY AddressAssumption
    <3> QED
      BY <3>1, <3>2
  <2>3. Len(url) \in Nat
    BY <2>1
  <2>4. m \in {Len(url), left} /\ m <= Len(url) /\ m <= left
    <3>1. {Len(url), left} \in SUBSET Nat /\ {Len(url), left} # {}
      BY <2>2, <2>3
    <3>2. m \in {Len(url), left} /\ \A x \in {Len(url), left} : m <= x
      BY <3>1, MinIsLeast, Zenon
    <3> HIDE DEF m, left
    <3> QED
      BY <3>2
  <2>5. m \in Nat
    <3> HIDE DEF m, left
    <3> QED
      BY <2>2, <2>3, <2>4
  <2>6. IsPrefix(asked, url)
    <3> HIDE DEF m
    <3>1. Len(asked) = m /\ asked \in Seq(Symbols)
      BY <2>1, <2>3, <2>4, <2>5
    <3>2. SubSeq(asked, 1, m) = asked
      BY <3>1
    <3> QED
      BY <2>1, <2>3, <2>4, <2>5, <3>1, <3>2 DEF IsPrefix
  <2>7. PathLen[verb] + Len(url) <= MaxPath => asked = url
    <3> SUFFICES ASSUME PathLen[verb] + Len(url) <= MaxPath
                 PROVE  asked = url
      OBVIOUS
    <3>1. Len(url) <= left
      <4> DEFINE p == PathLen[verb]
      <4>1. p \in 0 .. 19 /\ p + Len(url) <= MaxPath
        BY <2>2
      <4> HIDE DEF p
      <4>2. Len(url) <= MaxPath - p
        BY <2>2, <2>3, <4>1
      <4> QED
        BY <4>2 DEF p
    <3>2. m = Len(url)
      <4> HIDE DEF m, left
      <4> QED
        BY <2>2, <2>3, <2>4, <3>1
    <3> HIDE DEF m
    <3> QED
      BY <2>1, <3>2
  <2> HIDE DEF m, left
  <2> QED
    BY <2>1, <2>6, <2>7
<1> QED
  BY <1>1, AlwaysAddressSound, PTL

\* A command is its two parts, one after the other: what is proved of each holds of
\* the whole (commands.c 24-54).
THEOREM CommandIsBoth == CommandSpec => Spec /\ AddressSpec
<1>1. CommandInit => Init /\ AddressInit
  BY DEF CommandInit
<1>2. [CommandNext]_commandVars => [Next]_vars /\ [AddressNext]_addressVars
  BY DEF CommandNext, commandVars
<1> QED
  BY <1>1, <1>2, PTL DEF CommandSpec, Spec, AddressSpec
=============================================================================

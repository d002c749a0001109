------------------------- MODULE ClientBufferProofs -------------------------
(***************************************************************************)
(* That no chunk, however it is cut and whatever parse_client_buffer       *)
(* returns when it falls off its end, makes the client record or the       *)
(* parser leave the memory they were given.                                *)
(***************************************************************************)
EXTENDS ClientBuffer, InductionLemmas

\* The search of the parser stays in the string or ends right behind it.
LEMMA FirstInside ==
  ASSUME NEW T, NEW S, NEW s \in Seq(T)
  PROVE  First(S, s) \in 1 .. Len(s) + 1
<1> DEFINE I == {i \in 1 .. Len(s) : s[i] \in S}
<1>1. Len(s) \in Nat
  OBVIOUS
<1>2. I \in SUBSET Nat
  BY <1>1
<1>3. SelectInSeq(s, LAMBDA b : b \in S) = IF I # {} THEN Min(I) ELSE 0
  BY DEF SelectInSeq
<1>4. CASE I = {}
  BY <1>1, <1>3, <1>4 DEF First
<1>5. CASE I # {}
  <2>1. Min(I) \in I
    BY <1>2, <1>5, MinIsLeast
  <2>2. Min(I) \in 1 .. Len(s) /\ Min(I) # 0
    BY <1>1, <2>1
  <2> QED
    BY <1>1, <1>3, <1>5, <2>2 DEF First
<1> QED
  BY <1>4, <1>5

\* It stops at the first byte it looks for.
LEMMA FirstFound ==
  ASSUME NEW T, NEW S, NEW s \in Seq(T)
  PROVE  /\ \A i \in 1 .. First(S, s) - 1 : s[i] \notin S
         /\ First(S, s) <= Len(s) => s[First(S, s)] \in S
<1> DEFINE I == {i \in 1 .. Len(s) : s[i] \in S}
<1>1. Len(s) \in Nat
  OBVIOUS
<1>2. I \in SUBSET Nat
  BY <1>1
<1>3. SelectInSeq(s, LAMBDA b : b \in S) = IF I # {} THEN Min(I) ELSE 0
  BY <1>1 DEF SelectInSeq
<1>4. CASE I = {}
  <2>1. First(S, s) = Len(s) + 1
    BY <1>3, <1>4 DEF First
  <2>2. \A i \in 1 .. Len(s) : s[i] \notin S
    BY <1>4
  <2> QED
    BY <1>1, <2>1, <2>2
<1>5. CASE I # {}
  <2>1. Min(I) \in I /\ \A x \in I : Min(I) <= x
    BY <1>2, <1>5, MinIsLeast
  <2>2. First(S, s) = Min(I)
    <3>1. Min(I) \in 1 .. Len(s)
      BY <2>1
    <3>2. Min(I) # 0
      BY <1>1, <3>1
    <3> HIDE DEF I
    <3> QED
      BY <1>3, <1>5, <3>2 DEF First
  <2>3. First(S, s) \in 1 .. Len(s) /\ s[First(S, s)] \in S
    BY <2>1, <2>2
  <2>4. ASSUME NEW i \in 1 .. First(S, s) - 1
        PROVE  s[i] \notin S
    <3>1. i \in 1 .. Len(s) /\ ~(First(S, s) <= i)
      BY <1>1, <2>3
    <3>2. i \notin I
      BY <2>1, <2>2, <3>1
    <3> QED
      BY <3>1, <3>2
  <2> QED
    BY <2>3, <2>4
<1> QED
  BY <1>4, <1>5

\* What strlen sees of the copy is a part of the buffer.
LEMMA TextInside ==
  ASSUME buffer \in Seq(Bytes)
  PROVE  Text \in Seq(Bytes) /\ Len(Text) <= Len(buffer)
<1>1. First({"nul"}, buffer) \in 1 .. Len(buffer) + 1
  BY FirstInside
<1> QED
  BY <1>1 DEF Text, UpTo

\* The next delimiter is not behind the end of what is left to parse.
LEMMA LineInside ==
  ASSUME TypeOK, offset <= Len(Text), HasLine
  PROVE  /\ LineLen \in Nat
         /\ offset + LineLen + 1 <= Len(Text)
<1>1. Text \in Seq(Bytes) /\ Len(Text) \in Nat
  BY TextInside DEF TypeOK
<1>2. Rest \in Seq(Bytes) /\ Len(Rest) = Len(Text) - offset
  BY <1>1 DEF Rest, TypeOK
<1>3. First(Delimiters, Rest) \in 1 .. Len(Rest) + 1
  BY <1>2, FirstInside
<1> QED
  BY <1>1, <1>2, <1>3 DEF LineLen, HasLine, TypeOK

-----------------------------------------------------------------------------

\* A chunk is appended: the buffer grows when it must.
LEMMA DeliverKeeps ==
  ASSUME SizesAreNumbers, IInv, NEW chunk \in Chunks, Deliver(chunk)
  PROVE  IInv'
<1>1. chunk \in Seq(Bytes) /\ Len(chunk) \in Nat
  BY DEF Chunks
<1>2. /\ buffer' = buffer \o chunk /\ capacity' = Grown(Len(chunk))
      /\ received' = received \o chunk /\ offset' = 0 /\ pc' = "parse"
      /\ tidy' = tidy
  BY DEF Deliver
<1>3. buffer' \in Seq(Bytes) /\ Len(buffer') = Len(buffer) + Len(chunk)
  BY <1>1, <1>2 DEF IInv, TypeOK
<1>4. capacity' \in Nat /\ Len(buffer') <= capacity'
  BY <1>1, <1>2, <1>3 DEF SizesAreNumbers, IInv, TypeOK, BufferFits, Grown
<1>5. received' \in Seq(Bytes)
  BY <1>1, <1>2 DEF IInv, TypeOK
<1>6. TypeOK'
  BY <1>2, <1>3, <1>4, <1>5 DEF IInv, TypeOK
<1>7. Text' \in Seq(Bytes)
  <2>1. First({"nul"}, buffer') \in 1 .. Len(buffer') + 1
    BY <1>3, FirstInside
  <2> QED
    BY <1>3, <2>1 DEF Text, UpTo
<1> QED
  BY <1>2, <1>4, <1>6, <1>7 DEF IInv, BufferFits

\* An iteration of the parser moves its offset behind a delimiter of the text.
LEMMA ScanKeeps ==
  ASSUME IInv, EmptyLine \/ CommandLine
  PROVE  IInv'
<1>1. /\ pc = "parse" /\ HasLine
      /\ offset' = offset + LineLen + 1
      /\ UNCHANGED <<pc, buffer, capacity, received, tidy>>
  <2>1. CASE EmptyLine
    BY <2>1 DEF EmptyLine, IInv, TypeOK
  <2>2. CASE CommandLine
    BY <2>2 DEF CommandLine
  <2> QED
    BY <2>1, <2>2
<1>2. LineLen \in Nat /\ offset + LineLen + 1 <= Len(Text)
  BY <1>1, LineInside DEF IInv, BufferFits
<1>3. offset' \in Nat /\ offset' <= Len(Text)
  BY <1>1, <1>2 DEF IInv, TypeOK
<1>4. TypeOK'
  BY <1>1, <1>3 DEF IInv, TypeOK
<1>5. Text' = Text
  BY <1>1 DEF Text
<1> QED
  BY <1>1, <1>3, <1>4, <1>5 DEF IInv, BufferFits

\* Whatever number of bytes is popped, the buffer only becomes shorter.
LEMMA PopKeeps ==
  ASSUME SizesAreNumbers, IInv, PopUsed
  PROVE  IInv'
<1>1. PICK used \in Returned :
        buffer' = SubSeq(buffer, 1, IF used < Len(buffer) THEN Len(buffer) - used ELSE 0)
  BY DEF PopUsed
<1>2. /\ pc' = "idle" /\ tidy' \in BOOLEAN
      /\ UNCHANGED <<capacity, offset, received>>
  BY DEF PopUsed
<1>3. used \in Nat /\ Len(buffer) \in Nat /\ buffer \in Seq(Bytes)
  BY DEF SizesAreNumbers, Returned, IInv, TypeOK
<1>4. buffer' \in Seq(Bytes) /\ Len(buffer') <= Len(buffer) /\ Len(buffer') \in Nat
  BY <1>1, <1>3
<1> QED
  BY <1>2, <1>3, <1>4 DEF IInv, TypeOK, BufferFits

LEMMA AlwaysIInv == ASSUME SizesAreNumbers PROVE Spec => []IInv
<1>1. Init => IInv
  BY DEF SizesAreNumbers, Init, IInv, TypeOK, BufferFits
<1>2. IInv /\ [Next]_vars => IInv'
  <2> SUFFICES ASSUME IInv, [Next]_vars
               PROVE  IInv'
    OBVIOUS
  <2>1. ASSUME NEW chunk \in Chunks, Deliver(chunk) PROVE IInv'
    BY <2>1, DeliverKeeps
  <2>2. CASE EmptyLine \/ CommandLine
    BY <2>2, ScanKeeps
  <2>3. CASE PopUsed
    BY <2>3, PopKeeps
  <2>4. CASE UNCHANGED vars
    <3>1. Text' = Text
      BY <2>4 DEF vars, Text
    <3> QED
      BY <2>4, <3>1 DEF vars, IInv, TypeOK, BufferFits
  <2> QED
    BY <2>1, <2>2, <2>3, <2>4 DEF Next, Over
<1> QED
  BY <1>1, <1>2, PTL DEF Spec

\* For every alphabet, capacity, growth and stray return value: positions are
\* natural numbers and the buffer holds bytes the peer sent (telnet.c 25-92).
THEOREM TypeCorrect == ASSUME SizesAreNumbers PROVE Spec => []TypeOK
<1>1. IInv => TypeOK
  BY DEF IInv
<1> QED
  BY <1>1, AlwaysIInv, PTL

\* For every alphabet, capacity, growth and stray return value: the bytes of
\* the client record fit its block and the parser's offset its string
\* (telnet.c 39-47 and 76-92, parsing.c 29-62).
THEOREM InBounds == ASSUME SizesAreNumbers PROVE Spec => []BufferFits
<1>1. IInv => BufferFits
  BY DEF IInv
<1> QED
  BY <1>1, AlwaysIInv, PTL

-----------------------------------------------------------------------------

\* The string that a buffer with a NUL in front is has no bytes.
LEMMA NulEmptiesText ==
  ASSUME buffer \in Seq(Bytes), buffer # <<>>, Head(buffer) = "nul"
  PROVE  Text = <<>>
<1> DEFINE I == {i \in 1 .. Len(buffer) : buffer[i] \in {"nul"}}
<1>1. Len(buffer) \in Nat \ {0} /\ buffer[1] = "nul"
  OBVIOUS
<1>2. I \in SUBSET Nat /\ 1 \in I /\ \A i \in I : 1 <= i
  BY <1>1
<1>3. Min(I) = 1
  <2>1. Min(I) \in I /\ \A i \in I : Min(I) <= i
    BY <1>2, MinIsLeast
  <2>2. Min(I) \in Nat /\ Min(I) <= 1 /\ 1 <= Min(I)
    BY <1>2, <2>1
  <2> QED
    BY <2>2
<1>4. SelectInSeq(buffer, LAMBDA b : b \in {"nul"}) = IF I # {} THEN Min(I) ELSE 0
  BY DEF SelectInSeq
<1>5. First({"nul"}, buffer) = 1
  BY <1>2, <1>3, <1>4 DEF First
<1> QED
  BY <1>1, <1>5 DEF Text, UpTo

\* For every alphabet, capacity and growth, in a build in which the end of
\* parse_client_buffer returns the offset: behind a NUL that has become the
\* first byte nothing runs and nothing is removed any more (telnet.c 94-110).
THEOREM NulHides == ASSUME SizesAreNumbers, Strays = {} PROVE Spec => NulDeafens
<1> DEFINE Kept == buffer # <<>> /\ Head(buffer) = "nul" =>
                     calls' = calls /\ IsPrefix(buffer, buffer')
<1>1. IInv /\ [Next]_vars => [Kept]_vars
  <2> SUFFICES ASSUME IInv, Next, buffer # <<>>, Head(buffer) = "nul"
               PROVE  calls' = calls /\ IsPrefix(buffer, buffer')
    OBVIOUS
  <2>1. Text = <<>> /\ buffer \in Seq(Bytes) /\ Len(buffer) \in Nat \ {0}
    BY NulEmptiesText DEF IInv, TypeOK
  <2>2. SubSeq(buffer, 1, Len(buffer)) = buffer
    BY <2>1
  <2>3. pc = "parse" => offset = 0 /\ ~HasLine
    <3>1. pc = "parse" => offset = 0 /\ Rest = <<>>
      BY <2>1 DEF IInv, TypeOK, BufferFits, Rest
    <3>2. pc = "parse" => Rest \in Seq(Bytes) /\ Len(Rest) = 0
      BY <3>1
    <3>3. pc = "parse" => First(Delimiters, Rest) \in 1 .. Len(Rest) + 1
      BY <3>2, FirstInside
    <3> QED
      BY <3>1, <3>2, <3>3 DEF HasLine
  <2>4. ASSUME NEW chunk \in Chunks, Deliver(chunk)
        PROVE  calls' = calls /\ IsPrefix(buffer, buffer')
    <3>1. chunk \in Seq(Bytes) /\ Len(chunk) \in Nat
      BY DEF Chunks
    <3>2. buffer' = buffer \o chunk /\ calls' = calls
      BY <2>4 DEF Deliver
    <3>3. SubSeq(buffer', 1, Len(buffer)) = buffer /\ Len(buffer) <= Len(buffer')
      BY <2>1, <3>1, <3>2
    <3> QED
      BY <2>2, <3>2, <3>3 DEF IsPrefix
  <2>5. CASE PopUsed
    <3>1. PICK used \in Returned :
            buffer' = SubSeq(buffer, 1, IF used < Len(buffer) THEN Len(buffer) - used ELSE 0)
      BY <2>5 DEF PopUsed
    <3>2. calls' = calls /\ used = 0
      BY <2>3, <2>5, <3>1 DEF PopUsed, Returned
    <3>3. buffer' = buffer
      BY <2>1, <2>2, <3>1, <3>2
    <3> QED
      BY <2>1, <2>2, <3>2, <3>3 DEF IsPrefix
  <2>6. CASE UNCHANGED vars
    BY <2>1, <2>2, <2>6 DEF vars, IsPrefix
  <2>7. ~EmptyLine /\ ~CommandLine
    BY <2>3 DEF EmptyLine, CommandLine
  <2> QED
    BY <2>4, <2>5, <2>6, <2>7 DEF Next, Over
<1> QED
  BY <1>1, AlwaysIInv, PTL DEF Spec, NulDeafens

-----------------------------------------------------------------------------
(* Lines in a stream                                                         *)

\* The bytes behind the last delimiter.
LastEnd(s) == LET ends == LineEnds(s) IN IF ends = <<>> THEN 0 ELSE ends[Len(ends)]
Unfinished(s) == SubSeq(s, LastEnd(s) + 1, Len(s))

\* One more byte ends a line or does not.
LEMMA EndsAppend ==
  ASSUME NEW s \in Seq(Bytes), NEW b \in Bytes
  PROVE  /\ LineEnds(s) \in Seq(1 .. Len(s))
         /\ LineEnds(Append(s, b)) =
              IF b \in Delimiters THEN Append(LineEnds(s), Len(s) + 1) ELSE LineEnds(s)
<1> DEFINE t == Append(s, b)
           n == Len(s)
           place(u) == [i \in DOMAIN u |-> i]
           P == {i \in DOMAIN s : s[i] \in Delimiters}
           Q == {i \in DOMAIN t : t[i] \in Delimiters}
<1>1. /\ Len(t) = n + 1 /\ n \in Nat /\ t[n + 1] = b /\ \A i \in 1 .. n : t[i] = s[i]
      /\ DOMAIN t = 1 .. n + 1 /\ DOMAIN s = 1 .. n
  OBVIOUS
<1>2. place(s) \in Seq(1 .. n) /\ Len(place(s)) = n /\ place(s) \in Seq(Nat)
  BY <1>1
<1>3. place(t) = Append(place(s), n + 1)
  <2> HIDE DEF t
  <2> QED
    BY <1>1, <1>2
<1>4. LineEnds(s) = Picked(place(s), P) /\ LineEnds(t) = Picked(place(t), Q)
  BY DEF LineEnds
<1>5. LineEnds(s) \in Seq(1 .. n)
  <2> HIDE DEF P, place
  <2> QED
    BY <1>2, <1>4, PickedType
<1>6. n + 1 \in Q <=> b \in Delimiters
  <2> HIDE DEF t
  <2> QED
    BY <1>1
<1>7. Picked(place(s), Q) = Picked(place(s), P)
  <2>1. \A i \in 1 .. n : i \in Q <=> i \in P
    <3> HIDE DEF t
    <3> QED
      BY <1>1
  <2>2. \A i \in 1 .. Len(place(s)) : i \in Q <=> i \in P
    BY <1>2, <2>1
  <2> HIDE DEF P, Q, place
  <2> QED
    BY <1>2, <2>2, PickedSame
<1>8. Picked(Append(place(s), n + 1), Q) =
        IF n + 1 \in Q THEN Append(Picked(place(s), Q), n + 1) ELSE Picked(place(s), Q)
  <2> DEFINE p == place(s)
  <2>1. p \in Seq(Nat) /\ Len(p) = n /\ n + 1 \in Nat
    BY <1>1, <1>2
  <2> HIDE DEF p, Q
  <2>2. Picked(Append(p, n + 1), Q) =
          IF Len(p) + 1 \in Q THEN Append(Picked(p, Q), n + 1) ELSE Picked(p, Q)
    BY <2>1, PickedAppend
  <2> QED
    BY <2>1, <2>2 DEF p
<1> HIDE DEF P, Q, place, t
<1> QED
  BY <1>3, <1>4, <1>5, <1>6, <1>7, <1>8 DEF t

LEMMA LastEndInside ==
  ASSUME NEW s \in Seq(Bytes)
  PROVE  LastEnd(s) \in 0 .. Len(s)
<1>1. LineEnds(s) \in Seq(1 .. Len(s)) /\ Len(s) \in Nat
  <2>1. CASE s = <<>>
    <3>1. [i \in DOMAIN s |-> i] = <<>>
      BY <2>1
    <3>2. LineEnds(s) = <<>>
      BY <3>1, PickedNone DEF LineEnds
    <3> QED
      BY <3>2
  <2>2. CASE s # <<>>
    <3>1. s \in Seq(Bytes) /\ s[1] \in Bytes
      BY <2>2
    <3> QED
      BY <3>1, EndsAppend
  <2> QED
    BY <2>1, <2>2
<1>2. CASE LineEnds(s) = <<>>
  BY <1>1, <1>2 DEF LastEnd
<1>3. CASE LineEnds(s) # <<>>
  <2> DEFINE e == LineEnds(s)
  <2>1. e \in Seq(1 .. Len(s)) /\ e # <<>>
    BY <1>1, <1>3
  <2> HIDE DEF e
  <2>2. e[Len(e)] \in 1 .. Len(s)
    BY <2>1
  <2> QED
    BY <1>1, <1>3, <2>2 DEF LastEnd, e
<1> QED
  BY <1>2, <1>3

\* Where the k-th line of s begins.
Start(s, k) == IF k = 1 THEN 1 ELSE LineEnds(s)[k - 1] + 1

LEMMA LinesAppend ==
  ASSUME NEW s \in Seq(Bytes), NEW b \in Bytes
  PROVE  /\ LinesOf(s) \in Seq(Seq(Bytes))
         /\ LinesOf(Append(s, b)) =
              IF b \in Delimiters THEN Append(LinesOf(s), Unfinished(s)) ELSE LinesOf(s)
<1> DEFINE t == Append(s, b)
           n == Len(s)
           e == LineEnds(s)
           f == LineEnds(t)
           m == Len(e)
<1>1. /\ Len(t) = n + 1 /\ n \in Nat /\ t \in Seq(Bytes)
      /\ \A i \in 1 .. n + 1, j \in 0 .. n : SubSeq(t, i, j) = SubSeq(s, i, j)
  OBVIOUS
<1>2. /\ e \in Seq(1 .. n)
      /\ f = IF b \in Delimiters THEN Append(e, n + 1) ELSE e
  BY EndsAppend
<1>3. /\ LinesOf(s) = [k \in DOMAIN e |-> SubSeq(s, Start(s, k), e[k] - 1)]
      /\ LinesOf(t) = [k \in DOMAIN f |-> SubSeq(t, Start(t, k), f[k] - 1)]
  BY DEF LinesOf, Start
<1>4. /\ LastEnd(s) = (IF e = <<>> THEN 0 ELSE e[Len(e)])
      /\ Unfinished(s) = SubSeq(s, LastEnd(s) + 1, n)
      /\ LastEnd(s) \in 0 .. n
  BY LastEndInside DEF LastEnd, Unfinished
<1>5. /\ \A k \in DOMAIN e : Start(s, k) = IF k = 1 THEN 1 ELSE e[k - 1] + 1
      /\ \A k \in DOMAIN f : Start(t, k) = IF k = 1 THEN 1 ELSE f[k - 1] + 1
  BY DEF Start
<1> HIDE DEF t, e, f
<1>6. m \in Nat /\ DOMAIN e = 1 .. m
  BY <1>2
<1>7. ASSUME NEW k \in 1 .. m
      PROVE  /\ Start(s, k) \in 1 .. n + 1 /\ e[k] - 1 \in 0 .. n
             /\ Start(t, k) = Start(s, k) /\ k \in DOMAIN f /\ f[k] = e[k]
  <2>1. e[k] \in 1 .. n /\ (k # 1 => k - 1 \in 1 .. m /\ e[k - 1] \in 1 .. n)
    BY <1>2, <1>6
  <2>2. k \in DOMAIN f /\ f[k] = e[k] /\ (k # 1 => f[k - 1] = e[k - 1])
    BY <1>2, <1>6, <2>1
  <2> QED
    BY <1>1, <1>5, <1>6, <2>1, <2>2
<1>8. ASSUME NEW k \in 1 .. m
      PROVE  /\ SubSeq(s, Start(s, k), e[k] - 1) \in Seq(Bytes)
             /\ SubSeq(t, Start(t, k), f[k] - 1) = SubSeq(s, Start(s, k), e[k] - 1)
  <2>1. /\ Start(s, k) \in 1 .. n + 1 /\ e[k] - 1 \in 0 .. n
        /\ Start(t, k) = Start(s, k) /\ f[k] = e[k]
    BY <1>7
  <2>2. \A i \in 1 .. n + 1, j \in 0 .. n : SubSeq(s, i, j) \in Seq(Bytes)
    BY <1>1
  <2> QED
    BY <1>1, <2>1, <2>2
<1>9. LinesOf(s) \in Seq(Seq(Bytes)) /\ Len(LinesOf(s)) = m
  BY <1>3, <1>6, <1>8
<1>10. CASE b \in Delimiters
  <2>1. f = Append(e, n + 1) /\ DOMAIN f = 1 .. m + 1 /\ f[m + 1] = n + 1
    BY <1>2, <1>6, <1>10
  <2>2. Start(t, m + 1) = LastEnd(s) + 1
    <3>1. CASE e = <<>>
      BY <1>4, <1>5, <1>6, <2>1, <3>1
    <3>2. CASE e # <<>>
      <4>1. m \in 1 .. m /\ m + 1 # 1 /\ (m + 1) - 1 = m
        BY <1>2, <1>6, <3>2
      <4>2. f[m] = e[m]
        BY <1>7, <4>1
      <4> QED
        BY <1>4, <1>5, <2>1, <3>2, <4>1, <4>2
    <3> QED
      BY <3>1, <3>2
  <2>3. SubSeq(t, Start(t, m + 1), f[m + 1] - 1) = Unfinished(s)
    <3>1. LastEnd(s) + 1 \in 1 .. n + 1 /\ n \in 0 .. n /\ f[m + 1] - 1 = n
      BY <1>1, <1>4, <2>1
    <3>2. SubSeq(t, LastEnd(s) + 1, n) = SubSeq(s, LastEnd(s) + 1, n)
      BY <1>1, <3>1
    <3> QED
      BY <1>4, <2>2, <3>1, <3>2
  <2>4. Unfinished(s) \in Seq(Bytes)
    BY <1>1, <1>4
  <2> DEFINE l == LinesOf(s)
             u == LinesOf(t)
  <2>5. DOMAIN u = 1 .. m + 1 /\ u[m + 1] = Unfinished(s) /\ \A k \in 1 .. m : u[k] = l[k]
    <3>1. DOMAIN u = 1 .. m + 1 /\ u[m + 1] = Unfinished(s)
      BY <1>3, <1>6, <2>1, <2>3
    <3>2. ASSUME NEW k \in 1 .. m
          PROVE  u[k] = l[k]
      <4>1. k \in 1 .. m + 1 /\ k \in DOMAIN e
        BY <1>6
      <4>2. /\ u[k] = SubSeq(t, Start(t, k), f[k] - 1)
            /\ l[k] = SubSeq(s, Start(s, k), e[k] - 1)
        BY <1>3, <2>1, <4>1
      <4> QED
        BY <1>8, <4>2
    <3> QED
      BY <3>1, <3>2
  <2>6. u = [k \in 1 .. m + 1 |-> u[k]]
    BY <1>3, <2>1
  <2> HIDE DEF l, u
  <2>7. l \in Seq(Seq(Bytes)) /\ Len(l) = m
    BY <1>9 DEF l
  <2>8. u = Append(l, Unfinished(s))
    <3> DEFINE w == Append(l, Unfinished(s))
    <3>1. /\ DOMAIN w = 1 .. m + 1 /\ w[m + 1] = Unfinished(s)
          /\ \A k \in 1 .. m : w[k] = l[k]
      BY <1>6, <2>4, <2>7
    <3>2. w = [k \in 1 .. m + 1 |-> w[k]]
      <4>1. w \in Seq(Seq(Bytes)) /\ Len(w) = m + 1
        BY <1>6, <2>4, <2>7
      <4> HIDE DEF w
      <4> QED
        BY <1>6, <4>1
    <3> HIDE DEF w
    <3>3. \A k \in 1 .. m + 1 : u[k] = w[k]
      BY <1>6, <2>5, <3>1
    <3>4. u = w
      BY <2>6, <3>2, <3>3
    <3> QED
      BY <3>4 DEF w
  <2> QED
    BY <1>9, <1>10, <2>8 DEF l, u, t
<1>11. CASE b \notin Delimiters
  <2>1. f = e
    BY <1>2, <1>11
  <2>2. LinesOf(t) = LinesOf(s)
    BY <1>3, <1>6, <1>8, <2>1
  <2> QED
    BY <1>9, <1>11, <2>2 DEF t
<1> QED
  BY <1>10, <1>11

\* What one more byte makes of a stream.
ByteMore(s, b, t) ==
  /\ t \in Seq(Bytes) /\ Unfinished(s) \in Seq(Bytes)
  /\ b \in Delimiters =>
       /\ Unfinished(t) = <<>>
       /\ CommandsOf(t) = IF Asked(Unfinished(s)) THEN Append(CommandsOf(s), Unfinished(s))
                          ELSE CommandsOf(s)
  /\ b \notin Delimiters =>
       Unfinished(t) = Append(Unfinished(s), b) /\ CommandsOf(t) = CommandsOf(s)

LEMMA CommandsAppend ==
  ASSUME NEW ls \in Seq(Seq(Bytes)), NEW l \in Seq(Bytes)
  PROVE  LET asked(u) == Picked(u, {k \in DOMAIN u : Asked(u[k])})
         IN  asked(Append(ls, l)) = IF Asked(l) THEN Append(asked(ls), l) ELSE asked(ls)
<1> DEFINE u == Append(ls, l)
           m == Len(ls)
           P == {k \in DOMAIN ls : Asked(ls[k])}
           Q == {k \in DOMAIN u : Asked(u[k])}
<1>1. /\ m \in Nat /\ DOMAIN u = 1 .. m + 1 /\ DOMAIN ls = 1 .. m
      /\ u[m + 1] = l /\ \A k \in 1 .. m : u[k] = ls[k]
  OBVIOUS
<1>2. m + 1 \in Q <=> Asked(l)
  <2> HIDE DEF u
  <2> QED
    BY <1>1
<1>3. Picked(ls, Q) = Picked(ls, P)
  <2>1. \A k \in 1 .. Len(ls) : k \in Q <=> k \in P
    <3> HIDE DEF u
    <3> QED
      BY <1>1
  <2> HIDE DEF P, Q
  <2> QED
    BY <2>1, PickedSame
<1>4. Picked(u, Q) = IF m + 1 \in Q THEN Append(Picked(ls, Q), l) ELSE Picked(ls, Q)
  <2> HIDE DEF Q
  <2> QED
    BY PickedAppend
<1>5. Picked(u, Q) = IF Asked(l) THEN Append(Picked(ls, P), l) ELSE Picked(ls, P)
  <2> HIDE DEF P, Q, u
  <2> QED
    BY <1>2, <1>3, <1>4
<1> QED
  BY <1>5

LEMMA StreamAppend ==
  \A s \in Seq(Bytes), b \in Bytes : ByteMore(s, b, Append(s, b))
<1> SUFFICES ASSUME NEW s \in Seq(Bytes), NEW b \in Bytes
             PROVE  ByteMore(s, b, Append(s, b))
  OBVIOUS
<1> DEFINE t == Append(s, b)
           n == Len(s)
           asked(u) == Picked(u, {k \in DOMAIN u : Asked(u[k])})
<1>1. t \in Seq(Bytes) /\ Len(t) = n + 1 /\ n \in Nat /\ t[n + 1] = b
  OBVIOUS
<1>2. LastEnd(s) \in 0 .. n
  BY LastEndInside
<1>3. Unfinished(s) \in Seq(Bytes)
  BY <1>1, <1>2 DEF Unfinished
<1>4. /\ LinesOf(s) \in Seq(Seq(Bytes))
      /\ LinesOf(t) =
           IF b \in Delimiters THEN Append(LinesOf(s), Unfinished(s)) ELSE LinesOf(s)
  BY LinesAppend
<1>5. /\ LineEnds(s) \in Seq(1 .. n)
      /\ LineEnds(t) = IF b \in Delimiters THEN Append(LineEnds(s), n + 1) ELSE LineEnds(s)
  BY EndsAppend
<1>6. CommandsOf(s) = asked(LinesOf(s)) /\ CommandsOf(t) = asked(LinesOf(t))
  BY DEF CommandsOf
<1>7. asked(Append(LinesOf(s), Unfinished(s))) =
        IF Asked(Unfinished(s)) THEN Append(asked(LinesOf(s)), Unfinished(s))
        ELSE asked(LinesOf(s))
  BY <1>3, <1>4, CommandsAppend
<1>8. CASE b \in Delimiters
  <2>1. LastEnd(t) = n + 1
    <3> DEFINE e == LineEnds(s)
               f == LineEnds(t)
    <3>1. e \in Seq(1 .. n) /\ f = Append(e, n + 1)
      BY <1>5, <1>8
    <3> HIDE DEF e, f
    <3>2. f # <<>> /\ f[Len(f)] = n + 1
      BY <3>1
    <3> QED
      BY <3>2 DEF LastEnd, f
  <2>2. Unfinished(t) = <<>>
    <3>1. LastEnd(t) + 1 = n + 2 /\ Len(t) = n + 1
      BY <1>1, <2>1
    <3>2. SubSeq(t, n + 2, n + 1) = <<>>
      BY <1>1
    <3> HIDE DEF t
    <3> QED
      BY <3>1, <3>2 DEF Unfinished
  <2> HIDE DEF t, asked
  <2> QED
    BY <1>1, <1>3, <1>4, <1>6, <1>7, <1>8, <2>2 DEF ByteMore, t
<1>9. CASE b \notin Delimiters
  <2>1. LastEnd(t) = LastEnd(s)
    BY <1>5, <1>9 DEF LastEnd
  <2>2. Unfinished(t) = Append(Unfinished(s), b)
    <3> DEFINE a == LastEnd(s) + 1
    <3>1. a \in 1 .. n + 1
      BY <1>1, <1>2
    <3> HIDE DEF a
    <3>2. SubSeq(t, a, n + 1) = Append(SubSeq(s, a, n), b)
      BY <1>1, <3>1
    <3> HIDE DEF t
    <3> QED
      BY <1>1, <2>1, <3>2 DEF Unfinished, a
  <2> HIDE DEF t, asked
  <2> QED
    BY <1>1, <1>3, <1>4, <1>6, <1>9, <2>2 DEF ByteMore, t
<1> QED
  BY <1>8, <1>9

LEMMA NothingYet == Unfinished(<<>>) = <<>> /\ CommandsOf(<<>>) = <<>>
<1>1. <<>> \in Seq(Bytes) /\ Len(<<>>) = 0
  OBVIOUS
<1>2. [i \in DOMAIN <<>> |-> i] = <<>>
  OBVIOUS
<1>3. LineEnds(<<>>) = <<>>
  BY <1>2, PickedNone DEF LineEnds
<1>4. LinesOf(<<>>) = <<>>
  BY <1>3 DEF LinesOf
<1>5. CommandsOf(<<>>) = <<>>
  BY <1>4, PickedNone DEF CommandsOf
<1>6. Unfinished(<<>>) = <<>>
  BY <1>3 DEF Unfinished, LastEnd
<1> QED
  BY <1>5, <1>6

\* A stream that ends with a delimiter has no unfinished line.
LEMMA AllFinished ==
  ASSUME NEW s \in Seq(Bytes), EndsLine(s)
  PROVE  Unfinished(s) = <<>>
<1>1. CASE s = <<>>
  BY <1>1, NothingYet
<1>2. CASE s # <<>>
  <2> DEFINE r == SubSeq(s, 1, Len(s) - 1)
             b == s[Len(s)]
  <2>1. r \in Seq(Bytes) /\ b \in Bytes /\ s = Append(r, b) /\ b \in Delimiters
    BY <1>2 DEF EndsLine
  <2> HIDE DEF r, b
  <2> QED
    BY <2>1, StreamAppend DEF ByteMore
<1> QED
  BY <1>1, <1>2

\* Bytes without a delimiter are the beginning of a line.
LEMMA LineBegins ==
  ASSUME NEW s \in Seq(Bytes), Unfinished(s) = <<>>
  PROVE  \A l \in Seq(Bytes \ Delimiters) :
           Unfinished(s \o l) = l /\ CommandsOf(s \o l) = CommandsOf(s)
<1> DEFINE T == Bytes \ Delimiters
           S == {l \in Seq(T) : Unfinished(s \o l) = l /\ CommandsOf(s \o l) = CommandsOf(s)}
<1>1. <<>> \in S
  <2>1. <<>> \in Seq(T) /\ s \o <<>> = s
    OBVIOUS
  <2> QED
    BY <2>1
<1>2. ASSUME NEW l \in Seq(T), NEW b \in T, l \in S
      PROVE  Append(l, b) \in S
  <2> DEFINE u == s \o l
  <2>1. u \in Seq(Bytes) /\ b \in Bytes /\ b \notin Delimiters /\ Append(l, b) \in Seq(T)
    OBVIOUS
  <2>2. s \o Append(l, b) = Append(u, b)
    <3>1. l \in Seq(Bytes) /\ b \in Bytes
      OBVIOUS
    <3> QED
      BY <3>1, AppendBehind
  <2>3. Unfinished(u) = l /\ CommandsOf(u) = CommandsOf(s)
    BY <1>2
  <2> HIDE DEF u
  <2>4. ByteMore(u, b, Append(u, b))
    BY <2>1, StreamAppend
  <2>5. Unfinished(Append(u, b)) = Append(l, b) /\ CommandsOf(Append(u, b)) = CommandsOf(s)
    BY <2>1, <2>3, <2>4 DEF ByteMore
  <2>6. Unfinished(s \o Append(l, b)) = Append(l, b)
        /\ CommandsOf(s \o Append(l, b)) = CommandsOf(s)
    BY <2>2, <2>5
  <2> QED
    BY <2>1, <2>6
<1>3. \A l \in Seq(T) : l \in S
  <2> HIDE DEF S, T
  <2> QED
    BY <1>1, <1>2, SeqInduction
<1> QED
  BY <1>3

-----------------------------------------------------------------------------
(* A tidy peer                                                               *)

\* Without a NUL the parser sees the whole buffer.
Plain(s) == \A i \in DOMAIN s : s[i] # "nul"

LEMMA PlainText ==
  ASSUME buffer \in Seq(Bytes), Plain(buffer)
  PROVE  Text = buffer
<1>1. First({"nul"}, buffer) \in 1 .. Len(buffer) + 1
  BY FirstInside
<1>2. First({"nul"}, buffer) <= Len(buffer) => buffer[First({"nul"}, buffer)] \in {"nul"}
  BY FirstFound
<1>3. First({"nul"}, buffer) = Len(buffer) + 1
  BY <1>1, <1>2 DEF Plain
<1> QED
  BY <1>3 DEF Text, UpTo

\* A sequence is what comes before a place, the element there and the rest.
LEMMA SplitAt ==
  \A s \in Seq(Bytes) : \A i \in 1 .. Len(s) :
    SubSeq(s, 1, i - 1) \o <<s[i]>> \o SubSeq(s, i + 1, Len(s)) = s
<1> SUFFICES ASSUME NEW s \in Seq(Bytes), NEW i \in 1 .. Len(s)
             PROVE  SubSeq(s, 1, i - 1) \o <<s[i]>> \o SubSeq(s, i + 1, Len(s)) = s
  OBVIOUS
<1> DEFINE a == SubSeq(s, 1, i - 1)
           b == SubSeq(s, i + 1, Len(s))
           w == a \o <<s[i]>>
           u == w \o b
<1>1. /\ a \in Seq(Bytes) /\ Len(a) = i - 1 /\ \A j \in 1 .. i - 1 : a[j] = s[j]
      /\ s[i] \in Bytes
  OBVIOUS
<1>2. b \in Seq(Bytes) /\ Len(b) = Len(s) - i
  OBVIOUS
<1>3. \A j \in 1 .. Len(s) - i : b[j] = s[i + j]
  OBVIOUS
<1> HIDE DEF a, b
<1>4. w \in Seq(Bytes) /\ Len(w) = i
  BY <1>1
<1>5. \A j \in 1 .. i : w[j] = s[j]
  BY <1>1
<1> HIDE DEF w
<1>6. u \in Seq(Bytes) /\ Len(u) = Len(s)
  BY <1>2, <1>4
<1>7. \A j \in 1 .. i : u[j] = s[j]
  BY <1>2, <1>4, <1>5
<1>8. \A j \in 1 .. Len(s) - i : u[i + j] = s[i + j]
  BY <1>2, <1>3, <1>4
<1> HIDE DEF u
<1>9. ASSUME NEW j \in 1 .. Len(s)
      PROVE  u[j] = s[j]
  <2>1. CASE j <= i
    BY <1>7, <2>1
  <2>2. CASE j > i
    <3>1. j - i \in 1 .. Len(s) - i /\ i + (j - i) = j
      BY <2>2
    <3>2. u[i + (j - i)] = s[i + (j - i)]
      BY <1>8, <3>1
    <3> QED
      BY <3>1, <3>2
  <2> QED
    BY <2>1, <2>2
<1>10. u = s
  BY <1>6, <1>9
<1> QED
  BY <1>10 DEF u, w, a, b

\* The word of a line and what follows its first space are the whole line.
LEMMA ToldIsLine ==
  ASSUME Line \in Seq(Bytes), LineLen = Len(Line)
  PROVE  Told(Call) = Line /\ (Asked(Line) <=> Call.name \in Names)
<1> DEFINE f == First({"sp"}, Line)
<1>1. f \in 1 .. Len(Line) + 1 /\ (f <= Len(Line) => Line[f] \in {"sp"})
  BY FirstInside, FirstFound
<1>2. Call.name = SubSeq(Line, 1, f - 1) /\ Call.spaced = (f - 1 < LineLen)
  BY DEF Call, WordLen
<1>3. Asked(Line) <=> Call.name \in Names
  BY <1>2 DEF Asked, UpTo
<1>4. CASE f - 1 < LineLen
  <2>1. Call.args = SubSeq(Line, f + 1, Len(Line))
    BY <1>4 DEF Call, ArgsOf, After, WordLen
  <2>2. Told(Call) = SubSeq(Line, 1, f - 1) \o <<"sp">> \o SubSeq(Line, f + 1, Len(Line))
    <3>1. Call.spaced
      BY <1>2, <1>4
    <3>2. Told(Call) = Call.name \o <<"sp">> \o Call.args
      BY <3>1, Zenon DEF Told
    <3> HIDE DEF f
    <3> QED
      BY <1>2, <2>1, <3>2, Zenon
  <2>3. \A s \in Seq(Bytes) : \A i \in 1 .. Len(s) :
          SubSeq(s, 1, i - 1) \o <<s[i]>> \o SubSeq(s, i + 1, Len(s)) = s
    BY SplitAt
  <2>4. f \in 1 .. Len(Line) /\ Line[f] = "sp"
    BY <1>1, <1>4
  <2> HIDE DEF f
  <2> QED
    BY <1>3, <2>2, <2>3, <2>4, Zenon
<1>5. CASE ~(f - 1 < LineLen)
  <2>1. f = Len(Line) + 1
    BY <1>1, <1>5
  <2>2. Told(Call) = SubSeq(Line, 1, f - 1)
    BY <1>2, <1>5 DEF Told
  <2>3. SubSeq(Line, 1, Len(Line)) = Line
    OBVIOUS
  <2> HIDE DEF f
  <2> QED
    BY <1>3, <2>1, <2>2, <2>3
<1> QED
  BY <1>4, <1>5

\* No more is kept than was received.
Bounded ==
  /\ Len(buffer) <= Len(received) /\ Len(received) <= MaxReceived
  /\ \E S : calls \in Seq(S)

ServedInv == IInv /\ Bounded /\ Served

LEMMA BoundedKept ==
  ASSUME SizesAreNumbers, IInv, Bounded, Next
  PROVE  Bounded'
<1>1. ASSUME NEW chunk \in Chunks, Deliver(chunk) PROVE Bounded'
  <2>1. chunk \in Seq(Bytes)
    BY DEF Chunks
  <2>2. /\ buffer' = buffer \o chunk /\ received' = received \o chunk /\ calls' = calls
        /\ Len(received) + Len(chunk) <= MaxReceived
    BY <1>1 DEF Deliver
  <2>3. /\ Len(buffer') = Len(buffer) + Len(chunk)
        /\ Len(received') = Len(received) + Len(chunk)
        /\ Len(chunk) \in Nat /\ Len(buffer) \in Nat /\ Len(received) \in Nat
    BY <2>1, <2>2 DEF IInv, TypeOK
  <2> QED
    BY <2>2, <2>3 DEF SizesAreNumbers, Bounded
<1>2. CASE EmptyLine
  BY <1>2 DEF EmptyLine, Bounded
<1>3. CASE CommandLine
  <2>1. PICK S : calls \in Seq(S)
    BY DEF Bounded
  <2>2. calls' \in Seq(S \cup {Call})
    <3>1. calls \in Seq(S \cup {Call})
      BY <2>1
    <3>2. Append(calls, Call) \in Seq(S \cup {Call})
      BY <3>1
    <3> QED
      BY <1>3, <3>1, <3>2 DEF CommandLine
  <2> QED
    BY <1>3, <2>2 DEF CommandLine, Bounded
<1>4. CASE PopUsed
  <2>1. /\ Len(buffer') <= Len(buffer) /\ Len(buffer') \in Nat /\ Len(buffer) \in Nat
    <3>1. PICK used \in Returned :
            buffer' = SubSeq(buffer, 1, IF used < Len(buffer) THEN Len(buffer) - used ELSE 0)
      BY <1>4 DEF PopUsed
    <3>2. used \in Nat /\ Len(buffer) \in Nat /\ buffer \in Seq(Bytes)
      BY DEF SizesAreNumbers, Returned, IInv, TypeOK
    <3> QED
      BY <3>1, <3>2
  <2>2. received' = received /\ calls' = calls /\ Len(received) \in Nat
    BY <1>4 DEF PopUsed, IInv, TypeOK
  <2> QED
    BY <2>1, <2>2 DEF Bounded
<1>5. CASE Over
  BY <1>5 DEF Over, vars, Bounded
<1> QED
  BY <1>1, <1>2, <1>3, <1>4, <1>5 DEF Next

\* What the parts of the stream are while nothing has been lost.
Whole ==
  /\ received = Gone \o buffer /\ Gone \in Seq(Bytes)
  /\ buffer \in Seq(Bytes) /\ Plain(buffer)

LEMMA ServedIsWhole ==
  ASSUME ServedInv, tidy, ~Contains(received, "nul")
  PROVE  Whole /\ Text = buffer
<1>1. Len(received) - Len(buffer) \in Nat /\ received \in Seq(Bytes) /\ buffer \in Seq(Bytes)
  BY DEF ServedInv, IInv, TypeOK, Bounded
<1>2. Gone \in Seq(Bytes)
  BY <1>1 DEF Gone, Bounded
<1>3. received = Gone \o buffer
  BY DEF ServedInv, Served
<1>4. Plain(buffer)
  <2>1. ASSUME NEW i \in 1 .. Len(buffer)
        PROVE  buffer[i] # "nul"
    <3>1. received[Len(Gone) + i] = buffer[i] /\ Len(Gone) + i \in 1 .. Len(received)
      BY <1>1, <1>2, <1>3
    <3> QED
      BY <3>1 DEF Contains
  <2> QED
    BY <1>1, <2>1 DEF Plain
<1> QED
  BY <1>1, <1>2, <1>3, <1>4, PlainText DEF Whole

\* A chunk leaves what was done where it was.
LEMMA DeliverServes ==
  ASSUME ServedInv, NEW chunk \in Chunks, Deliver(chunk)
  PROVE  Served'
<1> SUFFICES ASSUME tidy', ~Contains(received', "nul")
             PROVE  /\ received' = Gone' \o buffer'
                    /\ EndsLine(Gone') /\ EndsLine(Through')
                    /\ Executed' = CommandsOf(Through')
                    /\ pc' = "idle" => \A i \in DOMAIN buffer' : buffer'[i] \notin Delimiters
  BY DEF Served
<1>1. /\ buffer' = buffer \o chunk /\ received' = received \o chunk
      /\ offset' = 0 /\ pc' = "parse" /\ pc = "idle" /\ calls' = calls /\ tidy
  BY DEF Deliver
<1>2. /\ chunk \in Seq(Bytes) /\ buffer \in Seq(Bytes) /\ received \in Seq(Bytes)
      /\ Len(buffer) <= Len(received)
  BY DEF Chunks, ServedInv, IInv, TypeOK, Bounded
<1>3. ~Contains(received, "nul")
  <2>1. ASSUME NEW i \in 1 .. Len(received), received[i] = "nul"
        PROVE  FALSE
    <3>1. i \in 1 .. Len(received') /\ received'[i] = "nul"
      BY <1>1, <1>2, <2>1
    <3> QED
      BY <3>1 DEF Contains
  <2> QED
    BY <2>1 DEF Contains
<1>4. Whole
  BY <1>1, <1>3, ServedIsWhole
<1>5. Gone' = Gone
  <2> DEFINE n == Len(received) - Len(buffer)
  <2>1. n \in 0 .. Len(received) /\ Len(received') - Len(buffer') = n
    BY <1>1, <1>2
  <2> HIDE DEF n
  <2>2. SubSeq(received', 1, n) = SubSeq(received, 1, n)
    BY <1>1, <1>2, <2>1
  <2> QED
    BY <2>1, <2>2 DEF Gone, n
<1>6. Through = Gone /\ Through' = Gone'
  <2>1. SubSeq(buffer, 1, 0) = <<>> /\ SubSeq(buffer', 1, 0) = <<>>
    BY <1>1, <1>2
  <2>2. Gone \o <<>> = Gone
    BY <1>4 DEF Whole
  <2> QED
    BY <1>1, <1>5, <2>1, <2>2 DEF Through
<1>7. received' = Gone \o buffer'
  BY <1>1, <1>2, <1>4 DEF Whole
<1>8. Executed' = Executed
  BY <1>1 DEF Executed
<1>9. EndsLine(Gone) /\ Executed = CommandsOf(Gone)
  BY <1>1, <1>3, <1>6 DEF ServedInv, Served
<1> QED
  BY <1>1, <1>5, <1>6, <1>7, <1>8, <1>9

\* What an iteration of the parser does: a line and the delimiter behind it.
LEMMA ScanReads ==
  ASSUME IInv, Text = buffer, pc = "parse", HasLine
  PROVE  /\ Line \in Seq(Bytes \ Delimiters) /\ LineLen = Len(Line)
         /\ \E b \in Bytes \cap Delimiters :
              SubSeq(buffer, 1, offset + LineLen + 1) =
                Append(SubSeq(buffer, 1, offset) \o Line, b)
<1> DEFINE f == First(Delimiters, Rest)
<1>1. offset \in 0 .. Len(buffer) /\ buffer \in Seq(Bytes) /\ Len(buffer) \in Nat
  BY DEF IInv, TypeOK, BufferFits
<1>2. /\ Rest \in Seq(Bytes) /\ Len(Rest) = Len(buffer) - offset
      /\ \A i \in 1 .. Len(Rest) : Rest[i] = buffer[offset + i]
  BY <1>1, TailAt DEF Rest
<1>3. /\ f \in 1 .. Len(Rest) + 1 /\ f <= Len(Rest) /\ Rest[f] \in Delimiters
      /\ \A i \in 1 .. f - 1 : Rest[i] \notin Delimiters
  BY <1>2, FirstInside, FirstFound DEF HasLine
<1>4. LineLen = f - 1 /\ Line = SubSeq(Rest, 1, f - 1)
  BY DEF LineLen, Line
<1> HIDE DEF f
<1>5. Line \in Seq(Bytes \ Delimiters) /\ Len(Line) = f - 1
  <2>1. /\ Len(Line) = f - 1 /\ Line \in Seq(Bytes)
        /\ \A i \in 1 .. f - 1 : Line[i] = Rest[i]
    BY <1>2, <1>3, <1>4
  <2>2. \A i \in 1 .. Len(Line) : Line[i] \in Bytes \ Delimiters
    BY <1>3, <2>1
  <2> QED
    BY <2>1, <2>2
<1>6. Rest[f] \in Bytes \cap Delimiters
  BY <1>2, <1>3
<1>7. SubSeq(buffer, 1, offset + f) = Append(SubSeq(buffer, 1, offset) \o Line, Rest[f])
  <2>1. \A i \in 1 .. Len(Line) : Line[i] = buffer[offset + i]
    BY <1>2, <1>3, <1>4, <1>5
  <2>2. Rest[f] = buffer[offset + f] /\ offset + f \in 1 .. Len(buffer)
    BY <1>1, <1>2, <1>3
  <2>3. Line \in Seq(Bytes)
    BY <1>5
  <2> QED
    BY <1>1, <1>3, <1>5, <2>1, <2>2, <2>3
<1>8. offset + LineLen + 1 = offset + f
  BY <1>1, <1>2, <1>3, <1>4
<1> QED
  BY <1>4, <1>5, <1>6, <1>7, <1>8

\* One command more.
LEMMA ToldAppend ==
  ASSUME NEW S, NEW cs \in Seq(S)
  PROVE  \A d : [k \in DOMAIN Append(cs, d) |-> Told(Append(cs, d)[k])] =
                 Append([k \in DOMAIN cs |-> Told(cs[k])], Told(d))
<1> SUFFICES ASSUME NEW d
             PROVE  [k \in DOMAIN Append(cs, d) |-> Told(Append(cs, d)[k])] =
                      Append([k \in DOMAIN cs |-> Told(cs[k])], Told(d))
  OBVIOUS
<1> DEFINE m == Len(cs)
           e == Append(cs, d)
           l == [k \in DOMAIN cs |-> Told(cs[k])]
           r == [k \in DOMAIN e |-> Told(e[k])]
           w == Append(l, Told(d))
           A == {Told(cs[k]) : k \in DOMAIN cs} \cup {Told(d)}
<1>1. /\ m \in Nat /\ DOMAIN e = 1 .. m + 1 /\ DOMAIN cs = 1 .. m
      /\ e[m + 1] = d /\ \A k \in 1 .. m : e[k] = cs[k]
  OBVIOUS
<1>2. l \in Seq(A) /\ Len(l) = m /\ \A k \in 1 .. m : l[k] = Told(cs[k])
  BY <1>1
<1> HIDE DEF e
<1>3. r = [k \in 1 .. m + 1 |-> r[k]] /\ r[m + 1] = Told(d)
      /\ \A k \in 1 .. m : r[k] = Told(cs[k])
  BY <1>1
<1>4. Told(d) \in A
  OBVIOUS
<1> HIDE DEF l, r, A
<1>5. /\ w \in Seq(A) /\ Len(w) = m + 1 /\ w[m + 1] = Told(d)
      /\ \A k \in 1 .. m : w[k] = l[k]
  BY <1>1, <1>2, <1>4
<1> HIDE DEF w
<1>6. w = [k \in 1 .. m + 1 |-> w[k]]
  BY <1>1, <1>5
<1>7. ASSUME NEW k \in 1 .. m + 1
      PROVE  r[k] = w[k]
  <2>1. k \in 1 .. m \/ k = m + 1
    BY <1>1
  <2> QED
    BY <1>2, <1>3, <1>5, <2>1
<1>8. r = w
  BY <1>3, <1>6, <1>7
<1> QED
  BY <1>8 DEF r, w, e, l

\* The parser is through with one line more, executed when it asks for that.
LineTaken(b) ==
  /\ Line \in Seq(Bytes \ Delimiters) /\ b \in Bytes \cap Delimiters
  /\ Through \in Seq(Bytes) /\ Through' = Append(Through \o Line, b)
  /\ Unfinished(Through) = <<>> /\ Told(Call) = Line
  /\ calls' = IF Asked(Line) THEN Append(calls, Call) ELSE calls

LEMMA ScanTakes ==
  ASSUME NamesAreWords, ServedInv, tidy, ~Contains(received, "nul"), EmptyLine \/ CommandLine
  PROVE  \E b : LineTaken(b)
<1>1. /\ pc = "parse" /\ HasLine /\ UNCHANGED <<pc, buffer, received, tidy>>
  BY DEF EmptyLine, CommandLine
<1>2. Whole /\ Text = buffer
  BY <1>1, ServedIsWhole
<1>3. /\ EndsLine(Gone) /\ EndsLine(Through) /\ Executed = CommandsOf(Through)
  BY <1>1 DEF ServedInv, Served
<1>4. Line \in Seq(Bytes \ Delimiters) /\ LineLen = Len(Line) /\ Line \in Seq(Bytes)
  <2>1. Line \in Seq(Bytes \ Delimiters) /\ LineLen = Len(Line)
    BY <1>1, <1>2, ScanReads DEF ServedInv
  <2> QED
    BY <2>1
<1>5. PICK b \in Bytes \cap Delimiters :
        SubSeq(buffer, 1, offset + LineLen + 1) = Append(SubSeq(buffer, 1, offset) \o Line, b)
  BY <1>1, <1>2, ScanReads DEF ServedInv
<1>6. offset' = offset + LineLen + 1
  <2>1. CASE EmptyLine
    BY <2>1 DEF EmptyLine, ServedInv, IInv, TypeOK
  <2>2. CASE CommandLine
    BY <2>2 DEF CommandLine
  <2> QED
    BY <2>1, <2>2
<1>7. Gone' = Gone
  BY <1>1 DEF Gone
<1> DEFINE t == Through \o Line
<1>8. Through \in Seq(Bytes) /\ t \in Seq(Bytes) /\ Through = Gone \o SubSeq(buffer, 1, offset)
  <2>1. offset \in 0 .. Len(buffer)
    BY <1>1, <1>2 DEF ServedInv, IInv, TypeOK, BufferFits
  <2>2. SubSeq(buffer, 1, offset) \in Seq(Bytes)
    BY <1>2, <2>1 DEF Whole
  <2>3. Through = Gone \o SubSeq(buffer, 1, offset)
    BY <1>1 DEF Through
  <2> QED
    BY <1>2, <1>4, <2>2, <2>3 DEF Whole
<1>9. Through' = Append(t, b)
  <2> DEFINE x == SubSeq(buffer, 1, offset)
  <2>1. x \in Seq(Bytes)
    BY <1>1, <1>2 DEF ServedInv, IInv, TypeOK, BufferFits, Whole
  <2>2. Through' = Gone \o Append(x \o Line, b)
    BY <1>1, <1>5, <1>6, <1>7 DEF Through
  <2> HIDE DEF x
  <2>3. \A u, v, w \in Seq(Bytes) : u \o Append(v \o w, b) = Append((u \o v) \o w, b)
    OBVIOUS
  <2>4. Gone \o Append(x \o Line, b) = Append((Gone \o x) \o Line, b)
    BY <1>2, <1>4, <2>1, <2>3 DEF Whole
  <2> QED
    BY <1>8, <2>2, <2>4 DEF x
<1>10. Told(Call) = Line /\ calls' = IF Asked(Line) THEN Append(calls, Call) ELSE calls
  <2>1. Told(Call) = Line /\ (Asked(Line) <=> Call.name \in Names)
    BY <1>4, ToldIsLine
  <2>2. CASE EmptyLine
    <3>1. Line = <<>>
      <4>1. Len(Line) = 0
        BY <1>4, <2>2 DEF EmptyLine
      <4> QED
        BY <1>4, <4>1
    <3>2. UpTo({"sp"}, Line) = <<>>
      BY <3>1 DEF UpTo
    <3>3. ~Asked(Line)
      BY <3>2 DEF NamesAreWords, Asked
    <3> QED
      BY <2>1, <2>2, <3>3 DEF EmptyLine
  <2>3. CASE CommandLine
    BY <2>1, <2>3 DEF CommandLine
  <2> QED
    BY <2>2, <2>3
<1>11. Unfinished(Through) = <<>>
  BY <1>3, <1>8, AllFinished
<1>12. LineTaken(b)
  BY <1>4, <1>8, <1>9, <1>10, <1>11 DEF LineTaken
<1> QED
  BY <1>12

LEMMA ScanServes ==
  ASSUME NamesAreWords, ServedInv, EmptyLine \/ CommandLine
  PROVE  Served'
<1> SUFFICES ASSUME tidy', ~Contains(received', "nul")
             PROVE  /\ received' = Gone' \o buffer'
                    /\ EndsLine(Gone') /\ EndsLine(Through')
                    /\ Executed' = CommandsOf(Through')
                    /\ pc' = "idle" => \A i \in DOMAIN buffer' : buffer'[i] \notin Delimiters
  BY DEF Served
<1>1. /\ pc = "parse" /\ UNCHANGED <<pc, buffer, received, tidy>>
  BY DEF EmptyLine, CommandLine
<1>2. PICK b : LineTaken(b)
  BY <1>1, ScanTakes
<1>3. /\ received = Gone \o buffer /\ EndsLine(Gone) /\ Executed = CommandsOf(Through)
  BY <1>1 DEF ServedInv, Served
<1>4. Gone' = Gone
  BY <1>1 DEF Gone
<1> DEFINE t == Through \o Line
<1>5. Unfinished(t) = Line /\ CommandsOf(t) = CommandsOf(Through) /\ t \in Seq(Bytes)
  <2>1. Line \in Seq(Bytes)
    BY <1>2 DEF LineTaken
  <2> QED
    BY <1>2, <2>1, LineBegins DEF LineTaken
<1>6. CommandsOf(Through') = IF Asked(Line) THEN Append(CommandsOf(Through), Line)
                             ELSE CommandsOf(Through)
  <2>1. Through' = Append(t, b) /\ b \in Bytes /\ b \in Delimiters
    BY <1>2 DEF LineTaken
  <2> HIDE DEF t
  <2>2. ByteMore(t, b, Append(t, b))
    BY <1>5, <2>1, StreamAppend
  <2> QED
    BY <1>5, <2>1, <2>2 DEF ByteMore
<1>7. EndsLine(Through')
  <2>1. Through' = Append(t, b) /\ b \in Delimiters
    BY <1>2 DEF LineTaken
  <2> HIDE DEF t
  <2>2. Append(t, b)[Len(Append(t, b))] = b
    BY <1>5
  <2> QED
    BY <2>1, <2>2 DEF EndsLine
<1>8. Executed' = IF Asked(Line) THEN Append(Executed, Line) ELSE Executed
  <2>1. PICK S : calls \in Seq(S)
    BY DEF ServedInv, Bounded
  <2>2. [k \in DOMAIN Append(calls, Call) |-> Told(Append(calls, Call)[k])] =
          Append(Executed, Told(Call))
    BY <2>1, ToldAppend DEF Executed
  <2> QED
    BY <1>2, <2>2 DEF LineTaken, Executed
<1> QED
  BY <1>1, <1>3, <1>4, <1>6, <1>7, <1>8

\* The parser leaves no end of a line behind its offset.
LEMMA NoLineLeft ==
  ASSUME Text = buffer, buffer \in Seq(Bytes), offset \in 0 .. Len(buffer), ~HasLine
  PROVE  \A i \in offset + 1 .. Len(buffer) : buffer[i] \notin Delimiters
<1> DEFINE f == First(Delimiters, Rest)
<1>1. /\ Rest \in Seq(Bytes) /\ Len(Rest) = Len(buffer) - offset /\ Len(buffer) \in Nat
      /\ \A i \in 1 .. Len(Rest) : Rest[i] = buffer[offset + i]
  BY TailAt DEF Rest
<1>2. f \in 1 .. Len(Rest) + 1 /\ \A i \in 1 .. f - 1 : Rest[i] \notin Delimiters
  BY <1>1, FirstInside, FirstFound
<1>3. ~(f <= Len(Rest))
  BY DEF HasLine
<1> HIDE DEF f
<1>4. f - 1 = Len(Rest)
  <2>1. Len(Rest) \in Nat
    BY <1>1
  <2> QED
    BY <1>2, <1>3, <2>1
<1> TAKE i \in offset + 1 .. Len(buffer)
<1>5. i - offset \in 1 .. Len(Rest) /\ offset + (i - offset) = i
  BY <1>1
<1> QED
  BY <1>1, <1>2, <1>4, <1>5

\* What is popped is nothing when the parser used nothing, and everything when it
\* used everything; a value it did not return on purpose then changes nothing.
LEMMA PopServes ==
  ASSUME SizesAreNumbers, \A x \in Strays : x >= MaxReceived, ServedInv, PopUsed
  PROVE  Served'
<1> SUFFICES ASSUME tidy', ~Contains(received', "nul")
             PROVE  /\ received' = Gone' \o buffer'
                    /\ EndsLine(Gone') /\ EndsLine(Through')
                    /\ Executed' = CommandsOf(Through')
                    /\ pc' = "idle" => \A i \in DOMAIN buffer' : buffer'[i] \notin Delimiters
  BY DEF Served
<1>1. /\ pc = "parse" /\ pc' = "idle" /\ ~HasLine /\ tidy /\ offset \in {0, Len(buffer)}
      /\ UNCHANGED <<calls, received>>
  BY DEF PopUsed, ServedInv, IInv, TypeOK
<1>2. Whole /\ Text = buffer
  BY <1>1, ServedIsWhole
<1>3. /\ EndsLine(Gone) /\ EndsLine(Through) /\ Executed = CommandsOf(Through)
  BY <1>1 DEF ServedInv, Served
<1>4. PICK used \in Returned :
        buffer' = SubSeq(buffer, 1, IF used < Len(buffer) THEN Len(buffer) - used ELSE 0)
  BY DEF PopUsed
<1>5. /\ buffer \in Seq(Bytes) /\ Len(buffer) \in Nat /\ received \in Seq(Bytes)
      /\ Len(buffer) <= Len(received) /\ Len(received) <= MaxReceived
  BY DEF ServedInv, IInv, TypeOK, Bounded
<1>6. Executed' = Executed
  BY <1>1 DEF Executed
<1>7. Through' = Gone'
  <2>1. buffer' \in Seq(Bytes) /\ used \in Nat
    BY <1>4, <1>5 DEF SizesAreNumbers, Returned, ServedInv, IInv, TypeOK
  <2>2. SubSeq(buffer', 1, 0) = <<>>
    BY <2>1
  <2>3. Gone' \in Seq(Bytes)
    <3>1. Len(buffer') <= Len(buffer) /\ Len(buffer') \in Nat
      BY <1>4, <1>5, <2>1
    <3>2. Len(received) - Len(buffer') \in 0 .. Len(received)
      BY <1>5, <3>1
    <3> QED
      BY <1>1, <1>5, <3>2 DEF Gone
  <2>4. Gone' \o <<>> = Gone'
    BY <2>3
  <2> QED
    BY <1>1, <2>2, <2>4 DEF Through
<1>8. CASE offset = 0
  <2>1. Rest = buffer
    BY <1>2, <1>5, <1>8 DEF Rest
  <2>2. \A i \in DOMAIN buffer : buffer[i] \notin Delimiters
    <3>1. \A i \in 0 + 1 .. Len(buffer) : buffer[i] \notin Delimiters
      BY <1>1, <1>2, <1>5, <1>8, NoLineLeft
    <3> QED
      BY <1>5, <3>1
  <2>3. buffer' = buffer
    <3>1. CASE buffer = <<>>
      <4>1. used \in Nat
        BY <1>8 DEF SizesAreNumbers, Returned
      <4> QED
        BY <1>4, <3>1, <4>1
    <3>2. CASE buffer # <<>>
      <4>1. used = 0
        BY <1>8, <2>1, <3>2 DEF Returned
      <4> QED
        BY <1>4, <1>5, <4>1
    <3> QED
      BY <3>1, <3>2
  <2>4. Gone' = Gone
    BY <1>1, <2>3 DEF Gone
  <2>5. Through = Gone
    <3>1. SubSeq(buffer, 1, 0) = <<>> /\ Gone \o <<>> = Gone
      BY <1>2, <1>5 DEF Whole
    <3> QED
      BY <1>1, <1>8, <3>1 DEF Through
  <2> QED
    BY <1>1, <1>2, <1>3, <1>6, <1>7, <2>2, <2>3, <2>4, <2>5 DEF Whole
<1>9. CASE offset = Len(buffer)
  <2>1. buffer' = <<>>
    <3>1. used \in Nat /\ ~(used < Len(buffer))
      <4>1. CASE used = offset
        BY <1>5, <1>9, <4>1
      <4>2. CASE used \in Strays
        <5>1. used >= MaxReceived /\ used \in Nat /\ MaxReceived \in Nat
          BY <4>2 DEF SizesAreNumbers
        <5>2. Len(received) \in Nat
          BY <1>5
        <5> QED
          BY <1>5, <5>1, <5>2
      <4> QED
        BY <4>1, <4>2 DEF Returned
    <3> QED
      BY <1>4, <1>5, <3>1
  <2>2. Through = received
    <3>1. SubSeq(buffer, 1, Len(buffer)) = buffer
      BY <1>5
    <3> QED
      BY <1>1, <1>2, <1>9, <3>1 DEF Through, Whole
  <2>3. Gone' = received
    <3>1. Len(buffer') = 0 /\ Len(received) - 0 = Len(received)
      BY <1>5, <2>1
    <3>2. SubSeq(received, 1, Len(received)) = received
      BY <1>5
    <3> QED
      BY <1>1, <3>1, <3>2 DEF Gone
  <2>4. received \o <<>> = received
    BY <1>5
  <2> QED
    BY <1>1, <1>3, <1>6, <1>7, <2>1, <2>2, <2>3, <2>4
<1> QED
  BY <1>1, <1>8, <1>9

LEMMA AlwaysServed ==
  ASSUME NamesAreWords, SizesAreNumbers, \A x \in Strays : x >= MaxReceived
  PROVE  Spec => []ServedInv
<1>1. Init => ServedInv
  <2> SUFFICES ASSUME Init
               PROVE  ServedInv
    OBVIOUS
  <2>1. IInv
    BY DEF SizesAreNumbers, Init, IInv, TypeOK, BufferFits
  <2>2. /\ buffer = <<>> /\ received = <<>> /\ calls = <<>> /\ pc = "idle" /\ Len(<<>>) = 0
    BY DEF Init
  <2>3. Bounded
    <3>1. <<>> \in Seq({})
      OBVIOUS
    <3> QED
      BY <2>2, <3>1 DEF SizesAreNumbers, Bounded
  <2>4. Gone = <<>> /\ Through = <<>> /\ Executed = <<>> /\ <<>> \o <<>> = <<>>
    <3>1. Gone = <<>>
      BY <2>2 DEF Gone
    <3>2. Through = <<>>
      BY <2>2, <3>1 DEF Through
    <3> QED
      BY <2>2, <3>1, <3>2 DEF Executed
  <2>5. Served
    BY <2>2, <2>4, NothingYet DEF Served, EndsLine
  <2> QED
    BY <2>1, <2>3, <2>5 DEF ServedInv
<1>2. ServedInv /\ IInv' /\ [Next]_vars => ServedInv'
  <2> SUFFICES ASSUME ServedInv, IInv', [Next]_vars
               PROVE  Bounded' /\ Served'
    BY DEF ServedInv
  <2>1. ASSUME NEW chunk \in Chunks, Deliver(chunk) PROVE Served'
    BY <2>1, DeliverServes
  <2>2. EmptyLine \/ CommandLine => Served'
    BY ScanServes
  <2>3. PopUsed => Served'
    BY PopServes
  <2>4. CASE UNCHANGED vars
    <3>1. Gone' = Gone /\ Through' = Through /\ Executed' = Executed
      BY <2>4 DEF vars, Gone, Through, Executed
    <3>2. Served'
      BY <2>4, <3>1 DEF vars, ServedInv, Served
    <3>3. Bounded'
      BY <2>4 DEF vars, ServedInv, Bounded
    <3> QED
      BY <3>2, <3>3
  <2>5. Next => Bounded'
    BY BoundedKept DEF ServedInv
  <2> QED
    BY <2>1, <2>2, <2>3, <2>4, <2>5 DEF Next, Over
<1> QED
  BY <1>1, <1>2, AlwaysIInv, PTL DEF Spec

\* For every alphabet, set of commands, capacity and growth, and for every way to
\* cut a stream into chunks, in a build in which falling off the end of
\* parse_client_buffer returns the offset or at least as many bytes as were
\* received: a peer that sends no NUL and no chunk with the beginning of a line
\* behind the end of another has exactly its commands executed, once each, in
\* order and with its arguments (telnet.c 94-110, parsing.c 27-71).
THEOREM TidyPeersAreServed ==
  ASSUME NamesAreWords, SizesAreNumbers, \A x \in Strays : x >= MaxReceived
  PROVE  Spec => []TidyPeerIsServed
<1>1. ServedInv => TidyPeerIsServed
  <2> SUFFICES ASSUME ServedInv, pc = "idle", tidy, ~Contains(received, "nul")
               PROVE  Executed = CommandsOf(received)
    BY DEF TidyPeerIsServed
  <2>1. Whole
    BY ServedIsWhole
  <2>2. /\ EndsLine(Gone) /\ Executed = CommandsOf(Through)
        /\ \A i \in DOMAIN buffer : buffer[i] \notin Delimiters
    BY DEF ServedInv, Served
  <2>3. Through = Gone
    <3>1. SubSeq(buffer, 1, 0) = <<>> /\ Gone \o <<>> = Gone
      BY <2>1 DEF Whole
    <3> QED
      BY <3>1 DEF Through
  <2>4. buffer \in Seq(Bytes \ Delimiters)
    <3>1. buffer \in Seq(Bytes) /\ DOMAIN buffer = 1 .. Len(buffer)
      BY <2>1 DEF Whole
    <3>2. \A i \in 1 .. Len(buffer) : buffer[i] \in Bytes \ Delimiters
      BY <2>2, <3>1
    <3> QED
      BY <3>1, <3>2
  <2>5. CommandsOf(Gone \o buffer) = CommandsOf(Gone)
    BY <2>1, <2>2, <2>4, AllFinished, LineBegins DEF Whole
  <2> QED
    BY <2>1, <2>2, <2>3, <2>5 DEF Whole
<1> QED
  BY <1>1, AlwaysServed, PTL
=============================================================================

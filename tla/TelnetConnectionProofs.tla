----------------------- MODULE TelnetConnectionProofs -----------------------
(***************************************************************************)
(* However segments are cut, the loop of connection_handler hands over     *)
(* bytes of the segment at hand only, although it reads behind its end;    *)
(* while no segment ends inside a telnet command, it hands over the stream *)
(* without them and refuses each.  The two halves of a connection, put     *)
(* together, each keep to their own specification, and serve a tidy peer   *)
(* in the order of its stream.                                             *)
(***************************************************************************)
EXTENDS TelnetConnection, InductionLemmas

\* What is handed over when the loop stops at end is a sequence of bytes.
LEMMA GivenIsBytes ==
  ASSUME IInv, NEW end \in 0 .. rbuff
  PROVE  Given(end) \in Seq(Bytes)
<1>1. CASE last < end
  <2>1. /\ end - last \in Nat
        /\ \A i \in 1 .. end - last : last + i - 1 \in 0 .. rbuff - 1
    BY <1>1 DEF IInv, TypeOK
  <2>2. DataUpTo(end) \in [1 .. end - last -> Bytes]
    BY <2>1 DEF DataUpTo, IInv, Filled
  <2>3. DataUpTo(end) \in Seq(Bytes)
    BY <2>1, <2>2
  <2> QED
    BY <1>1, <2>3 DEF Given, IInv, TypeOK
<1>2. CASE ~(last < end)
  BY <1>2 DEF Given, IInv, TypeOK
<1> QED
  BY <1>1, <1>2

\* A segment fills the front of the buffer.
LEMMA RecvKeeps ==
  ASSUME IInv, NEW n \in Lengths, NEW segment \in [1 .. n -> Bytes],
         Recv(segment)
  PROVE  IInv'
<1>1. /\ n \in 1 .. BufferSize /\ Len(segment) = n
      /\ segment \in Seq(Bytes) /\ Len(segment) \in 1 .. BufferSize
  <2>1. n \in 1 .. BufferSize
    BY DEF Lengths
  <2>2. Len(segment) = n /\ segment \in Seq(Bytes)
    BY <2>1, BufferAssumption
  <2> QED
    BY <2>1, <2>2
<1>2. /\ rbuffer' = [i \in DOMAIN rbuffer |->
                       IF i < Len(segment) THEN segment[i + 1] ELSE rbuffer[i]]
      /\ rbuff' = Len(segment) /\ ri' = 0 /\ last' = 0
      /\ whole' \in BOOLEAN /\ pc' = "scan" /\ data' = data
  BY DEF Recv
<1>3. \A i \in 0 .. Len(segment) - 1 : segment[i + 1] \in Bytes
  BY <1>1, \A i \in 0 .. n - 1 : i + 1 \in 1 .. n
<1>4. rbuffer' \in [0 .. BufferSize - 1 -> Bytes \cup {"unset"}]
  BY <1>1, <1>2, <1>3 DEF IInv, TypeOK
<1>5. Filled'
  BY <1>1, <1>2, <1>3, BufferAssumption DEF Filled, IInv, TypeOK
<1>6. TypeOK'
  BY <1>1, <1>2, <1>4, BufferAssumption DEF IInv, TypeOK
<1> QED
  BY <1>2, <1>5, <1>6 DEF IInv, AtCommand

\* A step of the loop moves on, hands over what is in front of a command, or
\* refuses the command.
LEMMA LoopKeeps ==
  ASSUME IInv, GiveInFront \/ Refuse \/ PlainByte \/ EndOfSegment \/ Leave
  PROVE  IInv'
<1>1. UNCHANGED <<rbuffer, rbuff, whole>>
  BY DEF GiveInFront, Refuse, PlainByte, EndOfSegment, Leave
<1>2. Filled'
  BY <1>1 DEF IInv, Filled
<1>3. CASE GiveInFront
  <2>1. ri \in 0 .. rbuff /\ ri < rbuff
    BY <1>3 DEF GiveInFront, IInv, TypeOK
  <2>2. data' \in Seq(Bytes)
    BY <1>3, <2>1, GivenIsBytes DEF GiveInFront
  <2>3. pc' = "refuse" /\ ri' = ri /\ last' = last
    BY <1>3 DEF GiveInFront
  <2> QED
    BY <1>1, <1>2, <2>1, <2>2, <2>3 DEF IInv, TypeOK, AtCommand
<1>4. CASE Refuse
  <2>1. pc' = "scan" /\ ri' = ri + 3 /\ last' = ri + 3 /\ data' = data
    BY <1>4 DEF Refuse
  <2>2. ri \in 0 .. rbuff /\ ri < rbuff
    BY <1>4 DEF Refuse, IInv, TypeOK, AtCommand
  <2> QED
    BY <1>1, <1>2, <2>1, <2>2 DEF IInv, TypeOK, AtCommand
<1>5. CASE PlainByte
  BY <1>1, <1>2, <1>5 DEF PlainByte, IInv, TypeOK, AtCommand
<1>6. CASE EndOfSegment
  <2>1. data' \in Seq(Bytes)
    BY <1>6, GivenIsBytes DEF EndOfSegment, IInv, TypeOK
  <2> QED
    BY <1>1, <1>2, <1>6, <2>1 DEF EndOfSegment, IInv, TypeOK, AtCommand
<1>7. CASE Leave
  BY <1>1, <1>2, <1>7 DEF Leave, IInv, TypeOK, AtCommand
<1> QED
  BY <1>3, <1>4, <1>5, <1>6, <1>7

LEMMA AlwaysIInv == Spec => []IInv
<1>1. Init => IInv
  BY BufferAssumption DEF Init, IInv, TypeOK, Filled, AtCommand
<1>2. IInv /\ [Next]_vars => IInv'
  <2> SUFFICES ASSUME IInv, [Next]_vars
               PROVE  IInv'
    OBVIOUS
  <2>1. ASSUME NEW n \in Lengths, NEW segment \in [1 .. n -> Bytes],
               Recv(segment)
        PROVE  IInv'
    BY <2>1, RecvKeeps
  <2>2. CASE GiveInFront \/ Refuse \/ PlainByte \/ EndOfSegment \/ Leave
    BY <2>2, LoopKeeps
  <2>3. CASE UNCHANGED vars
    BY <2>3 DEF vars, IInv, TypeOK, Filled, AtCommand
  <2> QED
    BY <2>1, <2>2, <2>3 DEF Next, Over
<1> QED
  BY <1>1, <1>2, PTL DEF Spec

\* For every alphabet and buffer size: the loop's positions stay within a
\* command of the segment's end, and what is handed over was received
\* (celnet.c 107-196).
THEOREM OnlyReceivedBytes == Spec => []TypeOK
<1>1. IInv => TypeOK
  BY DEF IInv
<1> QED
  BY <1>1, AlwaysIInv, PTL

-----------------------------------------------------------------------------
(* Commands in a stream                                                      *)

\* What Kind is from one byte to the next.
After1(before, b) == IF before > 1 THEN before - 1 ELSE IF b = "iac" THEN 3 ELSE 0
IsKind(f, s) ==
  /\ f \in [0 .. Len(s) -> 0 .. 3] /\ f[0] = 0
  /\ \A i \in 1 .. Len(s) : f[i] = After1(f[i - 1], s[i])

LEMMA KindSteps ==
  ASSUME NEW T, NEW s \in Seq(T)
  PROVE  IsKind(Kind(s), s)
<1> DEFINE Body(f) == [i \in 0 .. Len(s) |->
                         IF i = 0 THEN 0
                         ELSE LET before == f[i - 1]
                              IN  IF before > 1 THEN before - 1
                                  ELSE IF s[i] = "iac" THEN 3 ELSE 0]
           step == [i \in 1 .. Len(s) |-> [x \in 0 .. 3 |-> After1(x, s[i])]]
<1>1. Len(s) \in Nat /\ 0 \in 0 .. 3
  OBVIOUS
<1>2. step \in [1 .. Len(s) -> [0 .. 3 -> 0 .. 3]]
  BY DEF After1
<1>3. \A i \in 1 .. Len(s), x \in 0 .. 3 : step[i][x] = After1(x, s[i])
  OBVIOUS
<1> HIDE DEF step
<1>4. PICK f : GoesOn(f, Len(s), 0 .. 3, 0, step)
  <2>1. step \in Steps(Len(s), 0 .. 3)
    BY <1>2 DEF Steps
  <2> QED
    BY <1>1, <2>1, Recursion
<1>5. IsKind(f, s)
  <2>1. ASSUME NEW i \in 1 .. Len(s)
        PROVE  f[i] = After1(f[i - 1], s[i])
    <3>1. i - 1 \in 0 .. Len(s)
      BY <1>1
    <3>2. f[i - 1] \in 0 .. 3
      BY <1>4, <3>1 DEF GoesOn
    <3> QED
      BY <1>3, <1>4, <3>2 DEF GoesOn
  <2> QED
    BY <1>4, <2>1 DEF GoesOn, IsKind
<1>6. f = Body(f)
  <2>1. \A i \in 0 .. Len(s) : i # 0 => i \in 1 .. Len(s)
    BY <1>1
  <2>2. \A i \in 0 .. Len(s) : f[i] = IF i = 0 THEN 0 ELSE After1(f[i - 1], s[i])
    BY <1>5, <2>1, Zenon DEF IsKind
  <2> QED
    BY <1>5, <2>2 DEF IsKind, After1
<1>7. Kind(s) = CHOOSE g : g = Body(g)
  BY DEF Kind
<1>8. Kind(s) = Body(Kind(s))
  <2> HIDE DEF Body
  <2> QED
    BY <1>6, <1>7
<1>9. /\ Kind(s)[0] = 0
      /\ \A i \in 1 .. Len(s) : Kind(s)[i] = After1(Kind(s)[i - 1], s[i])
  <2> DEFINE k == Kind(s)
  <2>1. k = Body(k)
    BY <1>8
  <2> HIDE DEF k
  <2>2. \A i \in 0 .. Len(s) : k[i] = Body(k)[i]
    BY <2>1
  <2>3. k[0] = 0 /\ \A i \in 1 .. Len(s) : k[i] = After1(k[i - 1], s[i])
    BY <1>1, <2>2 DEF After1
  <2> QED
    BY <2>3 DEF k
<1>10. Alike(f, Kind(s), Len(s))
  <2>1. f[0] = Kind(s)[0]
    BY <1>5, <1>9 DEF IsKind
  <2>2. StepAlike(f, Kind(s), Len(s))
    BY <1>5, <1>9 DEF IsKind, StepAlike
  <2> HIDE DEF Body
  <2> QED
    BY <1>1, <2>1, <2>2, SameSteps
<1>11. DOMAIN Kind(s) = 0 .. Len(s) /\ Kind(s) = [i \in DOMAIN Kind(s) |-> Kind(s)[i]]
  <2> DEFINE k == Kind(s)
  <2>1. k = Body(k)
    BY <1>8
  <2> HIDE DEF k
  <2>2. DOMAIN k = 0 .. Len(s) /\ k = [i \in DOMAIN k |-> k[i]]
    BY <2>1
  <2> QED
    BY <2>2 DEF k
<1>12. \A i \in 0 .. Len(s) : Kind(s)[i] \in 0 .. 3
  BY <1>5, <1>10 DEF IsKind, Alike
<1>13. Kind(s) \in [0 .. Len(s) -> 0 .. 3]
  <2> HIDE DEF Body
  <2> QED
    BY <1>11, <1>12, Zenon
<1> QED
  BY <1>9, <1>13 DEF IsKind

\* The kind of a byte depends on what is in front of it only.
LEMMA KindOfFront ==
  ASSUME NEW T, NEW s \in Seq(T), NEW b \in T
  PROVE  /\ Alike(Kind(s), Kind(Append(s, b)), Len(s))
         /\ Kind(Append(s, b))[Len(s) + 1] = After1(Kind(s)[Len(s)], b)
<1> DEFINE t == Append(s, b)
           n == Len(s)
<1>1. /\ t \in Seq(T) /\ Len(t) = n + 1 /\ n \in Nat
      /\ t[n + 1] = b /\ \A i \in 1 .. n : t[i] = s[i]
  OBVIOUS
<1> HIDE DEF t
<1>2. IsKind(Kind(s), s) /\ IsKind(Kind(t), t)
  BY <1>1, KindSteps
<1>3. ASSUME NEW i \in 1 .. n, Kind(s)[i - 1] = Kind(t)[i - 1]
      PROVE  Kind(s)[i] = Kind(t)[i]
  <2>1. i \in 1 .. Len(t) /\ t[i] = s[i]
    BY <1>1
  <2> QED
    BY <1>2, <1>3, <2>1 DEF IsKind
<1>4. Alike(Kind(s), Kind(t), n)
  <2>1. StepAlike(Kind(s), Kind(t), n)
    BY <1>3 DEF StepAlike
  <2>2. Kind(s)[0] = Kind(t)[0]
    BY <1>2 DEF IsKind
  <2> QED
    BY <1>1, <2>1, <2>2, SameSteps
<1>5. Kind(t)[n + 1] = After1(Kind(t)[n], b)
  <2>1. n + 1 \in 1 .. Len(t) /\ (n + 1) - 1 = n
    BY <1>1
  <2> QED
    BY <1>1, <1>2, <2>1 DEF IsKind
<1>6. Kind(s)[n] = Kind(t)[n]
  BY <1>1, <1>4 DEF Alike
<1> QED
  BY <1>4, <1>5, <1>6 DEF t

End(s) == Kind(s)[Len(s)]

LEMMA EndType ==
  ASSUME NEW T, NEW s \in Seq(T)
  PROVE  End(s) \in 0 .. 3
<1>1. Len(s) \in 0 .. Len(s)
  OBVIOUS
<1> QED
  BY <1>1, KindSteps DEF IsKind, End

\* One more byte.
LEMMA OfKindAppend ==
  ASSUME NEW T, NEW s \in Seq(T), NEW b \in T, NEW k
  PROVE  /\ End(Append(s, b)) = After1(End(s), b)
         /\ OfKind(Append(s, b), k) =
              IF End(Append(s, b)) = k THEN Append(OfKind(s, k), b) ELSE OfKind(s, k)
         /\ OfKind(s, k) \in Seq(T)
<1> DEFINE t == Append(s, b)
           n == Len(s)
           P == {i \in DOMAIN s : Kind(s)[i] = k}
           Q == {i \in DOMAIN t : Kind(t)[i] = k}
<1>1. /\ t \in Seq(T) /\ Len(t) = n + 1 /\ n \in Nat
      /\ DOMAIN t = 1 .. n + 1 /\ DOMAIN s = 1 .. n
  OBVIOUS
<1>2. Alike(Kind(s), Kind(t), n) /\ Kind(t)[n + 1] = After1(Kind(s)[n], b)
  BY KindOfFront
<1>3. End(t) = After1(End(s), b) /\ End(t) = Kind(t)[n + 1]
  <2> HIDE DEF t
  <2> QED
    BY <1>1, <1>2 DEF End
<1>4. OfKind(t, k) = Picked(t, Q) /\ OfKind(s, k) = Picked(s, P)
  BY DEF OfKind
<1>5. Picked(t, Q) = IF n + 1 \in Q THEN Append(Picked(s, Q), b) ELSE Picked(s, Q)
  <2> HIDE DEF Q
  <2> QED
    BY PickedAppend
<1>6. n + 1 \in Q <=> End(t) = k
  <2> HIDE DEF t
  <2> QED
    BY <1>1, <1>3
<1>7. Picked(s, Q) = Picked(s, P)
  <2> HIDE DEF t
  <2>1. \A i \in 1 .. Len(s) : i \in Q <=> i \in P
    BY <1>1, <1>2 DEF Alike
  <2> HIDE DEF P, Q
  <2> QED
    BY <2>1, PickedSame
<1>8. Picked(s, P) \in Seq(T)
  <2> HIDE DEF P
  <2> QED
    BY PickedType
<1> HIDE DEF P, Q
<1> QED
  BY <1>3, <1>4, <1>5, <1>6, <1>7, <1>8

LEMMA OfKindType ==
  ASSUME NEW T, NEW s \in Seq(T), NEW k
  PROVE  OfKind(s, k) \in Seq(T)
  BY PickedType DEF OfKind

LEMMA NothingOfKind ==
  ASSUME NEW k
  PROVE  OfKind(<<>>, k) = <<>> /\ End(<<>>) = 0
<1>1. <<>> \in Seq({}) /\ Len(<<>>) = 0
  OBVIOUS
<1>2. Kind(<<>>)[0] = 0
  BY <1>1, KindSteps DEF IsKind
<1> QED
  BY <1>1, <1>2, PickedNone DEF OfKind, End

OneMore(s, b, t) ==
  /\ t \in Seq(Bytes) /\ End(t) = After1(End(s), b)
  /\ \A k : OfKind(t, k) = IF End(t) = k THEN Append(OfKind(s, k), b) ELSE OfKind(s, k)

LEMMA ByteAppend ==
  \A s \in Seq(Bytes), b \in Bytes : OneMore(s, b, Append(s, b))
<1> SUFFICES ASSUME NEW s \in Seq(Bytes), NEW b \in Bytes
             PROVE  OneMore(s, b, Append(s, b))
  OBVIOUS
<1>1. Append(s, b) \in Seq(Bytes)
  OBVIOUS
<1> QED
  BY <1>1, OfKindAppend DEF OneMore

LEMMA ByteBehind ==
  \A s \in Seq(Bytes), t \in Seq(Bytes), b \in Bytes :
    s \o Append(t, b) = Append(s \o t, b) /\ s \o t \in Seq(Bytes)
  BY AppendBehind

\* Bytes without an IAC behind the end of a command are data.
LEMMA StretchIsData ==
  ASSUME NEW s \in Seq(Bytes), End(s) <= 1
  PROVE  \A t \in Seq(Bytes \ {"iac"}) :
           /\ End(s \o t) <= 1
           /\ OfKind(s \o t, 0) = OfKind(s, 0) \o t
           /\ OfKind(s \o t, 1) = OfKind(s, 1) /\ OfKind(s \o t, 2) = OfKind(s, 2)
<1> DEFINE T == Bytes \ {"iac"}
           Good(t) == /\ End(s \o t) <= 1
                      /\ OfKind(s \o t, 0) = OfKind(s, 0) \o t
                      /\ OfKind(s \o t, 1) = OfKind(s, 1)
                      /\ OfKind(s \o t, 2) = OfKind(s, 2)
           S == {t \in Seq(T) : Good(t)}
<1>1. <<>> \in S
  <2>1. <<>> \in Seq(T) /\ s \o <<>> = s
    OBVIOUS
  <2>2. OfKind(s, 0) \in Seq(Bytes)
    BY OfKindType
  <2>3. OfKind(s, 0) \o <<>> = OfKind(s, 0)
    BY <2>2
  <2> QED
    BY <2>1, <2>3
<1>2. ASSUME NEW t \in Seq(T), NEW b \in T, t \in S
      PROVE  Append(t, b) \in S
  <2> DEFINE u == s \o t
  <2>1. /\ u \in Seq(Bytes) /\ b \in Bytes /\ b # "iac" /\ Append(t, b) \in Seq(T)
        /\ t \in Seq(Bytes)
    OBVIOUS
  <2>2. s \o Append(t, b) = Append(u, b)
    BY <2>1, ByteBehind
  <2>3. Good(t)
    BY <1>2
  <2> HIDE DEF u
  <2>4. /\ End(u) <= 1 /\ OfKind(u, 0) = OfKind(s, 0) \o t
        /\ OfKind(u, 1) = OfKind(s, 1) /\ OfKind(u, 2) = OfKind(s, 2)
    BY <2>3 DEF u
  <2>5. End(Append(u, b)) = 0
    <3>1. End(Append(u, b)) = After1(End(u), b)
      BY <2>1, ByteAppend DEF OneMore
    <3>2. End(u) \in 0 .. 3
      BY <2>1, EndType
    <3> QED
      BY <2>1, <2>4, <3>1, <3>2 DEF After1
  <2>6. /\ OfKind(Append(u, b), 0) = Append(OfKind(u, 0), b)
        /\ OfKind(Append(u, b), 1) = OfKind(u, 1) /\ OfKind(Append(u, b), 2) = OfKind(u, 2)
    <3>1. OneMore(u, b, Append(u, b))
      BY <2>1, ByteAppend
    <3> QED
      BY <2>5, <3>1 DEF OneMore
  <2>7. Append(OfKind(s, 0) \o t, b) = OfKind(s, 0) \o Append(t, b)
    <3>1. OfKind(s, 0) \in Seq(Bytes)
      BY OfKindType
    <3> QED
      BY <2>1, <3>1, ByteBehind
  <2>8. Good(Append(t, b))
    <3>1. s \o Append(t, b) = Append(u, b)
      BY <2>2
    <3>2. End(Append(u, b)) <= 1
      BY <2>5
    <3>3. OfKind(Append(u, b), 0) = OfKind(s, 0) \o Append(t, b)
      BY <2>4, <2>6, <2>7
    <3>4. OfKind(Append(u, b), 1) = OfKind(s, 1) /\ OfKind(Append(u, b), 2) = OfKind(s, 2)
      BY <2>4, <2>6
    <3> QED
      BY <3>1, <3>2, <3>3, <3>4, Zenon
  <2> HIDE DEF Good
  <2> QED
    BY <2>1, <2>8
<1>3. \A t \in Seq(T) : t \in S
  <2> HIDE DEF S, T
  <2> QED
    BY <1>1, <1>2, SeqInduction
<1> QED
  BY <1>3

\* An IAC and the two bytes behind it are a command.
CommandMore(s, t, c, o) ==
  /\ End(t) = 1 /\ OfKind(t, 0) = OfKind(s, 0)
  /\ OfKind(t, 2) = Append(OfKind(s, 2), c) /\ OfKind(t, 1) = Append(OfKind(s, 1), o)

LEMMA ThreeAreCommand ==
  ASSUME NEW s \in Seq(Bytes), End(s) <= 1, NEW c \in Bytes, NEW o \in Bytes
  PROVE  CommandMore(s, Append(Append(Append(s, "iac"), c), o), c, o)
<1> DEFINE s1 == Append(s, "iac")
           s2 == Append(s1, c)
           s3 == Append(s2, o)
<1>1. s1 \in Seq(Bytes) /\ s2 \in Seq(Bytes) /\ "iac" \in Bytes
  BY DEF Bytes
<1>2. OneMore(s, "iac", s1) /\ OneMore(s1, c, s2) /\ OneMore(s2, o, s3)
  <2>1. \A u, b, v : v = Append(u, b) /\ u \in Seq(Bytes) /\ b \in Bytes => OneMore(u, b, v)
    BY ByteAppend
  <2> QED
    BY <1>1, <2>1
<1> HIDE DEF s1, s2, s3
<1>3. End(s1) = 3
  <2>1. End(s1) = After1(End(s), "iac")
    BY <1>2 DEF OneMore
  <2>2. End(s) \in 0 .. 3
    BY EndType
  <2> QED
    BY <2>1, <2>2 DEF After1
<1>4. End(s2) = 2
  <2>1. End(s2) = After1(End(s1), c)
    BY <1>2 DEF OneMore
  <2> QED
    BY <1>3, <2>1 DEF After1
<1>5. End(s3) = 1
  <2>1. End(s3) = After1(End(s2), o)
    BY <1>2 DEF OneMore
  <2> QED
    BY <1>4, <2>1 DEF After1
<1>6. /\ OfKind(s1, 0) = OfKind(s, 0) /\ OfKind(s1, 1) = OfKind(s, 1)
      /\ OfKind(s1, 2) = OfKind(s, 2)
  BY <1>1, <1>3, <1>2 DEF OneMore
<1>7. /\ OfKind(s2, 0) = OfKind(s1, 0) /\ OfKind(s2, 1) = OfKind(s1, 1)
      /\ OfKind(s2, 2) = Append(OfKind(s1, 2), c)
  BY <1>1, <1>4, <1>2 DEF OneMore
<1>8. /\ OfKind(s3, 0) = OfKind(s2, 0) /\ OfKind(s3, 1) = Append(OfKind(s2, 1), o)
      /\ OfKind(s3, 2) = OfKind(s2, 2)
  BY <1>1, <1>5, <1>2 DEF OneMore
<1>9. CommandMore(s, s3, c, o)
  BY <1>5, <1>6, <1>7, <1>8 DEF CommandMore
<1> QED
  BY <1>9 DEF s1, s2, s3

\* A beginning of a sequence and the one longer by one.
LEMMA FrontAppend ==
  ASSUME NEW T, NEW s \in Seq(T), NEW n \in 0 .. Len(s) - 1
  PROVE  /\ SubSeq(s, 1, n + 1) = Append(SubSeq(s, 1, n), s[n + 1])
         /\ SubSeq(s, 1, n) \in Seq(T) /\ s[n + 1] \in T
<1>1. n \in Nat /\ n + 1 \in 1 .. Len(s)
  OBVIOUS
<1>2. SubSeq(s, 1, n) \in Seq(T) /\ Len(SubSeq(s, 1, n)) = n /\ s[n + 1] \in T
  BY <1>1
<1>3. SubSeq(s, 1, n + 1) = Append(SubSeq(s, 1, n), s[n + 1])
  BY <1>1
<1> QED
  BY <1>2, <1>3

LEMMA FrontJoin ==
  ASSUME NEW T, NEW s \in Seq(T), NEW m \in 0 .. Len(s), NEW n \in m .. Len(s)
  PROVE  /\ SubSeq(s, 1, n) = SubSeq(s, 1, m) \o SubSeq(s, m + 1, n)
         /\ SubSeq(s, 1, m) \in Seq(T) /\ SubSeq(s, m + 1, n) \in Seq(T)
         /\ Len(SubSeq(s, m + 1, n)) = n - m
         /\ \A i \in 1 .. n - m : SubSeq(s, m + 1, n)[i] = s[m + i]
<1>1. m \in Nat /\ n \in Nat /\ m <= n /\ Len(s) \in Nat
  OBVIOUS
<1>2. /\ SubSeq(s, 1, m) \in Seq(T) /\ Len(SubSeq(s, 1, m)) = m
      /\ \A i \in 1 .. m : SubSeq(s, 1, m)[i] = s[i]
  BY <1>1
<1>3. /\ SubSeq(s, m + 1, n) \in Seq(T) /\ Len(SubSeq(s, m + 1, n)) = n - m
      /\ \A i \in 1 .. n - m : SubSeq(s, m + 1, n)[i] = s[m + i]
  BY <1>1
<1>4. SubSeq(s, 1, n) = SubSeq(s, 1, m) \o SubSeq(s, m + 1, n)
  BY <1>1
<1> QED
  BY <1>2, <1>3, <1>4

Beginning(s, n) == SubSeq(s, 1, n)

LEMMA FrontOneMore ==
  ASSUME NEW s \in Seq(Bytes), NEW n \in 0 .. Len(s) - 1
  PROVE  /\ OneMore(Beginning(s, n), s[n + 1], Beginning(s, n + 1))
         /\ Beginning(s, n + 1) = Append(Beginning(s, n), s[n + 1])
         /\ Beginning(s, n) \in Seq(Bytes) /\ s[n + 1] \in Bytes
<1>1. /\ Beginning(s, n + 1) = Append(Beginning(s, n), s[n + 1])
      /\ Beginning(s, n) \in Seq(Bytes) /\ s[n + 1] \in Bytes
  BY FrontAppend DEF Beginning
<1> QED
  BY <1>1, ByteAppend

\* An IAC outside a command has its two bytes in the stream if no command is
\* left open at its end.
LEMMA CommandInFront ==
  ASSUME NEW s \in Seq(Bytes), NEW n \in 0 .. Len(s) - 1, End(Beginning(s, n)) <= 1,
         s[n + 1] = "iac", End(s) <= 1
  PROVE  /\ n + 3 <= Len(s) /\ End(Beginning(s, n + 3)) = 1
         /\ OfKind(Beginning(s, n + 3), 0) = OfKind(Beginning(s, n), 0)
         /\ OfKind(Beginning(s, n + 3), 2) = Append(OfKind(Beginning(s, n), 2), s[n + 2])
         /\ OfKind(Beginning(s, n + 3), 1) = Append(OfKind(Beginning(s, n), 1), s[n + 3])
<1>1. n \in Nat /\ Len(s) \in Nat /\ n < Len(s)
  OBVIOUS
<1>2. Beginning(s, Len(s)) = s
  BY DEF Beginning
<1>3. End(Beginning(s, n + 1)) = 3
  <2>1. OneMore(Beginning(s, n), "iac", Beginning(s, n + 1)) /\ Beginning(s, n) \in Seq(Bytes)
    BY FrontOneMore
  <2>2. End(Beginning(s, n)) \in 0 .. 3
    BY <2>1, EndType
  <2> QED
    BY <2>1, <2>2 DEF OneMore, After1
<1>4. n + 1 \in 0 .. Len(s) - 1
  BY <1>1, <1>2, <1>3
<1>5. /\ OneMore(Beginning(s, n + 1), s[n + 2], Beginning(s, n + 2)) /\ s[n + 2] \in Bytes
      /\ Beginning(s, n + 2) = Append(Beginning(s, n + 1), s[n + 2])
  <2>1. (n + 1) + 1 = n + 2
    BY <1>1
  <2> QED
    BY <1>4, <2>1, FrontOneMore
<1>6. End(Beginning(s, n + 2)) = 2
  BY <1>3, <1>5 DEF OneMore, After1
<1>7. n + 2 \in 0 .. Len(s) - 1
  BY <1>1, <1>2, <1>4, <1>6
<1>8. /\ s[n + 3] \in Bytes /\ Beginning(s, n + 3) = Append(Beginning(s, n + 2), s[n + 3])
  <2>1. (n + 2) + 1 = n + 3
    BY <1>1
  <2> QED
    BY <1>7, <2>1, FrontOneMore
<1>9. Beginning(s, n) \in Seq(Bytes) /\ Beginning(s, n + 1) = Append(Beginning(s, n), "iac")
  BY FrontOneMore
<1> DEFINE s0 == Beginning(s, n)
           s1 == Beginning(s, n + 1)
           s2 == Beginning(s, n + 2)
           s3 == Beginning(s, n + 3)
           c == s[n + 2]
           o == s[n + 3]
<1>10. /\ s0 \in Seq(Bytes) /\ End(s0) <= 1 /\ c \in Bytes /\ o \in Bytes
       /\ s1 = Append(s0, "iac") /\ s2 = Append(s1, c) /\ s3 = Append(s2, o)
  BY <1>5, <1>8, <1>9
<1> HIDE DEF s0, s1, s2, s3, c, o
<1>11. /\ End(s3) = 1 /\ OfKind(s3, 0) = OfKind(s0, 0)
       /\ OfKind(s3, 2) = Append(OfKind(s0, 2), c)
       /\ OfKind(s3, 1) = Append(OfKind(s0, 1), o)
  <2>1. s3 = Append(Append(Append(s0, "iac"), c), o)
    BY <1>10
  <2>2. CommandMore(s0, s3, c, o)
    BY <1>10, <2>1, ThreeAreCommand
  <2> QED
    BY <2>2 DEF CommandMore
<1> QED
  BY <1>1, <1>7, <1>11 DEF s0, s3, c, o

-----------------------------------------------------------------------------
(* What the loop has dealt with                                              *)

\* Handing over the data in front of end deals with all in front of it.
LEMMA GivingDeals ==
  ASSUME AccountInv, whole, pc = "scan", NEW end \in last .. rbuff,
         \A i \in last .. end - 1 : rbuffer[i] # "iac",
         data' = Given(end), UNCHANGED <<received, sent, rbuff>>
  PROVE  DealtWith(Before + end)'
<1> DEFINE m == Before + last
           e == Before + end
           p == SubSeq(received, 1, m)
           t == SubSeq(received, m + 1, e)
           q == SubSeq(received, 1, e)
<1>1. /\ received \in Seq(Bytes) /\ Before \in Nat /\ m \in 0 .. Len(received)
      /\ e \in m .. Len(received) /\ end - last = e - m /\ end \in Nat /\ last \in Nat
      /\ rbuff \in Nat /\ end <= rbuff /\ Len(received) \in Nat
  BY DEF AccountInv, IInv, TypeOK, Before
<1>2. DealtWith(m) /\ SegmentIsRead
  BY DEF AccountInv, Accounted
<1> HIDE DEF m, e
<1>3. /\ q = p \o t /\ p \in Seq(Bytes) /\ t \in Seq(Bytes) /\ Len(t) = e - m
      /\ \A i \in 1 .. e - m : t[i] = received[m + i]
  <2>1. /\ received \in Seq(Bytes) /\ m \in 0 .. Len(received) /\ e \in m .. Len(received)
    BY <1>1
  <2>2. q = p \o t /\ p \in Seq(Bytes) /\ t \in Seq(Bytes)
    BY <2>1, FrontJoin
  <2>3. Len(t) = e - m /\ \A i \in 1 .. e - m : t[i] = received[m + i]
    BY <2>1, FrontJoin
  <2> QED
    BY <2>2, <2>3
<1>4. \A i \in 1 .. e - m : t[i] = rbuffer[last + i - 1]
  <2> TAKE i \in 1 .. e - m
  <2>1. last + i - 1 \in 0 .. rbuff - 1 /\ Before + (last + i - 1) + 1 = m + i
    BY <1>1 DEF m, e
  <2>2. rbuffer[last + i - 1] = received[Before + (last + i - 1) + 1]
    BY <1>2, <2>1 DEF SegmentIsRead
  <2> QED
    BY <1>3, <2>1, <2>2
<1>5. t \in Seq(Bytes \ {"iac"})
  <2>1. \A i \in 1 .. Len(t) : t[i] \in Bytes \ {"iac"}
    <3> TAKE i \in 1 .. Len(t)
    <3>1. last + i - 1 \in last .. end - 1 /\ i \in 1 .. e - m
      BY <1>1, <1>3
    <3>2. t[i] = rbuffer[last + i - 1] /\ t[i] \in Bytes
      <4> HIDE DEF t
      <4> QED
        BY <1>3, <1>4, <3>1
    <3> HIDE DEF t
    <3> QED
      BY <3>1, <3>2
  <2> HIDE DEF t
  <2> QED
    BY <1>3, <2>1
<1>6. data' = data \o t
  <2>1. CASE last < end
    <3>1. DataUpTo(end) = t
      <4>1. DOMAIN t = 1 .. end - last /\ t = [i \in 1 .. end - last |-> t[i]]
        BY <1>1, <1>3
      <4> HIDE DEF t
      <4> QED
        BY <1>1, <1>4, <4>1 DEF DataUpTo
    <3> QED
      BY <2>1, <3>1 DEF Given
  <2>2. CASE ~(last < end)
    <3>1. Len(t) = 0 /\ data \in Seq(Bytes)
      BY <1>1, <1>3, <2>2 DEF AccountInv, IInv, TypeOK
    <3>2. t = <<>>
      <4> HIDE DEF t
      <4> QED
        BY <1>3, <3>1
    <3>3. data \o <<>> = data
      BY <3>1
    <3> QED
      BY <2>2, <3>2, <3>3 DEF Given
  <2> QED
    BY <2>1, <2>2
<1> HIDE DEF p, t, q
<1>7. /\ End(p) <= 1 /\ data = OfKind(p, 0) /\ sent = Refusals(p)
      /\ Len(OfKind(p, 1)) = Len(OfKind(p, 2))
  <2>1. End(p) \in 0 .. 3
    BY <1>3, EndType
  <2> QED
    BY <1>2, <2>1 DEF DealtWith, EndsInCommand, End, p
<1>8. /\ End(q) <= 1 /\ OfKind(q, 0) = OfKind(p, 0) \o t
      /\ OfKind(q, 1) = OfKind(p, 1) /\ OfKind(q, 2) = OfKind(p, 2)
  BY <1>3, <1>5, <1>7, StretchIsData
<1>9. Refusals(q) = Refusals(p)
  BY <1>8 DEF Refusals
<1>10. End(q) \in 0 .. 3
  <2>1. q \in Seq(Bytes)
    BY <1>3
  <2> QED
    BY <2>1, EndType
<1>11. /\ ~EndsInCommand(q) /\ data' = OfKind(q, 0) /\ sent = Refusals(q)
       /\ Len(OfKind(q, 1)) = Len(OfKind(q, 2))
  BY <1>6, <1>7, <1>8, <1>9, <1>10 DEF EndsInCommand, End
<1>12. e \in 0 .. Len(received) /\ Before' = Before
  BY <1>1 DEF Before
<1> QED
  BY <1>11, <1>12 DEF DealtWith, q, e, Refusals

\* A byte of the segment is what reading the buffer there gives.
LEMMA ReadsSegment ==
  ASSUME AccountInv, whole, pc \in {"scan", "refuse"}, NEW i \in 0 .. rbuff - 1
  PROVE  /\ Read(i) = {received[Before + i + 1]}
         /\ rbuffer[i] = received[Before + i + 1]
<1>1. rbuffer[i] = received[Before + i + 1]
  BY DEF AccountInv, Accounted, SegmentIsRead
<1>2. /\ rbuff \in 0 .. BufferSize
      /\ rbuffer \in [0 .. BufferSize - 1 -> Bytes \cup {"unset"}]
      /\ rbuffer[i] \in Bytes /\ BufferSize \in Nat
  BY BufferAssumption DEF AccountInv, IInv, TypeOK, Filled
<1>3. i \in DOMAIN rbuffer
  BY <1>2
<1>4. rbuffer[i] # "unset"
  BY <1>2, UnsetAssumption
<1> QED
  BY <1>1, <1>3, <1>4 DEF Read

\* A refusal more for a command more.
LEMMA RefusalsAppend ==
  ASSUME NEW s \in Seq(Bytes), NEW t, NEW c \in Bytes, NEW o \in Bytes,
         Len(OfKind(s, 1)) = Len(OfKind(s, 2)),
         OfKind(t, 2) = Append(OfKind(s, 2), c), OfKind(t, 1) = Append(OfKind(s, 1), o)
  PROVE  /\ Refusals(t) = Append(Refusals(s), Refusal(c, o))
         /\ Len(OfKind(t, 1)) = Len(OfKind(t, 2))
<1> DEFINE a == OfKind(s, 2)
           b == OfKind(s, 1)
           n == Len(a)
<1>1. a \in Seq(Bytes) /\ b \in Seq(Bytes)
  BY OfKindType
<1> HIDE DEF a, b
<1>2. n \in Nat /\ Len(b) = n /\ DOMAIN a = 1 .. n
  BY <1>1 DEF a, b
<1>3. /\ Len(Append(a, c)) = n + 1 /\ Len(Append(b, o)) = n + 1
      /\ DOMAIN Append(a, c) = 1 .. n + 1
      /\ Append(a, c)[n + 1] = c /\ Append(b, o)[n + 1] = o
      /\ \A i \in 1 .. n : Append(a, c)[i] = a[i] /\ Append(b, o)[i] = b[i]
  BY <1>1, <1>2
<1> HIDE DEF n
<1>4. Refusals(t) = [i \in 1 .. n + 1 |-> Refusal(Append(a, c)[i], Append(b, o)[i])]
  BY <1>3 DEF Refusals, a, b
<1>5. Refusals(s) = [i \in 1 .. n |-> Refusal(a[i], b[i])]
  BY <1>2 DEF Refusals, a, b
<1>6. Append(Refusals(s), Refusal(c, o)) =
        [i \in 1 .. n + 1 |-> IF i = n + 1 THEN Refusal(c, o) ELSE Refusal(a[i], b[i])]
  <2> DEFINE r == [i \in 1 .. n |-> Refusal(a[i], b[i])]
             x == Refusal(c, o)
             T == {r[i] : i \in 1 .. n} \cup {x}
  <2>1. r \in Seq(T) /\ Len(r) = n /\ x \in T
    <3>1. r \in [1 .. n -> T]
      OBVIOUS
    <3> HIDE DEF r, T
    <3>2. r \in Seq(T) /\ Len(r) = n
      BY <1>2, <3>1
    <3> QED
      BY <3>2 DEF T
  <2>2. Append(r, x) = [i \in 1 .. n + 1 |-> IF i = n + 1 THEN x ELSE r[i]]
    <3> HIDE DEF r, x, T
    <3> DEFINE y == Append(r, x)
    <3>1. y \in Seq(T) /\ Len(y) = n + 1
      BY <1>2, <2>1
    <3>2. y[n + 1] = x /\ \A i \in 1 .. n : y[i] = r[i]
      BY <1>2, <2>1
    <3>3. \A i \in 1 .. n + 1 : i # n + 1 => i \in 1 .. n
      BY <1>2
    <3> HIDE DEF y
    <3>4. y = [i \in 1 .. n + 1 |-> y[i]]
      BY <3>1
    <3>5. \A i \in 1 .. n + 1 : y[i] = IF i = n + 1 THEN x ELSE r[i]
      BY <3>2, <3>3
    <3>6. y = [i \in 1 .. n + 1 |-> IF i = n + 1 THEN x ELSE r[i]]
      BY <3>4, <3>5
    <3> QED
      BY <3>6 DEF y
  <2>3. \A i \in 1 .. n + 1 : i # n + 1 => i \in 1 .. n
    BY <1>2
  <2>4. \A i \in 1 .. n : r[i] = Refusal(a[i], b[i])
    OBVIOUS
  <2> HIDE DEF r
  <2> QED
    BY <1>5, <2>2, <2>3, <2>4 DEF r
<1>7. \A i \in 1 .. n + 1 :
        Refusal(Append(a, c)[i], Append(b, o)[i]) =
          IF i = n + 1 THEN Refusal(c, o) ELSE Refusal(a[i], b[i])
  <2>1. \A i \in 1 .. n + 1 : i # n + 1 => i \in 1 .. n
    BY <1>2
  <2> QED
    BY <1>3, <2>1
<1>8. Refusals(t) = Append(Refusals(s), Refusal(c, o))
  BY <1>4, <1>6, <1>7
<1> QED
  BY <1>3, <1>8 DEF a, b

\* The two bytes behind an IAC are in its segment, and the refusal is theirs.
LEMMA RefusingDeals ==
  ASSUME AccountInv, whole, Refuse
  PROVE  ri + 3 <= rbuff /\ DealtWith(Before + last)'
<1> DEFINE n == Before + ri
<1>1. /\ pc = "refuse" /\ DealtWith(n) /\ rbuffer[ri] = "iac" /\ ri < rbuff
      /\ ~EndsInCommand(received)
  BY DEF Refuse, AccountInv, Accounted, IInv, AtCommand
<1>2. /\ received \in Seq(Bytes) /\ ri \in Nat /\ rbuff \in Nat /\ Before \in Nat
      /\ Before + rbuff = Len(received) /\ n \in 0 .. Len(received) - 1
  BY <1>1 DEF AccountInv, IInv, TypeOK, Before
<1>3. received[n + 1] = "iac"
  <2>1. ri \in 0 .. rbuff - 1
    BY <1>1, <1>2
  <2> QED
    BY <1>1, <2>1, ReadsSegment
<1>4. /\ Beginning(received, n) \in Seq(Bytes) /\ n \in Nat
  BY <1>2 DEF Beginning
<1>5. End(Beginning(received, n)) <= 1 /\ End(received) <= 1
  <2>1. End(Beginning(received, n)) \in 0 .. 3 /\ End(received) \in 0 .. 3
    BY <1>2, <1>4, EndType
  <2> QED
    BY <1>1, <2>1 DEF DealtWith, EndsInCommand, End, Beginning
<1> DEFINE s == Beginning(received, n)
           t == Beginning(received, n + 3)
           c == received[n + 2]
           o == received[n + 3]
<1>6. /\ n + 3 <= Len(received) /\ End(t) = 1
      /\ OfKind(t, 0) = OfKind(s, 0)
      /\ OfKind(t, 2) = Append(OfKind(s, 2), c) /\ OfKind(t, 1) = Append(OfKind(s, 1), o)
  <2> HIDE DEF n
  <2> QED
    BY <1>2, <1>3, <1>5, CommandInFront
<1>7. c \in Bytes /\ o \in Bytes
  <2>1. n + 2 \in 1 .. Len(received) /\ n + 3 \in 1 .. Len(received)
    BY <1>4, <1>6
  <2> QED
    BY <1>2, <2>1
<1>8. /\ data = OfKind(s, 0) /\ sent = Refusals(s)
      /\ Len(OfKind(s, 1)) = Len(OfKind(s, 2))
  BY <1>1 DEF DealtWith, Beginning
<1>9. Refusals(t) = Append(sent, Refusal(c, o)) /\ Len(OfKind(t, 1)) = Len(OfKind(t, 2))
  <2> HIDE DEF s, t, c, o
  <2> QED
    BY <1>4, <1>6, <1>7, <1>8, RefusalsAppend DEF s
<1>10. ri + 3 <= rbuff
  BY <1>2, <1>6
<1>11. sent' = Append(sent, Refusal(c, o)) /\ UNCHANGED <<data, received, rbuff>>
  <2>1. /\ ri + 1 \in 0 .. rbuff - 1 /\ ri + 2 \in 0 .. rbuff - 1
        /\ Before + (ri + 1) + 1 = n + 2 /\ Before + (ri + 2) + 1 = n + 3
    BY <1>2, <1>10
  <2>2. Read(ri + 1) = {c} /\ Read(ri + 2) = {o}
    BY <1>1, <2>1, ReadsSegment
  <2> HIDE DEF c, o
  <2> QED
    BY <2>2 DEF Refuse
<1>12. (Before + last)' = n + 3 /\ n + 3 \in 0 .. Len(received)
  <2>1. last' = ri + 3 /\ Before' = Before
    BY <1>11 DEF Refuse, Before
  <2> QED
    BY <1>2, <1>4, <1>6, <2>1
<1>13. ~EndsInCommand(t)
  BY <1>6 DEF EndsInCommand, End
<1>14. DealtWith(Before + last)'
  <2> SUFFICES /\ ~EndsInCommand(t) /\ data = OfKind(t, 0) /\ sent' = Refusals(t)
               /\ Len(OfKind(t, 1)) = Len(OfKind(t, 2))
    BY <1>11, <1>12 DEF DealtWith, Beginning, Refusals
  <2> HIDE DEF t, s, c, o
  <2> QED
    BY <1>6, <1>8, <1>9, <1>11, <1>13
<1> QED
  BY <1>10, <1>14

\* A segment leaves what was received before it dealt with.
LEMMA RecvAccounts ==
  ASSUME AccountInv, NEW n \in Lengths, NEW segment \in [1 .. n -> Bytes],
         Recv(segment)
  PROVE  AccountInv'
<1>1. /\ n \in 1 .. BufferSize /\ Len(segment) = n /\ segment \in Seq(Bytes)
      /\ n \in Nat /\ BufferSize \in Nat
  BY BufferAssumption DEF Lengths
<1>2. /\ pc = "recv" /\ rbuff' = n /\ ri' = 0 /\ last' = 0 /\ pc' = "scan"
      /\ received' = received \o segment /\ whole' = (whole /\ ~EndsInCommand(received'))
      /\ UNCHANGED <<data, sent>>
      /\ rbuffer' = [i \in DOMAIN rbuffer |->
                       IF i < n THEN segment[i + 1] ELSE rbuffer[i]]
  BY <1>1 DEF Recv
<1>3. IInv'
  BY RecvKeeps DEF AccountInv
<1>4. /\ received \in Seq(Bytes) /\ Len(received) \in Nat
      /\ received' \in Seq(Bytes) /\ Len(received') = Len(received) + n
      /\ \A i \in 1 .. n : received'[Len(received) + i] = segment[i]
  <2>1. received \in Seq(Bytes)
    BY DEF AccountInv
  <2>2. Len(received) \in Nat
    BY <2>1
  <2>3. /\ received \o segment \in Seq(Bytes)
        /\ Len(received \o segment) = Len(received) + n
        /\ \A i \in 1 .. n : (received \o segment)[Len(received) + i] = segment[i]
    BY <1>1, <2>1
  <2> QED
    BY <1>2, <2>1, <2>2, <2>3
<1>5. /\ Beginning(received', Len(received)) = received
      /\ Beginning(received, Len(received)) = received
  BY <1>1, <1>2, <1>4 DEF Beginning
<1>6. Before' = Len(received)
  BY <1>1, <1>2, <1>4 DEF Before
<1>7. ASSUME whole'
      PROVE  DealtWith(Before + last)' /\ SegmentIsRead'
  <2>1. DealtWith(Len(received))
    BY <1>2, <1>7 DEF AccountInv, Accounted
  <2>2. (Before + last)' = Len(received) /\ Len(received) \in 0 .. Len(received')
    BY <1>1, <1>2, <1>4, <1>6
  <2>3. DealtWith(Before + last)'
    BY <1>2, <1>5, <2>1, <2>2 DEF DealtWith, Beginning, Refusals
  <2>4. ASSUME NEW i \in 0 .. rbuff' - 1
        PROVE  rbuffer'[i] = received'[Before' + i + 1]
    <3>1. i < n /\ i + 1 \in 1 .. n /\ i \in DOMAIN rbuffer
      BY <1>1, <1>2 DEF AccountInv, IInv, TypeOK
    <3>2. rbuffer'[i] = segment[i + 1]
      BY <1>2, <3>1
    <3>3. received'[Len(received) + (i + 1)] = segment[i + 1]
      BY <1>4, <3>1
    <3>4. Before' + i + 1 = Len(received) + (i + 1)
      BY <1>4, <1>6
    <3> QED
      BY <3>2, <3>3, <3>4
  <2> QED
    BY <2>3, <2>4 DEF SegmentIsRead
<1>8. Accounted'
  <2>1. \A i \in last' .. ri' - 1 : rbuffer'[i] # "iac"
    BY <1>2
  <2>2. ri' <= rbuff' /\ pc' # "recv" /\ pc' # "refuse"
    BY <1>1, <1>2
  <2>3. whole' => ~EndsInCommand(received')
    BY <1>2
  <2> QED
    BY <1>7, <2>1, <2>2, <2>3 DEF Accounted
<1> QED
  BY <1>1, <1>2, <1>3, <1>4, <1>8 DEF AccountInv

LEMMA LoopAccounts ==
  ASSUME AccountInv, GiveInFront \/ Refuse \/ PlainByte \/ EndOfSegment \/ Leave
  PROVE  AccountInv'
<1>1. /\ UNCHANGED <<rbuffer, rbuff, whole, received>> /\ IInv'
      /\ received' \in Seq(Bytes) /\ rbuff' <= Len(received')
  <2>1. UNCHANGED <<rbuffer, rbuff, whole, received>>
    BY DEF GiveInFront, Refuse, PlainByte, EndOfSegment, Leave
  <2>2. IInv'
    BY LoopKeeps DEF AccountInv
  <2> QED
    BY <2>1, <2>2 DEF AccountInv
<1> SUFFICES ASSUME whole
             PROVE  Accounted'
  BY <1>1 DEF AccountInv, Accounted
<1>2. Before' = Before /\ (SegmentIsRead => SegmentIsRead')
  <2>1. Before' = Before
    BY <1>1 DEF Before
  <2> QED
    BY <1>1, <2>1 DEF SegmentIsRead
<1>3. CASE GiveInFront
  <2>1. /\ pc = "scan" /\ ri < rbuff /\ rbuffer[ri] = "iac" /\ data' = Given(ri)
        /\ pc' = "refuse" /\ UNCHANGED <<ri, last, sent>>
    BY <1>3 DEF GiveInFront
  <2>2. /\ \A i \in last .. ri - 1 : rbuffer[i] # "iac"
        /\ SegmentIsRead /\ ~EndsInCommand(received)
    BY <2>1 DEF AccountInv, Accounted
  <2>3. ri \in last .. rbuff
    BY <2>1 DEF AccountInv, IInv, TypeOK
  <2>4. \A end \in last .. rbuff :
          data' = Given(end) /\ (\A i \in last .. end - 1 : rbuffer[i] # "iac")
            => DealtWith(Before + end)'
    BY <1>1, <2>1, GivingDeals
  <2>5. \A end \in last .. rbuff : end = ri => DealtWith(Before + ri)'
    <3> TAKE end \in last .. rbuff
    <3> HAVE end = ri
    <3>1. DealtWith(Before + end)'
      BY <2>1, <2>2, <2>4
    <3>2. (Before + end)' = (Before + ri)'
      BY <2>1
    <3> QED
      BY <3>1, <3>2 DEF DealtWith
  <2>6. DealtWith(Before + ri)'
    BY <2>3, <2>5
  <2> QED
    BY <1>1, <1>2, <2>1, <2>2, <2>6 DEF Accounted
<1>4. CASE Refuse
  <2>1. /\ pc = "refuse" /\ ri' = ri + 3 /\ last' = ri + 3 /\ pc' = "scan"
    BY <1>4 DEF Refuse
  <2>2. ri + 3 <= rbuff /\ DealtWith(Before + last)'
    BY <1>4, RefusingDeals
  <2>3. SegmentIsRead /\ ~EndsInCommand(received)
    BY <2>1 DEF AccountInv, Accounted
  <2>4. \A i \in last' .. ri' - 1 : rbuffer'[i] # "iac"
    BY <2>1 DEF AccountInv, IInv, TypeOK
  <2> QED
    BY <1>1, <1>2, <2>1, <2>2, <2>3, <2>4 DEF Accounted
<1>5. CASE PlainByte
  <2>1. /\ pc = "scan" /\ ri < rbuff /\ rbuffer[ri] # "iac" /\ ri' = ri + 1
        /\ UNCHANGED <<pc, last, data, sent>>
    BY <1>5 DEF PlainByte
  <2>2. /\ \A i \in last .. ri - 1 : rbuffer[i] # "iac"
        /\ SegmentIsRead /\ ~EndsInCommand(received) /\ DealtWith(Before + last)
    BY <2>1 DEF AccountInv, Accounted
  <2>3. \A i \in last' .. ri' - 1 : rbuffer'[i] # "iac"
    BY <1>1, <2>1, <2>2 DEF AccountInv, IInv, TypeOK
  <2>4. DealtWith(Before + last)'
    BY <1>1, <1>2, <2>1, <2>2 DEF DealtWith, Refusals
  <2>5. ri' <= rbuff'
    BY <1>1, <2>1 DEF AccountInv, IInv, TypeOK
  <2> QED
    BY <1>1, <1>2, <2>1, <2>2, <2>3, <2>4, <2>5 DEF Accounted
<1>6. CASE EndOfSegment
  <2>1. /\ pc = "scan" /\ ri >= rbuff /\ data' = Given(rbuff) /\ pc' = "recv"
        /\ UNCHANGED <<ri, last, sent>>
    BY <1>6 DEF EndOfSegment
  <2>2. /\ \A i \in last .. ri - 1 : rbuffer[i] # "iac"
        /\ ri <= rbuff
    BY <2>1 DEF AccountInv, Accounted
  <2>3. ri = rbuff /\ ri \in last .. rbuff /\ Before + rbuff = Len(received)
    BY <2>1, <2>2 DEF AccountInv, IInv, TypeOK, Before
  <2>4. \A end \in last .. rbuff :
          data' = Given(end) /\ (\A i \in last .. end - 1 : rbuffer[i] # "iac")
            => DealtWith(Before + end)'
    BY <1>1, <2>1, GivingDeals
  <2>5. \A end \in last .. rbuff : end = rbuff => DealtWith(Len(received))'
    <3> TAKE end \in last .. rbuff
    <3> HAVE end = rbuff
    <3>1. DealtWith(Before + end)'
      BY <2>1, <2>2, <2>3, <2>4
    <3>2. (Before + end)' = Len(received)'
      BY <1>1, <1>2, <2>3
    <3> QED
      BY <3>1, <3>2 DEF DealtWith
  <2>6. DealtWith(Len(received))'
    BY <2>3, <2>5
  <2> QED
    BY <1>1, <2>1, <2>6 DEF Accounted
<1>7. CASE Leave
  BY <1>1, <1>7 DEF Leave, Accounted
<1> QED
  BY <1>3, <1>4, <1>5, <1>6, <1>7

LEMMA AlwaysAccounted == Spec => []AccountInv
<1>1. Init => AccountInv
  <2> SUFFICES ASSUME Init
               PROVE  AccountInv
    OBVIOUS
  <2>1. IInv
    BY BufferAssumption DEF Init, IInv, TypeOK, Filled, AtCommand
  <2>2. /\ received = <<>> /\ data = <<>> /\ sent = <<>> /\ pc = "recv" /\ rbuff = 0
        /\ received \in Seq(Bytes) /\ Len(received) = 0 /\ SubSeq(received, 1, 0) = <<>>
    BY DEF Init
  <2>3. /\ ~EndsInCommand(<<>>) /\ OfKind(<<>>, 0) = <<>>
        /\ OfKind(<<>>, 1) = <<>> /\ OfKind(<<>>, 2) = <<>>
    BY NothingOfKind DEF EndsInCommand, End
  <2>4. Refusals(<<>>) = <<>>
    BY <2>3 DEF Refusals
  <2>5. DealtWith(Len(received))
    <3>1. SubSeq(received, 1, Len(received)) = <<>> /\ Len(received) \in 0 .. Len(received)
      BY <2>2
    <3>2. data = OfKind(<<>>, 0) /\ sent = Refusals(<<>>)
          /\ Len(OfKind(<<>>, 1)) = Len(OfKind(<<>>, 2))
      BY <2>2, <2>3, <2>4
    <3> QED
      BY <2>3, <3>1, <3>2 DEF DealtWith
  <2> QED
    BY <2>1, <2>2, <2>5 DEF AccountInv, Accounted
<1>2. AccountInv /\ [Next]_vars => AccountInv'
  <2> SUFFICES ASSUME AccountInv, [Next]_vars
               PROVE  AccountInv'
    OBVIOUS
  <2>1. ASSUME NEW n \in Lengths, NEW segment \in [1 .. n -> Bytes],
               Recv(segment)
        PROVE  AccountInv'
    BY <2>1, RecvAccounts
  <2>2. CASE GiveInFront \/ Refuse \/ PlainByte \/ EndOfSegment \/ Leave
    BY <2>2, LoopAccounts
  <2>3. CASE UNCHANGED vars
    BY <2>3 DEF vars, AccountInv, IInv, TypeOK, Filled, AtCommand, Accounted,
                DealtWith, Refusals, Before, SegmentIsRead
  <2> QED
    BY <2>1, <2>2, <2>3 DEF Next, Over
<1> QED
  BY <1>1, <1>2, PTL DEF Spec

\* For every alphabet, buffer size and way to cut the stream: if no segment ends
\* inside a command, what the telnet layer was given is what was received without
\* the commands (celnet.c 107-196).
THEOREM OnlyDataIsGiven == Spec => []DataIsStripped
<1>1. AccountInv => DataIsStripped
  <2> SUFFICES ASSUME AccountInv, pc = "recv", whole
               PROVE  data = OfKind(received, 0)
    BY DEF DataIsStripped
  <2>1. DealtWith(Len(received)) /\ SubSeq(received, 1, Len(received)) = received
    BY DEF AccountInv, Accounted
  <2> QED
    BY <2>1 DEF DealtWith
<1> QED
  BY <1>1, AlwaysAccounted, PTL

\* And every command was refused once, in order, with the bytes it was made of
\* (celnet.c 120-185).
THEOREM EachCommandIsRefused == Spec => []CommandsAreRefused
<1>1. AccountInv => CommandsAreRefused
  <2> SUFFICES ASSUME AccountInv, pc = "recv", whole
               PROVE  sent = Refusals(received)
    BY DEF CommandsAreRefused
  <2>1. DealtWith(Len(received)) /\ SubSeq(received, 1, Len(received)) = received
    BY DEF AccountInv, Accounted
  <2> QED
    BY <2>1 DEF DealtWith
<1> QED
  BY <1>1, AlwaysAccounted, PTL

-----------------------------------------------------------------------------
(* The composition                                                           *)

\* A part of what the peer has left is a segment.
LEMMA SegmentOfRest ==
  ASSUME rest \in Seq(Bytes), NEW n \in Lengths, n <= Len(rest)
  PROVE  /\ SubSeq(rest, 1, n) \in [1 .. n -> Bytes]
         /\ SubSeq(rest, n + 1, Len(rest)) \in Seq(Bytes)
<1>1. n \in Nat /\ 1 <= n
  BY DEF Lengths
<1>2. \A i \in 1 .. n : rest[i] \in Bytes
  BY <1>1
<1>3. SubSeq(rest, 1, n) = [i \in 1 .. n |-> rest[i]]
  BY <1>1
<1>4. SubSeq(rest, 1, n) \in [1 .. n -> Bytes]
  BY <1>2, <1>3
<1>5. SubSeq(rest, n + 1, Len(rest)) \in Seq(Bytes)
  BY <1>1
<1> QED
  BY <1>4, <1>5

\* The first half makes steps of its own specification.
LEMMA OptionsStep ==
  ASSUME rest \in Seq(Bytes), [ConnNext]_connVars
  PROVE  [Next]_vars /\ rest' \in Seq(Bytes)
<1>1. CASE Segment
  <2>1. PICK n \in Lengths :
          /\ n <= Len(rest) /\ Recv(SubSeq(rest, 1, n))
          /\ rest' = SubSeq(rest, n + 1, Len(rest))
    BY <1>1 DEF Segment
  <2>2. /\ SubSeq(rest, 1, n) \in [1 .. n -> Bytes]
        /\ rest' \in Seq(Bytes)
    BY <2>1, SegmentOfRest
  <2> QED
    BY <2>1, <2>2 DEF Next
<1>2. CASE Loop \/ Refused \/ Left
  BY <1>2 DEF Loop, Refused, Left, Next
<1>3. CASE Parser \/ Quiet \/ UNCHANGED connVars
  BY <1>3 DEF Parser, Quiet, connVars, vars
<1> QED
  BY <1>1, <1>2, <1>3 DEF ConnNext

LEMMA RestIsBytes == ConnSpec => [](rest \in Seq(Bytes))
<1>1. ConnInit => rest \in Seq(Bytes)
  BY StreamsAssumption DEF ConnInit
<1>2. rest \in Seq(Bytes) /\ [ConnNext]_connVars => (rest \in Seq(Bytes))'
  <2> SUFFICES ASSUME rest \in Seq(Bytes), [ConnNext]_connVars
               PROVE  rest' \in Seq(Bytes)
    OBVIOUS
  <2> QED
    BY OptionsStep
<1> QED
  BY <1>1, <1>2, PTL DEF ConnSpec

\* For every set of streams: the loop of a whole connection is the loop of
\* TelnetOptions, whatever the parser behind it does (celnet.c 75-196).
THEOREM OptionsOfConnection == ConnSpec => Spec
<1>1. ConnInit => Init
  BY DEF ConnInit
<1>2. rest \in Seq(Bytes) /\ [ConnNext]_connVars => [Next]_vars
  BY OptionsStep
<1> QED
  BY <1>1, <1>2, RestIsBytes, PTL DEF ConnSpec, Spec

\* What a step of the loop hands over is a chunk for the record: no more than
\* the receiving buffer holds, and behind what was handed over before.
LEMMA HandedOver ==
  ASSUME IInv, NEW end \in 0 .. rbuff, data' = Given(end), data' # data
  PROVE  SubSeq(data', Len(data) + 1, Len(data')) \in Line!Chunks
<1>1. last < end /\ data' = data \o DataUpTo(end)
  BY DEF Given
<1>2. /\ end - last \in 1 .. BufferSize /\ data \in Seq(Bytes)
      /\ \A i \in 1 .. end - last : last + i - 1 \in 0 .. rbuff - 1
  BY <1>1, BufferAssumption DEF IInv, TypeOK
<1>3. DataUpTo(end) \in [1 .. end - last -> Bytes]
  BY <1>2 DEF DataUpTo, IInv, Filled
<1>4. DataUpTo(end) \in Seq(Bytes) /\ Len(DataUpTo(end)) = end - last
  <2>1. \A n \in Nat : \A f \in [1 .. n -> Bytes] : f \in Seq(Bytes) /\ Len(f) = n
    OBVIOUS
  <2>2. end - last \in Nat
    BY <1>2
  <2> QED
    BY <1>3, <2>1, <2>2
<1>5. SubSeq(data', Len(data) + 1, Len(data')) = DataUpTo(end)
  BY <1>1, <1>2, <1>4
<1> QED
  BY <1>2, <1>3, <1>5 DEF Line!Chunks

\* The second half makes steps of its own specification, too.
LEMMA LineStep ==
  ASSUME IInv, [ConnNext]_connVars
  PROVE  [Line!Next]_(Line!vars)
<1>1. CASE Segment
  BY <1>1 DEF Segment, Recv, lineVars, Line!vars
<1>2. CASE Loop
  <2>1. CASE data' = data
    BY <1>2, <2>1 DEF Loop, Called, lineVars, Line!vars
  <2>2. CASE data' # data
    <3>1. PICK end \in 0 .. rbuff : data' = Given(end)
      BY <1>2, <2>2 DEF Loop, GiveInFront, PlainByte, EndOfSegment, IInv, TypeOK
    <3>2. SubSeq(data', Len(data) + 1, Len(data')) \in Line!Chunks
      BY <2>2, <3>1, HandedOver
    <3> QED
      BY <1>2, <2>2, <3>2 DEF Loop, Called, Line!Next
  <2> QED
    BY <2>1, <2>2
<1>3. CASE Refused \/ Left
  BY <1>3 DEF Refused, Left, Refuse, Leave, lineVars, Line!vars
<1>4. CASE Parser
  BY <1>4 DEF Parser, Line!Next
<1>5. CASE Quiet \/ UNCHANGED connVars
  BY <1>5 DEF Quiet, connVars, vars, lineVars, Line!vars
<1> QED
  BY <1>1, <1>2, <1>3, <1>4, <1>5 DEF ConnNext

\* For every set of streams: the record and the parser of a whole connection
\* behave as ClientBuffer says, being given by the loop what a peer without
\* telnet commands might have sent in such chunks, so that what is shown of
\* ClientBuffer holds of them (celnet.c 109-196, telnet.c 94-110).
THEOREM LineOfConnection == ConnSpec => Line!Spec
<1>1. ConnInit => Line!Init
  BY DEF ConnInit
<1>2. ConnSpec => []IInv
  BY OptionsOfConnection, AlwaysIInv, PTL
<1>3. IInv /\ [ConnNext]_connVars => [Line!Next]_(Line!vars)
  BY LineStep
<1> QED
  BY <1>1, <1>2, <1>3, PTL DEF ConnSpec, Line!Spec

-----------------------------------------------------------------------------
(* What is proved of ClientBuffer, for the record of a connection.  The      *)
(* operators of both instances are the same.                                 *)

LineProofs == INSTANCE ClientBufferProofs WITH
  pc <- linePc, buffer <- lineBuffer, received <- data, MaxChunk <- BufferSize

LEMMA SameSearch ==
  /\ \A S, s : Line!First(S, s) = LineProofs!First(S, s)
  /\ Line!Delimiters = LineProofs!Delimiters /\ Line!Rest = LineProofs!Rest
<1>1. \A S, s : Line!First(S, s) = LineProofs!First(S, s)
  BY DEF Line!First, LineProofs!First, Line!SelectInSeq, LineProofs!SelectInSeq,
         Line!Min, LineProofs!Min
<1> QED
  BY <1>1 DEF Line!Delimiters, LineProofs!Delimiters, Line!Rest, LineProofs!Rest,
              Line!Text, LineProofs!Text, Line!UpTo, LineProofs!UpTo

LEMMA SameScan ==
  /\ Line!LineLen = LineProofs!LineLen /\ Line!Line = LineProofs!Line
  /\ Line!HasLine <=> LineProofs!HasLine
  /\ Line!Call = LineProofs!Call
<1>1. /\ Line!LineLen = LineProofs!LineLen /\ Line!Line = LineProofs!Line
      /\ Line!HasLine <=> LineProofs!HasLine
      /\ Line!WordLen = LineProofs!WordLen
  BY SameSearch DEF Line!LineLen, LineProofs!LineLen, Line!Line, LineProofs!Line,
                    Line!HasLine, LineProofs!HasLine, Line!WordLen, LineProofs!WordLen
<1> QED
  BY SameSearch, <1>1 DEF Line!Call, LineProofs!Call, Line!ArgsLen, LineProofs!ArgsLen,
                          Line!ArgsOf, LineProofs!ArgsOf, Line!After, LineProofs!After

LEMMA SameActions ==
  /\ Line!EmptyLine <=> LineProofs!EmptyLine
  /\ Line!CommandLine <=> LineProofs!CommandLine
  /\ Line!PopUsed <=> LineProofs!PopUsed
  /\ \A chunk : Line!Deliver(chunk) <=> LineProofs!Deliver(chunk)
<1>1. \A chunk : Line!Deliver(chunk) <=> LineProofs!Deliver(chunk)
  BY DEF Line!Deliver, LineProofs!Deliver, Line!Grown, LineProofs!Grown
<1> QED
  BY SameSearch, SameScan, <1>1
  DEF Line!EmptyLine, LineProofs!EmptyLine, Line!CommandLine, LineProofs!CommandLine,
      Line!PopUsed, LineProofs!PopUsed, Line!Returned, LineProofs!Returned

LEMMA SameLines ==
  /\ \A c : Line!Told(c) = LineProofs!Told(c)
  /\ \A s : Line!LinesOf(s) = LineProofs!LinesOf(s)
  /\ \A l : Line!Asked(l) <=> LineProofs!Asked(l)
  /\ Line!Through = LineProofs!Through
<1>1. \A c : Line!Told(c) = LineProofs!Told(c)
  BY DEF Line!Told, LineProofs!Told
<1>2. \A s : Line!LinesOf(s) = LineProofs!LinesOf(s)
  BY DEF Line!LineEnds, LineProofs!LineEnds, Line!Picked, LineProofs!Picked,
         Line!Delimiters, LineProofs!Delimiters, Line!LinesOf, LineProofs!LinesOf
<1>3. \A l : Line!Asked(l) <=> LineProofs!Asked(l)
  BY SameSearch DEF Line!Asked, LineProofs!Asked, Line!UpTo, LineProofs!UpTo
<1>4. Line!Through = LineProofs!Through
  BY DEF Line!Through, LineProofs!Through, Line!Gone, LineProofs!Gone
<1> QED
  BY <1>1, <1>2, <1>3, <1>4

LEMMA SameConstants ==
  LineProofs!NamesAreWords /\ LineProofs!SizesAreNumbers
  BY LineAssumption DEF Line!NamesAreWords, Line!SizesAreNumbers,
                        LineProofs!NamesAreWords, LineProofs!SizesAreNumbers

LEMMA SameSpec == Line!Spec <=> LineProofs!Spec
<1>1. Line!Init <=> LineProofs!Init
  BY DEF Line!Init, LineProofs!Init
<1>2. Line!Next <=> LineProofs!Next
  BY SameActions DEF Line!Next, LineProofs!Next, Line!Chunks, LineProofs!Chunks,
                     Line!Over, LineProofs!Over, Line!vars, LineProofs!vars
<1> QED
  BY <1>1, <1>2, PTL DEF Line!Spec, LineProofs!Spec, Line!vars, LineProofs!vars

-----------------------------------------------------------------------------
(* Events of a stream                                                        *)

\* The kind of a byte depends on what is in front of it only, however much
\* follows.
LEMMA KindOfBeginning ==
  ASSUME NEW T, NEW s \in Seq(T), NEW n \in 0 .. Len(s)
  PROVE  /\ Alike(Kind(Beginning(s, n)), Kind(s), n)
         /\ Kind(s)[n] = End(Beginning(s, n))
<1> DEFINE p == Beginning(s, n)
<1>1. /\ p \in Seq(T) /\ Len(p) = n /\ n \in Nat /\ \A i \in 1 .. n : p[i] = s[i]
      /\ \A i \in 1 .. n : i \in 1 .. Len(s)
  BY DEF Beginning
<1> HIDE DEF p
<1>2. IsKind(Kind(p), p) /\ IsKind(Kind(s), s)
  BY <1>1, KindSteps
<1>3. StepAlike(Kind(p), Kind(s), n) /\ Kind(p)[0] = Kind(s)[0]
  BY <1>1, <1>2 DEF IsKind, StepAlike
<1>4. Alike(Kind(p), Kind(s), n)
  BY <1>1, <1>3, SameSteps
<1>5. n \in 0 .. n
  BY <1>1
<1> QED
  BY <1>1, <1>4, <1>5 DEF Alike, End, p

\* What happened at a byte stays what it was when the stream goes on.
LEMMA EventStays ==
  ASSUME NEW s \in Seq(Bytes), NEW b \in Bytes
  PROVE  \A i \in 1 .. Len(s) :
           /\ IsEvent(Append(s, b), i) <=> IsEvent(s, i)
           /\ EventAt(Append(s, b), i) = EventAt(s, i)
<1> DEFINE t == Append(s, b)
<1> TAKE i \in 1 .. Len(s)
<1>1. t[i] = s[i] /\ SubSeq(t, 1, i) = SubSeq(s, 1, i) /\ i - 1 \in 0 .. Len(s)
  OBVIOUS
<1>2. Kind(t)[i] = Kind(s)[i]
  BY KindOfFront DEF Alike
<1>3. Kind(s)[i] = 1 => t[i - 1] = s[i - 1]
  <2>1. CASE i = 1
    <3>1. Kind(s)[0] = 0 /\ Kind(s)[1] = After1(Kind(s)[1 - 1], s[1])
      BY <2>1, KindSteps DEF IsKind
    <3> QED
      BY <2>1, <3>1 DEF After1
  <2>2. CASE i # 1
    <3>1. i - 1 \in 1 .. Len(s)
      BY <2>2
    <3> QED
      BY <3>1
  <2> QED
    BY <2>1, <2>2
<1> HIDE DEF t
<1>4. LineAt(t, i) = LineAt(s, i)
  BY <1>1 DEF LineAt
<1>5. IsEvent(t, i) <=> IsEvent(s, i)
  BY <1>1, <1>2, <1>4 DEF IsEvent
<1>6. EventAt(t, i) = EventAt(s, i)
  BY <1>1, <1>2, <1>3, <1>4 DEF EventAt
<1> QED
  BY <1>5, <1>6 DEF t

\* A function along a sequence that grows.
LEMMA AlongAppend ==
  ASSUME NEW A, NEW a \in Seq(A), NEW x \in A, NEW f
  PROVE  [k \in DOMAIN Append(a, x) |-> f[Append(a, x)[k]]] =
           Append([k \in DOMAIN a |-> f[a[k]]], f[x])
<1> DEFINE m == Len(a)
           e == Append(a, x)
           l == [k \in DOMAIN a |-> f[a[k]]]
           r == [k \in DOMAIN e |-> f[e[k]]]
           w == Append(l, f[x])
           B == {f[y] : y \in A}
<1>1. /\ m \in Nat /\ DOMAIN e = 1 .. m + 1 /\ DOMAIN a = 1 .. m
      /\ e[m + 1] = x /\ \A k \in 1 .. m : e[k] = a[k] /\ a[k] \in A
  OBVIOUS
<1>2. l \in Seq(B) /\ Len(l) = m /\ \A k \in 1 .. m : l[k] = f[a[k]]
  BY <1>1
<1> HIDE DEF e
<1>3. r = [k \in 1 .. m + 1 |-> r[k]] /\ r[m + 1] = f[x]
      /\ \A k \in 1 .. m : r[k] = f[a[k]]
  BY <1>1
<1>4. f[x] \in B
  OBVIOUS
<1> HIDE DEF l, r, B
<1>5. /\ w \in Seq(B) /\ Len(w) = m + 1 /\ w[m + 1] = f[x]
      /\ \A k \in 1 .. m : w[k] = l[k]
  BY <1>1, <1>2, <1>4
<1> HIDE DEF w
<1>6. w = [k \in 1 .. m + 1 |-> w[k]]
  BY <1>1, <1>5
<1>7. ASSUME NEW k \in 1 .. m + 1
      PROVE  r[k] = w[k]
  <2>1. k \in 1 .. m \/ k = m + 1
    BY <1>1
  <2> QED
    BY <1>2, <1>3, <1>5, <2>1
<1>8. r = w
  BY <1>3, <1>6, <1>7
<1> QED
  BY <1>8 DEF r, w, e, l

\* Where the events of a stream are.
Places(s) == Picked([i \in DOMAIN s |-> i], {i \in DOMAIN s : IsEvent(s, i)})

LEMMA PlacesAppend ==
  ASSUME NEW s \in Seq(Bytes), NEW b \in Bytes
  PROVE  /\ Places(s) \in Seq(1 .. Len(s))
         /\ Places(Append(s, b)) =
              IF IsEvent(Append(s, b), Len(s) + 1) THEN Append(Places(s), Len(s) + 1)
              ELSE Places(s)
<1> DEFINE t == Append(s, b)
           n == Len(s)
           place(u) == [i \in DOMAIN u |-> i]
           P == {i \in DOMAIN s : IsEvent(s, i)}
           Q == {i \in DOMAIN t : IsEvent(t, i)}
<1>1. Len(t) = n + 1 /\ n \in Nat /\ DOMAIN t = 1 .. n + 1 /\ DOMAIN s = 1 .. n
  OBVIOUS
<1>2. \A i \in 1 .. n : IsEvent(t, i) <=> IsEvent(s, i)
  BY EventStays
<1> HIDE DEF t
<1>3. place(s) \in Seq(1 .. n) /\ Len(place(s)) = n
  BY <1>1
<1>4. place(t) = Append(place(s), n + 1)
  BY <1>1, <1>3
<1>5. \A i \in 1 .. n : i \in P <=> i \in Q
  BY <1>1, <1>2
<1>6. n + 1 \in Q <=> IsEvent(t, n + 1)
  BY <1>1
<1>7. Places(s) = Picked(place(s), P) /\ Places(t) = Picked(place(t), Q)
  BY DEF Places
<1> HIDE DEF place, P, Q
<1>8. Picked(place(s), P) \in Seq(1 .. n)
  BY <1>3, PickedType
<1>9. Picked(place(s), Q) = Picked(place(s), P)
  BY <1>3, <1>5, PickedSame
<1>10. place(s) \in Seq(1 .. n + 1) /\ n + 1 \in 1 .. n + 1
  BY <1>1, <1>3
<1>11. Picked(place(t), Q) =
         IF n + 1 \in Q THEN Append(Picked(place(s), Q), n + 1) ELSE Picked(place(s), Q)
  <2> DEFINE p == place(s)
  <2> HIDE DEF n, p
  <2>1. Picked(Append(p, n + 1), Q) =
          IF Len(p) + 1 \in Q THEN Append(Picked(p, Q), n + 1) ELSE Picked(p, Q)
    BY <1>10, PickedAppend DEF p
  <2> QED
    BY <1>3, <1>4, <2>1 DEF p
<1> QED
  BY <1>6, <1>7, <1>8, <1>9, <1>11 DEF t

\* What one more byte brings about: at the last byte of a telnet command its
\* refusal, at the end of a line its command.
EventMore(s, b, t) ==
  LET l == LineProofs!Unfinished(OfKind(s, 0))
      ending == End(t) = 0 /\ b \in Line!Delimiters /\ Line!Asked(l)
  IN  /\ End(t) = 1 => EventsOf(t) = Append(EventsOf(s), Refusal(s[Len(s)], b))
      /\ End(t) # 1 => EventsOf(t) = IF ending THEN Append(EventsOf(s), l) ELSE EventsOf(s)

LEMMA EventsAppend ==
  \A s \in Seq(Bytes), b \in Bytes : EventMore(s, b, Append(s, b))
<1> SUFFICES ASSUME NEW s \in Seq(Bytes), NEW b \in Bytes
             PROVE  EventMore(s, b, Append(s, b))
  OBVIOUS
<1> DEFINE t == Append(s, b)
           n == Len(s)
           l == LineProofs!Unfinished(OfKind(s, 0))
           f == [i \in 1 .. n + 1 |-> EventAt(t, i)]
<1>1. /\ n \in Nat /\ t \in Seq(Bytes) /\ Len(t) = n + 1 /\ t[n + 1] = b
      /\ SubSeq(t, 1, n + 1) = t /\ (n + 1) - 1 = n /\ (n >= 1 => t[n] = s[n])
  OBVIOUS
<1>2. Kind(t)[n + 1] = End(t)
  BY <1>1 DEF End
<1>3. Places(s) \in Seq(1 .. n) /\ Places(s) \in Seq(1 .. n + 1)
  <2>1. Places(s) \in Seq(1 .. n)
    BY PlacesAppend
  <2>2. \A x \in 1 .. n : x \in 1 .. n + 1
    <3> HIDE DEF n, t
    <3> QED
      BY <1>1
  <2>3. \A A, B : (\A x \in A : x \in B) => \A a \in Seq(A) : a \in Seq(B)
    OBVIOUS
  <2> QED
    BY <2>1, <2>2, <2>3
<1>4. Places(t) = IF IsEvent(t, n + 1) THEN Append(Places(s), n + 1) ELSE Places(s)
  BY PlacesAppend
<1>5. EventsOf(s) = [k \in DOMAIN Places(s) |-> f[Places(s)[k]]]
  <2>1. \A k \in DOMAIN Places(s) : EventAt(s, Places(s)[k]) = f[Places(s)[k]]
    <3> TAKE k \in DOMAIN Places(s)
    <3>1. Places(s)[k] \in 1 .. n /\ Places(s)[k] \in 1 .. n + 1
      BY <1>3
    <3> QED
      BY <3>1, EventStays
  <2>2. EventsOf(s) = [k \in DOMAIN Places(s) |-> EventAt(s, Places(s)[k])]
    BY DEF EventsOf, Places
  <2> HIDE DEF f
  <2> QED
    BY <2>1, <2>2
<1>6. Places(t) \in Seq(1 .. n + 1)
  BY <1>1, PlacesAppend
<1>7. EventsOf(t) = [k \in DOMAIN Places(t) |-> f[Places(t)[k]]]
  <2>1. \A k \in DOMAIN Places(t) : EventAt(t, Places(t)[k]) = f[Places(t)[k]]
    <3> TAKE k \in DOMAIN Places(t)
    <3>1. Places(t)[k] \in 1 .. n + 1
      BY <1>6
    <3> QED
      BY <3>1
  <2>2. EventsOf(t) = [k \in DOMAIN Places(t) |-> EventAt(t, Places(t)[k])]
    BY DEF EventsOf, Places
  <2> HIDE DEF f
  <2> QED
    BY <2>1, <2>2
<1>8. EventsOf(t) = IF IsEvent(t, n + 1) THEN Append(EventsOf(s), EventAt(t, n + 1))
                    ELSE EventsOf(s)
  <2>1. f[n + 1] = EventAt(t, n + 1) /\ n + 1 \in 1 .. n + 1
    <3> HIDE DEF t, n
    <3> QED
      BY <1>1
  <2> HIDE DEF f
  <2>2. [k \in DOMAIN Append(Places(s), n + 1) |-> f[Append(Places(s), n + 1)[k]]] =
          Append([k \in DOMAIN Places(s) |-> f[Places(s)[k]]], f[n + 1])
    BY <1>3, <2>1, AlongAppend
  <2> QED
    BY <1>4, <1>5, <1>7, <2>1, <2>2
<1>9. CASE End(t) = 1
  <2>1. n >= 1
    <3>1. End(t) = After1(End(s), b)
      BY ByteAppend DEF OneMore
    <3>2. n = 0 => End(s) = 0
      BY KindSteps DEF IsKind, End
    <3> HIDE DEF t
    <3> QED
      BY <1>1, <1>9, <3>1, <3>2 DEF After1
  <2> HIDE DEF t
  <2>2. IsEvent(t, n + 1) /\ EventAt(t, n + 1) = Refusal(s[n], b)
    BY <1>1, <1>2, <1>9, <2>1 DEF IsEvent, EventAt
  <2> QED
    BY <1>8, <1>9, <2>2 DEF EventMore, t
<1>10. CASE End(t) # 1 /\ End(t) = 0 /\ b \in Line!Delimiters
  <2>1. LineAt(t, n + 1) = l
    <3>1. OfKind(t, 0) = Append(OfKind(s, 0), b) /\ OfKind(s, 0) \in Seq(Bytes)
      BY <1>10, OfKindAppend
    <3>2. /\ LineProofs!LinesOf(OfKind(s, 0)) \in Seq(Seq(Bytes))
          /\ LineProofs!LinesOf(OfKind(t, 0)) = Append(LineProofs!LinesOf(OfKind(s, 0)), l)
      BY <1>10, <3>1, LineProofs!LinesAppend, SameSearch
    <3>3. l \in Seq(Bytes)
      BY <3>1, LineProofs!StreamAppend DEF LineProofs!ByteMore
    <3> HIDE DEF t, l
    <3>4. \A u \in Seq(Seq(Bytes)) : Last(Append(u, l)) = l
      BY <3>3 DEF Last
    <3>5. Line!LinesOf(OfKind(t, 0)) = LineProofs!LinesOf(OfKind(t, 0))
      BY SameLines
    <3> QED
      BY <1>1, <3>2, <3>4, <3>5 DEF LineAt
  <2> HIDE DEF t, l
  <2>2. (IsEvent(t, n + 1) <=> Line!Asked(l)) /\ EventAt(t, n + 1) = l
    BY <1>1, <1>2, <1>10, <2>1 DEF IsEvent, EventAt
  <2> QED
    BY <1>8, <1>10, <2>2 DEF EventMore, t, l
<1>11. CASE End(t) # 1 /\ ~(End(t) = 0 /\ b \in Line!Delimiters)
  <2> HIDE DEF t
  <2>1. ~IsEvent(t, n + 1)
    BY <1>1, <1>2, <1>11 DEF IsEvent
  <2> QED
    BY <1>8, <1>11, <2>1 DEF EventMore, t
<1> QED
  BY <1>9, <1>10, <1>11

\* Behind the end of a command and up to the next IAC, all is data.
IsRun(s, m, n) ==
  /\ m \in 0 .. Len(s) /\ n \in m .. Len(s) /\ End(Beginning(s, m)) <= 1
  /\ \A i \in m + 1 .. n : s[i] # "iac"

LEMMA RunIsData ==
  ASSUME NEW s \in Seq(Bytes), NEW m, NEW n, IsRun(s, m, n)
  PROVE  \A i \in m .. n :
           /\ IsRun(s, m, i) /\ End(Beginning(s, i)) <= 1
           /\ OfKind(Beginning(s, i), 0) = OfKind(Beginning(s, m), 0) \o SubSeq(s, m + 1, i)
           /\ i # m => Kind(s)[i] = 0
<1>1. m \in 0 .. Len(s) /\ n \in m .. Len(s) /\ m \in Nat /\ n \in Nat /\ Len(s) \in Nat
  BY DEF IsRun
<1>2. ASSUME NEW i \in m .. n
      PROVE  /\ End(Beginning(s, i)) <= 1
             /\ OfKind(Beginning(s, i), 0) = OfKind(Beginning(s, m), 0) \o SubSeq(s, m + 1, i)
  <2> DEFINE p == Beginning(s, m)
             t == SubSeq(s, m + 1, i)
  <2>1. i \in m .. Len(s)
    BY <1>1
  <2>2. /\ Beginning(s, i) = p \o t /\ p \in Seq(Bytes) /\ t \in Seq(Bytes) /\ Len(t) = i - m
        /\ \A k \in 1 .. i - m : t[k] = s[m + k]
    BY <1>1, <2>1, FrontJoin DEF Beginning
  <2>3. t \in Seq(Bytes \ {"iac"})
    <3> HIDE DEF t
    <3>1. \A k \in 1 .. Len(t) : t[k] \in Bytes \ {"iac"}
      <4> TAKE k \in 1 .. Len(t)
      <4>1. m + k \in m + 1 .. n /\ k \in 1 .. i - m
        BY <1>1, <2>1, <2>2
      <4>2. t[k] \in Bytes
        BY <2>2
      <4> QED
        BY <2>2, <4>1, <4>2 DEF IsRun
    <3> QED
      BY <2>2, <3>1
  <2>4. End(p) <= 1
    BY DEF IsRun
  <2> HIDE DEF p, t
  <2>5. End(p \o t) <= 1 /\ OfKind(p \o t, 0) = OfKind(p, 0) \o t
    BY <2>2, <2>3, <2>4, StretchIsData
  <2> QED
    BY <2>2, <2>5 DEF p, t
<1>3. ASSUME NEW i \in m .. n, i # m
      PROVE  Kind(s)[i] = 0
  <2>1. i - 1 \in m .. n /\ i \in m + 1 .. n /\ i \in 1 .. Len(s) /\ i - 1 \in 0 .. Len(s)
    BY <1>1, <1>3
  <2>2. Kind(s)[i] = After1(Kind(s)[i - 1], s[i]) /\ Kind(s)[i - 1] \in 0 .. 3
    BY <2>1, KindSteps DEF IsKind
  <2>3. Kind(s)[i - 1] <= 1
    BY <1>2, <2>1, KindOfBeginning
  <2>4. s[i] # "iac"
    BY <2>1 DEF IsRun
  <2> QED
    BY <2>2, <2>3, <2>4 DEF After1
<1>4. ASSUME NEW i \in m .. n
      PROVE  IsRun(s, m, i)
  <2>1. i \in m .. Len(s) /\ \A k \in m + 1 .. i : k \in m + 1 .. n
    BY <1>1
  <2> QED
    BY <2>1 DEF IsRun
<1> QED
  BY <1>2, <1>3, <1>4

\* Nothing happens in it but at the end of a line.
LEMMA RunIsQuiet ==
  ASSUME NEW s \in Seq(Bytes), NEW m, NEW n, IsRun(s, m, n),
         \A i \in m + 1 .. n : s[i] \notin Line!Delimiters
  PROVE  EventsOf(Beginning(s, n)) = EventsOf(Beginning(s, m))
<1> DEFINE N == {k \in Nat :
                   m + k <= n => EventsOf(Beginning(s, m + k)) = EventsOf(Beginning(s, m))}
<1>1. m \in 0 .. Len(s) /\ n \in m .. Len(s) /\ m \in Nat /\ n \in Nat /\ Len(s) \in Nat
  BY DEF IsRun
<1>2. 0 \in N
  <2>1. m + 0 = m
    BY <1>1
  <2> QED
    BY <2>1
<1>3. ASSUME NEW k \in Nat, k \in N
      PROVE  k + 1 \in N
  <2> SUFFICES ASSUME m + (k + 1) <= n
               PROVE  EventsOf(Beginning(s, m + (k + 1))) = EventsOf(Beginning(s, m))
    OBVIOUS
  <2> DEFINE j == m + k
             p == Beginning(s, j)
             q == Beginning(s, j + 1)
  <2>1. /\ j \in 0 .. Len(s) - 1 /\ j + 1 \in m .. n /\ j + 1 # m /\ j <= n
        /\ m + (k + 1) = j + 1 /\ j + 1 \in m + 1 .. n /\ j + 1 \in 0 .. Len(s)
    BY <1>1
  <2>2. EventsOf(p) = EventsOf(Beginning(s, m))
    BY <1>3, <2>1
  <2> HIDE DEF j
  <2>3. q = Append(p, s[j + 1]) /\ p \in Seq(Bytes) /\ s[j + 1] \in Bytes
    BY <2>1, FrontOneMore
  <2>4. EventMore(p, s[j + 1], q)
    BY <2>3, EventsAppend
  <2>5. End(q) = 0
    <3>1. Kind(s)[j + 1] = End(q)
      BY <2>1, KindOfBeginning
    <3>2. Kind(s)[j + 1] = 0
      BY <2>1, RunIsData
    <3> QED
      BY <3>1, <3>2
  <2>6. s[j + 1] \notin Line!Delimiters
    BY <2>1
  <2> QED
    BY <2>1, <2>2, <2>4, <2>5, <2>6 DEF EventMore
<1>4. n - m \in Nat /\ m + (n - m) = n
  BY <1>1
<1> HIDE DEF N
<1>5. n - m \in N
  BY <1>2, <1>3, <1>4, SetInduction
<1>6. m + (n - m) <= n => EventsOf(Beginning(s, m + (n - m))) = EventsOf(Beginning(s, m))
  BY <1>5 DEF N
<1>7. m + (n - m) <= n
  BY <1>1
<1> QED
  BY <1>4, <1>6, <1>7

LEMMA BytesConcat ==
  \A s \in Seq(Bytes), t \in Seq(Bytes) :
    /\ s \o t \in Seq(Bytes) /\ Len(s \o t) = Len(s) + Len(t)
    /\ Len(s) \in Nat /\ Len(t) \in Nat
    /\ \A i \in 1 .. Len(s) : (s \o t)[i] = s[i]
    /\ \A i \in 1 .. Len(t) : (s \o t)[Len(s) + i] = t[i]
  BY ConcatAt

\* Sequences of bytes with the same bytes are one.
LEMMA BytesEqual ==
  \A s \in Seq(Bytes), t \in Seq(Bytes) :
    Len(s) = Len(t) /\ (\A i \in 1 .. Len(s) : s[i] = t[i]) => s = t
  OBVIOUS

\* What is in a sequence from one place to another.
IsBetween(t, s, m, n) ==
  t \in Seq(Bytes) /\ Len(t) = n - m /\ \A i \in 1 .. n - m : t[i] = s[m + i]

LEMMA Between ==
  \A s \in Seq(Bytes) : \A m \in 0 .. Len(s) : \A n \in m .. Len(s) :
    IsBetween(SubSeq(s, m + 1, n), s, m, n)
  BY FrontJoin DEF IsBetween

\* The data of a run lies behind the data in front of it.
IsBehind(s, m, n, d, f) ==
  /\ d \in Seq(Bytes) /\ f \in Seq(Bytes) /\ Len(d) = Len(f) + (n - m)
  /\ \A i \in 1 .. Len(f) : d[i] = f[i]
  /\ \A i \in 1 .. n - m : d[Len(f) + i] = s[m + i]
  /\ \A i \in m .. n : OfKind(Beginning(s, i), 0) = Beginning(d, Len(f) + (i - m))

LEMMA RunBehind ==
  ASSUME NEW s \in Seq(Bytes), NEW m, NEW n, IsRun(s, m, n),
         NEW d, d = OfKind(Beginning(s, n), 0), NEW f, f = OfKind(Beginning(s, m), 0)
  PROVE  IsBehind(s, m, n, d, f)
<1>1. /\ m \in Nat /\ n \in Nat /\ m <= n /\ n <= Len(s) /\ Len(s) \in Nat
      /\ m \in 0 .. Len(s) /\ n \in m .. n /\ n \in m .. Len(s)
  BY DEF IsRun
<1>2. f \in Seq(Bytes) /\ Len(f) \in Nat
  <2>1. Beginning(s, m) \in Seq(Bytes)
    BY <1>1, FrontJoin DEF Beginning
  <2>2. f \in Seq(Bytes)
    BY <2>1, OfKindType
  <2> QED
    BY <2>2
<1>3. ASSUME NEW i \in m .. n
      PROVE  /\ OfKind(Beginning(s, i), 0) = f \o SubSeq(s, m + 1, i)
             /\ SubSeq(s, m + 1, i) \in Seq(Bytes) /\ Len(SubSeq(s, m + 1, i)) = i - m
             /\ \A k \in 1 .. i - m : SubSeq(s, m + 1, i)[k] = s[m + k]
  <2>1. i \in m .. Len(s)
    BY <1>1
  <2>2. OfKind(Beginning(s, i), 0) = f \o SubSeq(s, m + 1, i)
    BY <1>3, RunIsData DEF Beginning
  <2>3. IsBetween(SubSeq(s, m + 1, i), s, m, i)
    BY <1>1, <2>1, Between
  <2> QED
    BY <2>2, <2>3 DEF IsBetween
<1>4. d = f \o SubSeq(s, m + 1, n)
  BY <1>1, <1>3
<1> DEFINE r == SubSeq(s, m + 1, n)
<1>5. r \in Seq(Bytes) /\ Len(r) = n - m /\ \A k \in 1 .. n - m : r[k] = s[m + k]
  BY <1>1, <1>3
<1> HIDE DEF r
<1>6. /\ d \in Seq(Bytes) /\ Len(d) = Len(f) + (n - m)
      /\ \A i \in 1 .. Len(f) : d[i] = f[i]
      /\ \A i \in 1 .. n - m : d[Len(f) + i] = s[m + i]
  <2>1. d = f \o r
    BY <1>4 DEF r
  <2> QED
    <3>1. /\ f \o r \in Seq(Bytes) /\ Len(f \o r) = Len(f) + Len(r)
          /\ \A i \in 1 .. Len(f) : (f \o r)[i] = f[i]
          /\ \A i \in 1 .. Len(r) : (f \o r)[Len(f) + i] = r[i]
      BY <1>2, <1>5, BytesConcat
    <3> QED
      BY <1>5, <2>1, <3>1
<1>7. ASSUME NEW i \in m .. n
      PROVE  OfKind(Beginning(s, i), 0) = Beginning(d, Len(f) + (i - m))
  <2> DEFINE u == SubSeq(s, m + 1, i)
             x == f \o u
             y == Beginning(d, Len(f) + (i - m))
             l == Len(f) + (i - m)
  <2>1. u \in Seq(Bytes) /\ Len(u) = i - m /\ \A k \in 1 .. i - m : u[k] = s[m + k]
    BY <1>3
  <2> HIDE DEF u
  <2>2. /\ x \in Seq(Bytes) /\ Len(x) = Len(f) + Len(u)
        /\ \A k \in 1 .. Len(f) : x[k] = f[k]
        /\ \A k \in 1 .. Len(u) : x[Len(f) + k] = u[k]
    BY <1>2, <2>1, BytesConcat
  <2>3. l \in 0 .. Len(d) /\ l \in Nat
    BY <1>1, <1>2, <1>6
  <2> HIDE DEF x
  <2>4. y \in Seq(Bytes) /\ Len(y) = l /\ \A k \in 1 .. l : y[k] = d[k]
    <3> HIDE DEF l
    <3>1. y = SubSeq(d, 1, l)
      BY DEF Beginning, l
    <3> HIDE DEF y
    <3> QED
      BY <1>6, <2>3, <3>1
  <2> HIDE DEF y
  <2>5. ASSUME NEW k \in 1 .. l
        PROVE  x[k] = y[k]
    <3>1. CASE k <= Len(f)
      <4>1. k \in 1 .. Len(f)
        BY <1>2, <3>1
      <4> QED
        BY <1>6, <2>2, <2>4, <4>1
    <3>2. CASE k > Len(f)
      <4>1. k - Len(f) \in 1 .. i - m /\ Len(f) + (k - Len(f)) = k /\ k - Len(f) \in 1 .. n - m
        BY <1>1, <1>2, <2>3, <3>2
      <4>2. x[k] = u[k - Len(f)] /\ u[k - Len(f)] = s[m + (k - Len(f))]
        BY <2>1, <2>2, <4>1
      <4>3. d[k] = s[m + (k - Len(f))]
        BY <1>6, <4>1
      <4> QED
        BY <2>4, <4>2, <4>3
    <3> QED
      BY <1>2, <3>1, <3>2
  <2>6. x = y
    <3>1. Len(x) = l
      BY <2>1, <2>2
    <3> HIDE DEF l
    <3> QED
      BY <2>2, <2>3, <2>4, <2>5, <3>1
  <2> QED
    BY <1>3, <2>6 DEF x, y, u
<1> QED
  BY <1>2, <1>6, <1>7 DEF IsBehind

EventsUpTo(s, m, k, t, l) ==
  /\ OfKind(Beginning(s, k), 0) = t
  /\ EventsOf(Beginning(s, k)) =
       IF Line!Asked(l) THEN Append(EventsOf(Beginning(s, m)), l)
       ELSE EventsOf(Beginning(s, m))

\* A beginning of the data of a run that ends a line: the stream up to there has
\* the command of this line more than the stream up to the end of the line before.
LEMMA LineInRun ==
  ASSUME NEW s \in Seq(Bytes), NEW m, NEW n, IsRun(s, m, n),
         NEW d, d = OfKind(Beginning(s, n), 0), NEW f, f = OfKind(Beginning(s, m), 0),
         NEW t \in Seq(Bytes), LineProofs!Unfinished(t) = <<>>, Len(t) <= Len(f),
         \A i \in Len(t) + 1 .. Len(f) : f[i] \notin Line!Delimiters,
         NEW l \in Seq(Bytes \ Line!Delimiters), NEW b \in Bytes \cap Line!Delimiters,
         Len(t \o l) + 1 <= Len(d), Beginning(d, Len(t \o l) + 1) = Append(t \o l, b)
  PROVE  \E k \in m .. n : EventsUpTo(s, m, k, Append(t \o l, b), l)
<1> DEFINE u == t \o l
           e == Len(u) + 1
           k == m + (e - Len(f))
           q == Beginning(s, k - 1)
<1>1. l \in Seq(Bytes) /\ b \in Bytes /\ b \in Line!Delimiters
  OBVIOUS
<1>2. /\ u \in Seq(Bytes) /\ Len(u) = Len(t) + Len(l) /\ Len(t) \in Nat /\ Len(l) \in Nat
      /\ Len(u) \in Nat
      /\ \A i \in 1 .. Len(l) : u[Len(t) + i] = l[i]
  BY <1>1, BytesConcat
<1>3. /\ m \in Nat /\ n \in Nat /\ m <= n /\ n <= Len(s) /\ Len(s) \in Nat
  BY DEF IsRun
<1>4. /\ d \in Seq(Bytes) /\ f \in Seq(Bytes) /\ Len(d) = Len(f) + (n - m) /\ Len(f) \in Nat
      /\ \A i \in 1 .. Len(f) : d[i] = f[i]
      /\ \A i \in 1 .. n - m : d[Len(f) + i] = s[m + i]
      /\ \A i \in m .. n : OfKind(Beginning(s, i), 0) = Beginning(d, Len(f) + (i - m))
  <2>1. IsBehind(s, m, n, d, f)
    BY RunBehind
  <2>2. f \in Seq(Bytes) => Len(f) \in Nat
    OBVIOUS
  <2> QED
    BY <2>1, <2>2 DEF IsBehind
<1> HIDE DEF u
<1>5. /\ e \in Nat /\ e >= 1 /\ e <= Len(d) /\ Beginning(d, e) = Append(u, b)
  BY <1>2 DEF u
<1> HIDE DEF e
<1>6. d[e] = b /\ \A i \in 1 .. Len(u) : d[i] = u[i]
  <2>1. /\ Append(u, b)[e] = b /\ \A i \in 1 .. Len(u) : Append(u, b)[i] = u[i] /\ i \in 1 .. e
    BY <1>1, <1>2 DEF e
  <2>2. \A i \in 1 .. e : Beginning(d, e)[i] = d[i]
    BY <1>4, <1>5 DEF Beginning
  <2>3. e \in 1 .. e
    BY <1>5
  <2> QED
    BY <1>5, <2>1, <2>2, <2>3
<1>7. e > Len(f)
  <2> SUFFICES ASSUME e <= Len(f)
               PROVE  FALSE
    BY <1>4, <1>5
  <2>1. e \in Len(t) + 1 .. Len(f) /\ e \in 1 .. Len(f)
    BY <1>2, <1>4, <1>5 DEF e
  <2> QED
    BY <1>1, <1>4, <1>6, <2>1
<1>8. /\ k \in m .. n /\ k # m /\ k - 1 \in m .. n /\ k - 1 \in 0 .. Len(s) - 1
      /\ k \in 0 .. Len(s) /\ (k - 1) + 1 = k /\ k \in Nat
      /\ Len(f) + (k - m) = e /\ Len(f) + ((k - 1) - m) = Len(u)
  <2>1. /\ e = Len(u) + 1 /\ Len(u) \in Nat /\ e \in Nat /\ e > Len(f) /\ Len(f) \in Nat
        /\ e <= Len(f) + (n - m)
    BY <1>2, <1>4, <1>5, <1>7 DEF e
  <2> QED
    BY <1>3, <2>1
<1> HIDE DEF k
<1>9. s[k] = b
  <2>1. k - m \in 1 .. n - m /\ m + (k - m) = k
    BY <1>3, <1>8
  <2> QED
    BY <1>4, <1>6, <1>8, <2>1
<1>10. OfKind(q, 0) = u /\ OfKind(Beginning(s, k), 0) = Append(u, b)
  <2>1. Beginning(d, Len(u)) = u
    <3> DEFINE y == Beginning(d, Len(u))
    <3>1. Len(u) \in 0 .. Len(d)
      BY <1>2, <1>5 DEF e
    <3>2. y \in Seq(Bytes) /\ Len(y) = Len(u) /\ \A i \in 1 .. Len(u) : y[i] = d[i]
      <4>1. y = SubSeq(d, 1, Len(u))
        BY DEF Beginning
      <4> HIDE DEF y
      <4> QED
        BY <1>2, <1>4, <3>1, <4>1
    <3> HIDE DEF y
    <3>3. y = u
      <4>1. \A i \in 1 .. Len(y) : y[i] = u[i]
        BY <1>6, <3>2
      <4>2. u \in Seq(Bytes)
        BY <1>2
      <4> QED
        BY <3>2, <4>1, <4>2, BytesEqual
    <3> QED
      BY <3>3 DEF y
  <2>2. OfKind(q, 0) = Beginning(d, Len(u))
    BY <1>4, <1>8
  <2>3. OfKind(Beginning(s, k), 0) = Beginning(d, e)
    BY <1>4, <1>8
  <2> QED
    BY <1>5, <2>1, <2>2, <2>3
<1>11. EventsOf(q) = EventsOf(Beginning(s, m))
  <2>1. IsRun(s, m, k - 1)
    BY <1>8, RunIsData
  <2>2. ASSUME NEW i \in m + 1 .. k - 1
        PROVE  s[i] \notin Line!Delimiters
    <3> DEFINE j == Len(f) + (i - m)
    <3>1. /\ i - m \in 1 .. n - m /\ m + (i - m) = i /\ j \in Len(t) + 1 .. Len(u)
          /\ j \in 1 .. Len(u) /\ j - Len(t) \in 1 .. Len(l) /\ Len(t) + (j - Len(t)) = j
      <4>1. /\ Len(t) \in Nat /\ Len(f) \in Nat /\ Len(t) <= Len(f) /\ Len(l) \in Nat
            /\ Len(u) = Len(t) + Len(l)
        BY <1>2, <1>4
      <4>2. k \in m .. n /\ Len(f) + ((k - 1) - m) = Len(u)
        BY <1>8
      <4> QED
        BY <1>3, <4>1, <4>2
    <3>2. s[i] = d[j]
      BY <1>4, <3>1
    <3> HIDE DEF j
    <3>3. d[j] = l[j - Len(t)]
      BY <1>2, <1>6, <3>1
    <3>4. l[j - Len(t)] \in Bytes \ Line!Delimiters
      BY <3>1
    <3> QED
      BY <3>2, <3>3, <3>4
  <2> QED
    BY <2>1, <2>2, RunIsQuiet
<1>12. EventMore(q, b, Beginning(s, k))
  <2>1. Beginning(s, k) = Append(q, s[k]) /\ q \in Seq(Bytes)
    BY <1>8, FrontOneMore
  <2> QED
    BY <1>1, <1>9, <2>1, EventsAppend
<1>13. End(Beginning(s, k)) = 0
  <2>1. Kind(s)[k] = End(Beginning(s, k))
    BY <1>8, KindOfBeginning
  <2> QED
    BY <1>8, <2>1, RunIsData
<1>14. LineProofs!Unfinished(u) = l
  <2>1. l \in Seq(Bytes \ LineProofs!Delimiters)
    BY SameSearch
  <2> QED
    BY <2>1, LineProofs!LineBegins DEF u
<1>15. EventsOf(Beginning(s, k)) =
         IF Line!Asked(l) THEN Append(EventsOf(Beginning(s, m)), l)
         ELSE EventsOf(Beginning(s, m))
  BY <1>1, <1>10, <1>11, <1>12, <1>13, <1>14 DEF EventMore
<1> QED
  BY <1>8, <1>10, <1>15 DEF u, EventsUpTo

-----------------------------------------------------------------------------
(* What the loop and the parser have done                                    *)

LEMMA DealtIs ==
  ASSUME AccountInv, whole, pc # "left"
  PROVE  /\ DealtWith(Dealt) /\ Dealt \in Before .. Len(received) /\ Before \in Nat
         /\ received \in Seq(Bytes) /\ End(Beginning(received, Dealt)) <= 1
         /\ data = OfKind(Beginning(received, Dealt), 0) /\ Len(received) \in Nat
<1>1. /\ pc \in {"recv", "scan", "refuse"} /\ rbuff \in Nat /\ ri \in Nat /\ last \in 0 .. ri
      /\ received \in Seq(Bytes) /\ rbuff <= Len(received) /\ (pc = "refuse" => ri < rbuff)
      /\ (pc = "scan" => ri <= rbuff)
  BY DEF AccountInv, Accounted, IInv, TypeOK, AtCommand
<1>2. Len(received) \in Nat
  BY <1>1
<1>3. Dealt \in Before .. Len(received) /\ Before \in Nat
  BY <1>1, <1>2 DEF Dealt, Before
<1>4. DealtWith(Dealt)
  <2>1. pc = "recv" => DealtWith(Len(received))
    BY DEF AccountInv, Accounted
  <2>2. pc = "scan" => DealtWith(Before + last)
    BY DEF AccountInv, Accounted
  <2>3. pc = "refuse" => DealtWith(Before + ri)
    BY DEF AccountInv, Accounted
  <2> QED
    BY <1>1, <2>1, <2>2, <2>3 DEF Dealt
<1> DEFINE p == Beginning(received, Dealt)
<1>5. p \in Seq(Bytes)
  BY <1>1, <1>3, FrontJoin DEF Beginning
<1>6. ~EndsInCommand(p) /\ data = OfKind(p, 0)
  BY <1>4 DEF DealtWith, Beginning
<1> HIDE DEF p
<1>7. End(p) \in 0 .. 3
  BY <1>5, EndType
<1>8. End(p) <= 1
  BY <1>6, <1>7 DEF EndsInCommand, End
<1> QED
  BY <1>1, <1>2, <1>3, <1>4, <1>6, <1>8 DEF p

\* Data is received: without a NUL in the stream there is none in the data.
LEMMA NoNulGiven ==
  ASSUME AccountInv, whole, pc # "left", ~Contains(received, "nul")
  PROVE  ~Contains(data, "nul")
<1> DEFINE T == Bytes \ {"nul"}
           p == Beginning(received, Dealt)
<1>1. /\ received \in Seq(Bytes) /\ Dealt \in 0 .. Len(received) /\ data = OfKind(p, 0)
  BY DealtIs
<1>2. received \in Seq(T)
  <2>1. \A i \in 1 .. Len(received) : received[i] \in T
    BY <1>1 DEF Contains
  <2> QED
    BY <1>1, <2>1
<1>3. p \in Seq(T)
  <2> HIDE DEF T
  <2> QED
    BY <1>1, <1>2 DEF Beginning
<1>4. data \in Seq(T)
  BY <1>1, <1>3, OfKindType
<1> QED
  BY <1>4 DEF Contains

\* The record while a peer is tidy.
LEMMA RecordIs ==
  ASSUME LineProofs!ServedInv, tidy, ~Contains(data, "nul")
  PROVE  /\ data = LineProofs!Gone \o lineBuffer /\ LineProofs!Gone \in Seq(Bytes)
         /\ lineBuffer \in Seq(Bytes) /\ LineProofs!Text = lineBuffer
         /\ LineProofs!Delimiters = Line!Delimiters
         /\ linePc = "idle" => \A i \in 1 .. Len(lineBuffer) : lineBuffer[i] \notin Line!Delimiters
         /\ linePc = "parse" => offset \in 0 .. Len(lineBuffer)
<1>1. ~LineProofs!Contains(data, "nul")
  BY DEF Contains, LineProofs!Contains
<1>2. LineProofs!Whole /\ LineProofs!Text = lineBuffer
  BY <1>1, LineProofs!ServedIsWhole
<1>3. /\ data = LineProofs!Gone \o lineBuffer /\ LineProofs!Gone \in Seq(Bytes)
      /\ lineBuffer \in Seq(Bytes) /\ LineProofs!Text = lineBuffer
  BY <1>2 DEF LineProofs!Whole
<1>4. linePc = "parse" => offset \in 0 .. Len(lineBuffer)
  BY <1>3 DEF LineProofs!ServedInv, LineProofs!IInv, LineProofs!TypeOK, LineProofs!BufferFits
<1>5. linePc = "idle" => \A i \in DOMAIN lineBuffer : lineBuffer[i] \notin LineProofs!Delimiters
  BY <1>1 DEF LineProofs!ServedInv, LineProofs!Served
<1> QED
  BY <1>3, <1>4, <1>5, SameSearch

\* Where a stretch may end, and that those of the tidy peer do so at an end of a
\* line, stays as it is when another segment comes.
LineEndsOf(s) == {i \in DOMAIN s : Kind(s)[i] = 0 /\ s[i] \in Line!Delimiters}
Closed(s, e, j) == j \in e \/ Kind(s)[j + 1] > 0
Closes(s, e) ==
  \A i \in LineEndsOf(s) :
    \E j \in {k \in LineEndsOf(s) : k >= i} :
      Closed(s, e, j) /\ \A k \in i .. j - 1 : ~Closed(s, e, k)

LEMMA ClosesIs == StretchesEndLines <=> Closes(received, ends)
  BY DEF StretchesEndLines, Closes, Closed, LineEndsOf

LEMMA ClosedBefore ==
  ASSUME NEW s \in Seq(Bytes), NEW t \in Seq(Bytes), NEW e, NEW x,
         s # <<>> => Len(s) \in e, x > Len(s), x \in Nat, Closes(s \o t, e \cup {x})
  PROVE  Closes(s, e)
<1> DEFINE u == s \o t
           n == Len(s)
           f == e \cup {x}
<1>1. /\ u \in Seq(Bytes) /\ n \in 0 .. Len(u) /\ n \in Nat /\ Len(u) \in Nat
      /\ \A i \in 1 .. n : u[i] = s[i] /\ i \in 1 .. Len(u)
      /\ Beginning(u, n) = s
  <2>1. /\ u \in Seq(Bytes) /\ Len(u) = n + Len(t) /\ n \in Nat /\ Len(t) \in Nat
        /\ \A i \in 1 .. n : u[i] = s[i]
    BY BytesConcat
  <2>2. Beginning(u, n) = s
    BY DEF Beginning
  <2> HIDE DEF u, n
  <2> QED
    BY <2>1, <2>2
<1> HIDE DEF u
<1>2. \A i \in 0 .. n : Kind(u)[i] = Kind(s)[i]
  BY <1>1, KindOfBeginning DEF Alike
<1>3. \A i \in 1 .. n : i \in LineEndsOf(u) <=> i \in LineEndsOf(s)
  <2>1. DOMAIN s = 1 .. n /\ DOMAIN u = 1 .. Len(u)
    BY <1>1
  <2>2. \A i \in 1 .. n : i \in 0 .. n
    BY <1>1
  <2> QED
    BY <1>1, <1>2, <2>1, <2>2 DEF LineEndsOf
<1>4. \A i \in LineEndsOf(s) : i \in 1 .. n
  BY DEF LineEndsOf
<1>5. \A j \in 1 .. n - 1 : Closed(u, f, j) <=> Closed(s, e, j)
  <2> TAKE j \in 1 .. n - 1
  <2>1. j + 1 \in 0 .. n /\ j # x
    BY <1>1
  <2> QED
    BY <1>2, <2>1 DEF Closed
<1>6. ASSUME NEW i \in LineEndsOf(s)
      PROVE  \E j \in {k \in LineEndsOf(s) : k >= i} :
               Closed(s, e, j) /\ \A k \in i .. j - 1 : ~Closed(s, e, k)
  <2>1. i \in 1 .. n /\ i \in LineEndsOf(u)
    BY <1>3, <1>4
  <2>2. Closed(u, f, n) /\ Closed(s, e, n)
    <3>1. s # <<>>
      BY <1>1, <2>1
    <3> QED
      BY <3>1 DEF Closed
  <2>3. PICK j \in LineEndsOf(u) :
          j >= i /\ Closed(u, f, j) /\ \A k \in i .. j - 1 : ~Closed(u, f, k)
    BY <2>1 DEF Closes, u, f
  <2>4. j \in Nat
    BY <1>1 DEF LineEndsOf
  <2>5. j \in 1 .. n
    <3>1. n \notin i .. j - 1
      BY <2>2, <2>3
    <3> HIDE DEF n
    <3> QED
      BY <1>1, <2>1, <2>3, <2>4, <3>1
  <2>6. Closed(s, e, j)
    <3>1. CASE j = n
      BY <2>2, <3>1
    <3>2. CASE j # n
      <4>1. j \in 1 .. n - 1
        BY <1>1, <2>5, <3>2
      <4> QED
        BY <1>5, <2>3, <4>1
    <3> QED
      BY <3>1, <3>2
  <2>7. \A k \in i .. j - 1 : ~Closed(s, e, k)
    <3> TAKE k \in i .. j - 1
    <3>1. k \in 1 .. n - 1
      BY <1>1, <2>1, <2>5
    <3> QED
      BY <1>5, <2>3, <3>1
  <2>8. j \in LineEndsOf(s)
    BY <1>3, <2>3, <2>5
  <2> QED
    BY <2>3, <2>6, <2>7, <2>8
<1> QED
  BY <1>6 DEF Closes

\* Cut in its parts.
CutEnds ==
  /\ received # <<>> => Len(received) \in ends
  /\ \A e \in ends : e \in 0 .. Before \/ e = Len(received)
CutStretch ==
  whole /\ linePc = "parse" =>
    /\ pc \in {"refuse", "recv"} /\ Closed(received, ends, Dealt)
    /\ \E start \in Before .. Dealt : Stretch(start)
CutTidy == whole /\ Closes(received, ends) /\ ~Contains(received, "nul") => tidy

LEMMA CutIs == Cut <=> CutEnds /\ CutStretch /\ CutTidy
  BY ClosesIs DEF Cut, CutEnds, CutStretch, CutTidy, Closed



\* What a step of the loop hands over is what lies behind the old stretch.
LEMMA HandsOver ==
  ASSUME AccountInv, AccountInv', Loop, whole
  PROVE  /\ pc = "scan" /\ pc' \in {"scan", "refuse", "recv"} /\ linePc = "idle"
         /\ UNCHANGED <<received, rbuff, rbuffer, whole, sent, last>>
         /\ Before' = Before /\ Dealt' \in Dealt .. Len(received)
         /\ data' = data => Dealt' = Dealt
         /\ Contains(data, "nul") => Contains(data', "nul")
         /\ data' # data =>
              /\ pc' # "scan" /\ Dealt < Dealt' /\ Closed(received, {Len(received)}, Dealt')
              /\ lineBuffer' = lineBuffer \o SubSeq(received, Dealt + 1, Dealt')
              /\ linePc' = "parse" /\ offset' = 0 /\ tidy' = tidy
              /\ \A i \in Dealt + 1 .. Dealt' : received[i] # "iac"
<1>1. /\ pc = "scan" /\ linePc = "idle" /\ (GiveInFront \/ PlainByte \/ EndOfSegment)
      /\ Called /\ UNCHANGED <<received, rbuff, rbuffer, whole, sent, last>>
      /\ pc' \in {"scan", "refuse", "recv"}
  BY DEF Loop, GiveInFront, PlainByte, EndOfSegment
<1>2. Before' = Before
  BY <1>1 DEF Before
<1>3. /\ received \in Seq(Bytes) /\ Len(received) \in Nat /\ Before \in Nat
      /\ Before = Len(received) - rbuff /\ rbuff \in Nat /\ last \in Nat /\ ri \in Nat
      /\ last <= ri /\ ri <= rbuff /\ Dealt = Before + last
      /\ \A i \in last .. ri - 1 : rbuffer[i] # "iac"
      /\ SegmentIsRead /\ data \in Seq(Bytes)
  <2>1. Before \in Nat /\ received \in Seq(Bytes) /\ Len(received) \in Nat
    BY <1>1, DealtIs
  <2>2. /\ \A i \in last .. ri - 1 : rbuffer[i] # "iac"
        /\ SegmentIsRead /\ ri <= rbuff
    BY <1>1 DEF AccountInv, Accounted
  <2>3. rbuff \in Nat /\ last \in Nat /\ ri \in Nat /\ last <= ri /\ data \in Seq(Bytes)
    BY DEF AccountInv, IInv, TypeOK
  <2> QED
    BY <1>1, <2>1, <2>2, <2>3 DEF Dealt, Before
<1>4. CASE PlainByte
  <2>1. data' = data /\ pc' = "scan"
    BY <1>1, <1>4 DEF PlainByte
  <2>2. Dealt' = Dealt
    BY <1>1, <1>2, <2>1 DEF Dealt
  <2>3. Dealt' \in Dealt .. Len(received)
    BY <1>3, <2>2
  <2> QED
    BY <1>1, <1>2, <2>1, <2>2, <2>3
<1>5. CASE GiveInFront \/ EndOfSegment
  <2>1. PICK end \in last .. rbuff :
          /\ data' = Given(end) /\ Dealt' = Before + end /\ pc' # "scan"
          /\ \A i \in last .. end - 1 : rbuffer[i] # "iac"
          /\ Closed(received, {Len(received)}, Before + end)
    <3>1. CASE GiveInFront
      <4>1. /\ ri \in last .. rbuff /\ data' = Given(ri) /\ pc' = "refuse" /\ ri' = ri
            /\ ri < rbuff /\ rbuffer[ri] = "iac"
        BY <1>3, <3>1 DEF GiveInFront
      <4>2. Dealt' = Before + ri
        BY <1>2, <4>1 DEF Dealt
      <4>3. DealtWith(Before + ri)'
        BY <1>1, <4>1 DEF AccountInv, Accounted
      <4>4. Kind(received)[Before + ri + 1] = 3
        <5> DEFINE n == Before + ri
        <5>1. n \in 0 .. Len(received) /\ n + 1 \in 1 .. Len(received) /\ n = (n + 1) - 1
          BY <1>3, <4>1
        <5>2. received[n + 1] = "iac"
          BY <1>3, <4>1 DEF SegmentIsRead
        <5>3. End(Beginning(received, n)) <= 1
          <6>1. whole' /\ pc' # "left" /\ Dealt' = n /\ received' = received
            BY <1>1, <4>1, <4>2
          <6>2. ~EndsInCommand(Beginning(received, n))
            BY <4>1, <4>3, <1>1, <1>2 DEF DealtWith, Beginning
          <6>3. Beginning(received, n) \in Seq(Bytes)
            BY <1>3, <5>1, FrontJoin DEF Beginning
          <6>4. End(Beginning(received, n)) \in 0 .. 3
            BY <6>3, EndType
          <6> QED
            BY <6>2, <6>4 DEF EndsInCommand, End
        <5> HIDE DEF n
        <5>4. Kind(received)[n] <= 1
          BY <1>3, <5>1, <5>3, KindOfBeginning
        <5>5. Kind(received)[n + 1] = After1(Kind(received)[n], received[n + 1])
              /\ Kind(received)[n] \in 0 .. 3
          BY <1>3, <5>1, KindSteps DEF IsKind
        <5>6. Kind(received)[n + 1] = 3
          BY <5>2, <5>4, <5>5 DEF After1
        <5> QED
          BY <5>6 DEF n
      <4>5. Closed(received, {Len(received)}, Before + ri)
        BY <4>4 DEF Closed
      <4> QED
        BY <1>3, <4>1, <4>2, <4>5
    <3>2. CASE EndOfSegment
      <4>1. data' = Given(rbuff) /\ pc' = "recv" /\ ri >= rbuff
        BY <3>2 DEF EndOfSegment
      <4>2. ri = rbuff /\ rbuff \in last .. rbuff /\ Before + rbuff = Len(received)
        BY <1>3, <4>1
      <4>3. Dealt' = Before + rbuff
        BY <1>1, <4>1, <4>2 DEF Dealt
      <4>4. Closed(received, {Len(received)}, Before + rbuff)
        BY <4>2 DEF Closed
      <4> QED
        BY <1>3, <4>1, <4>2, <4>3, <4>4
    <3> QED
      BY <1>5, <3>1, <3>2
  <2>2. Dealt' \in Dealt .. Len(received) /\ end \in Nat
    BY <1>3, <2>1
  <2>3. /\ \A i \in Dealt + 1 .. Dealt' : received[i] # "iac"
        /\ SubSeq(received, Dealt + 1, Dealt') = DataUpTo(end)
        /\ DataUpTo(end) \in Seq(Bytes) /\ Len(DataUpTo(end)) = end - last
    <3> DEFINE t == SubSeq(received, Dealt + 1, Dealt')
    <3>1. \A i \in 1 .. end - last :
            /\ last + i - 1 \in last .. end - 1 /\ last + i - 1 \in 0 .. rbuff - 1
            /\ Before + (last + i - 1) + 1 = Dealt + i
      BY <1>3, <2>1, <2>2
    <3>2. \A i \in 1 .. end - last : received[Dealt + i] = rbuffer[last + i - 1]
      BY <1>3, <3>1 DEF SegmentIsRead
    <3>3. /\ t \in Seq(Bytes) /\ Len(t) = end - last
          /\ \A i \in 1 .. end - last : t[i] = received[Dealt + i]
      <4>1. Dealt \in 0 .. Len(received) /\ Dealt' - Dealt = end - last
        BY <1>3, <2>1, <2>2
      <4>2. IsBetween(t, received, Dealt, Dealt')
        BY <1>3, <2>2, <4>1, Between
      <4>3. /\ t \in Seq(Bytes) /\ Len(t) = Dealt' - Dealt
            /\ \A i \in 1 .. Dealt' - Dealt : t[i] = received[Dealt + i]
        BY <4>2 DEF IsBetween
      <4> HIDE DEF t
      <4> QED
        BY <4>1, <4>3
    <3> HIDE DEF t
    <3>4. t = DataUpTo(end)
      <4>1. t = [i \in 1 .. end - last |-> t[i]]
        BY <1>3, <2>2, <3>3
      <4> QED
        BY <3>2, <3>3, <4>1 DEF DataUpTo
    <3>5. \A i \in Dealt + 1 .. Dealt' : received[i] # "iac"
      <4> TAKE i \in Dealt + 1 .. Dealt'
      <4>1. i - Dealt \in 1 .. end - last /\ Dealt + (i - Dealt) = i
        BY <1>3, <2>1, <2>2
      <4>2. received[i] = rbuffer[last + (i - Dealt) - 1]
            /\ last + (i - Dealt) - 1 \in last .. end - 1
        BY <3>1, <3>2, <4>1
      <4> QED
        BY <2>1, <4>2
    <3> QED
      BY <3>3, <3>4, <3>5 DEF t
  <2>4. CASE last < end
    <3>1. data' = data \o DataUpTo(end)
      BY <2>1, <2>4 DEF Given
    <3>2. data' # data /\ SubSeq(data', Len(data) + 1, Len(data')) = DataUpTo(end)
      <4> DEFINE x == DataUpTo(end)
      <4>1. x \in Seq(Bytes) /\ Len(x) > 0 /\ data \in Seq(Bytes)
        BY <1>3, <2>2, <2>3, <2>4
      <4> HIDE DEF x
      <4>2. data' = data \o x
        BY <3>1 DEF x
      <4>3. Len(data \o x) # Len(data) /\ SubSeq(data \o x, Len(data) + 1, Len(data \o x)) = x
        BY <4>1
      <4> QED
        BY <4>2, <4>3 DEF x
    <3>5. Contains(data, "nul") => Contains(data', "nul")
      <4> SUFFICES ASSUME NEW i \in 1 .. Len(data), data[i] = "nul"
                   PROVE  \E j \in 1 .. Len(data') : data'[j] = "nul"
        BY DEF Contains
      <4>1. data'[i] = data[i] /\ i \in 1 .. Len(data')
        BY <1>3, <2>3, <3>1, ConcatAt
      <4> QED
        BY <4>1
    <3>3. Line!Deliver(DataUpTo(end))
      BY <1>1, <3>2 DEF Called
    <3>4. Dealt < Dealt'
      BY <1>3, <2>1, <2>2, <2>4
    <3> QED
      BY <1>1, <1>2, <2>1, <2>2, <2>3, <3>2, <3>3, <3>4, <3>5 DEF Line!Deliver
  <2>5. CASE ~(last < end)
    <3>1. data' = data /\ end = last
      BY <1>3, <2>1, <2>2, <2>5 DEF Given
    <3> QED
      BY <1>1, <1>2, <1>3, <2>1, <2>2, <3>1
  <2> QED
    BY <2>4, <2>5
<1> QED
  BY <1>1, <1>4, <1>5

LEMMA CutIsNext == Cut' <=> CutEnds' /\ CutStretch' /\ CutTidy'
  BY DEF StretchesEndLines, Closes, LineEndsOf, Cut, CutEnds, CutStretch, CutTidy, Closed

\* CutTidy after a step, of the values its variables have then.
LEMMA ClosesNext == Closes(received, ends)' <=> Closes(received', ends')
  BY DEF Closes, Closed, LineEndsOf, Kind
LEMMA CutTidyNext ==
  CutTidy' <=> (whole' /\ Closes(received', ends') /\ ~Contains(received', "nul") => tidy')
<1>1. Contains(received, "nul")' <=> Contains(received', "nul")
  BY DEF Contains
<1> QED
  BY <1>1, ClosesNext DEF CutTidy

\* Every step but one of the loop leaves most of it alone.
LEMMA CutStays ==
  ASSUME Cut, UNCHANGED <<received, ends, rbuff, whole, tidy>>,
         UNCHANGED <<lineBuffer, data, linePc, Dealt, pc>> \/ linePc' = "idle"
  PROVE  Cut'
<1>1. Before' = Before
  BY DEF Before
<1>2. CutEnds' /\ CutTidy'
  <2>1. CutEnds /\ CutTidy
    BY CutIs
  <2>2. CutEnds'
    BY <1>1, <2>1 DEF CutEnds
  <2>3. CutTidy'
    BY <2>1, CutTidyNext DEF CutTidy
  <2> QED
    BY <2>2, <2>3
<1>3. CutStretch'
  <2>1. CASE linePc' = "idle"
    BY <2>1 DEF CutStretch
  <2>2. CASE UNCHANGED <<lineBuffer, data, linePc, Dealt, pc>>
    <3>1. CutStretch
      BY CutIs
    <3>2. \A start : Stretch(start) => Stretch(start)'
      <4> SUFFICES ASSUME NEW start, Stretch(start)
                   PROVE  Stretch(start)'
        OBVIOUS
      <4> QED
        BY <2>2 DEF Stretch
    <3> QED
      BY <1>1, <2>2, <3>1, <3>2 DEF CutStretch, Closed, Kind
  <2> QED
    BY <2>1, <2>2
<1> QED
  BY <1>2, <1>3, CutIsNext

LEMMA SegmentCuts ==
  ASSUME AccountInv, AccountInv', rest \in Seq(Bytes), Cut, Segment
  PROVE  Cut'
<1>1. PICK n \in Lengths : n <= Len(rest) /\ Recv(SubSeq(rest, 1, n))
  BY DEF Segment
<1> DEFINE t == SubSeq(rest, 1, n)
<1>2. /\ linePc' = "idle" /\ ends' = ends \cup {Len(received')} /\ UNCHANGED <<tidy, data>>
      /\ received' = received \o t /\ rbuff' = Len(t) /\ Len(t) \in Lengths
      /\ whole' = (whole /\ ~EndsInCommand(received'))
  BY <1>1 DEF Segment, Recv, lineVars
<1> HIDE DEF t
<1>3. /\ received \in Seq(Bytes) /\ Len(received) \in Nat /\ received' \in Seq(Bytes)
      /\ Len(t) \in Nat /\ Len(t) > 0
  BY <1>2 DEF AccountInv, Lengths
<1>4. /\ received' \in Seq(Bytes) /\ Len(received') = Len(received) + Len(t)
      /\ \A i \in 1 .. Len(received) : received'[i] = received[i]
      /\ t \in Seq(Bytes)
  <2>1. t \in Seq(Bytes)
    <3>1. n \in 0 .. Len(rest)
      BY <1>1 DEF Lengths
    <3> QED
      BY <3>1 DEF t
  <2> QED
    BY <1>2, <1>3, <2>1, BytesConcat
<1>5. Before' = Len(received) /\ Before \in Nat /\ Before <= Len(received)
  BY <1>2, <1>3, <1>4 DEF Before, AccountInv, IInv, TypeOK
<1>6. CutEnds'
  <2>1. \A e \in ends' : e \in 0 .. Before' \/ e = Len(received')
    <3>1. \A e \in ends : e \in 0 .. Len(received)
      BY <1>3, <1>5, CutIs DEF CutEnds
    <3> QED
      BY <1>2, <1>5, <3>1
  <2> QED
    BY <1>2, <2>1 DEF CutEnds
<1>7. CutTidy'
  <2> SUFFICES ASSUME whole', Closes(received', ends'), ~Contains(received', "nul")
               PROVE  tidy'
    BY CutTidyNext
  <2>1. Closes(received, ends)
    <3>1. received # <<>> => Len(received) \in ends
      BY CutIs DEF CutEnds
    <3>2. Len(received') \in Nat /\ Len(received') > Len(received)
      BY <1>3, <1>4
    <3>3. Closes(received \o t, ends \cup {Len(received')})
      BY <1>2
    <3> QED
      BY <1>3, <1>4, <3>1, <3>2, <3>3, ClosedBefore
  <2>2. ~Contains(received, "nul")
    BY <1>3, <1>4 DEF Contains
  <2> QED
    BY <1>2, <2>1, <2>2, CutIs DEF CutTidy
<1>8. CutStretch'
  BY <1>2 DEF CutStretch
<1> QED
  BY <1>6, <1>7, <1>8, CutIsNext

LEMMA LoopCuts ==
  ASSUME AccountInv, AccountInv', LineProofs!ServedInv, Cut, Loop
  PROVE  Cut'
<1>1. /\ linePc = "idle" /\ UNCHANGED <<ends, received, rbuff, whole>>
  BY DEF Loop, GiveInFront, PlainByte, EndOfSegment
<1>2. CASE data' = data
  <2>1. UNCHANGED lineVars
    BY <1>2 DEF Loop, Called
  <2> QED
    BY <1>1, <2>1, CutStays DEF lineVars
<1>3. CASE data' # data
  <2>1. Line!Deliver(SubSeq(data', Len(data) + 1, Len(data')))
    BY <1>3 DEF Loop, Called
  <2>2. tidy' = tidy /\ linePc' = "parse"
    BY <2>1 DEF Line!Deliver
  <2>3. CutEnds' /\ CutTidy'
    <3>1. CutEnds /\ CutTidy
      BY CutIs
    <3>2. Before' = Before
      BY <1>1 DEF Before
    <3>3. CutEnds'
      BY <1>1, <3>1, <3>2 DEF CutEnds
    <3>4. CutTidy'
      BY <1>1, <2>2, <3>1, CutTidyNext DEF CutTidy
    <3> QED
      BY <3>3, <3>4
  <2>4. ASSUME whole
        PROVE  /\ pc' \in {"refuse", "recv"} /\ Closed(received', ends', Dealt')
               /\ \E start \in Before' .. Dealt' : Stretch(start)'
    <3>1. /\ pc = "scan" /\ pc' \in {"refuse", "recv"}
          /\ Before' = Before /\ Dealt' \in Dealt .. Len(received) /\ Dealt < Dealt'
          /\ Closed(received, {Len(received)}, Dealt')
          /\ lineBuffer' = lineBuffer \o SubSeq(received, Dealt + 1, Dealt')
          /\ \A i \in Dealt + 1 .. Dealt' : received[i] # "iac"
      BY <1>3, <2>4, HandsOver
    <3>2. /\ DealtWith(Dealt) /\ Dealt \in Before .. Len(received) /\ Before \in Nat
          /\ received \in Seq(Bytes) /\ Len(received) \in Nat
          /\ Dealt \in 0 .. Len(received) /\ Dealt \in Nat
      <4>1. /\ DealtWith(Dealt) /\ Dealt \in Before .. Len(received) /\ Before \in Nat
            /\ received \in Seq(Bytes) /\ Len(received) \in Nat
        BY <2>4, <3>1, DealtIs
      <4> QED
        BY <4>1
    <3>3. Closed(received', ends', Dealt')
      <4>1. Len(received) \in ends
        <5>1. received # <<>>
          BY <3>1, <3>2
        <5> QED
          BY <5>1, CutIs DEF CutEnds
      <4> QED
        BY <1>1, <3>1, <4>1 DEF Closed
    <3> PICK start : start = Dealt
      OBVIOUS
    <3> DEFINE t == SubSeq(received, Dealt + 1, Dealt')
               m == Len(lineBuffer)
               n == Dealt' - Dealt
    <3>4. t \in Seq(Bytes) /\ Len(t) = n /\ \A i \in 1 .. n : t[i] = received[Dealt + i]
      <4>1. IsBetween(t, received, Dealt, Dealt')
        BY <3>1, <3>2, Between
      <4> QED
        BY <4>1 DEF IsBetween
    <3> HIDE DEF t
    <3>5. lineBuffer \in Seq(Bytes)
      BY DEF LineProofs!ServedInv, LineProofs!IInv, LineProofs!TypeOK
    <3>6. /\ m \in Nat /\ n \in Nat /\ lineBuffer' \in Seq(Bytes) /\ Len(lineBuffer') = m + n
          /\ \A i \in 1 .. m : lineBuffer'[i] = lineBuffer[i]
          /\ \A i \in 1 .. n : lineBuffer'[m + i] = t[i]
      <4>1. lineBuffer' = lineBuffer \o t
        BY <3>1 DEF t
      <4>2. /\ lineBuffer \o t \in Seq(Bytes) /\ Len(lineBuffer \o t) = m + Len(t)
            /\ m \in Nat /\ Len(t) \in Nat
            /\ \A i \in 1 .. m : (lineBuffer \o t)[i] = lineBuffer[i]
            /\ \A i \in 1 .. Len(t) : (lineBuffer \o t)[m + i] = t[i]
        BY <3>4, <3>5, BytesConcat
      <4> QED
        BY <3>4, <4>1, <4>2
    <3> HIDE DEF m
    <3>7. Len(lineBuffer') - n = m /\ n <= Len(lineBuffer')
      BY <3>6
    <3>8. \A i \in 1 .. n : Dealt + i \in Dealt + 1 .. Dealt'
      <4>1. \A a, b \in Nat : \A i \in 1 .. b - a : a + i \in a + 1 .. b
        OBVIOUS
      <4>2. Dealt' \in Nat
        BY <3>1, <3>2
      <4> QED
        BY <3>2, <4>1, <4>2
    <3>9. tidy' /\ ~Contains(data', "nul") =>
            \A i \in 1 .. m : lineBuffer'[i] \notin Line!Delimiters
      <4> SUFFICES ASSUME tidy', ~Contains(data', "nul")
                   PROVE  \A i \in 1 .. m : lineBuffer'[i] \notin Line!Delimiters
        OBVIOUS
      <4>1. ~Contains(data, "nul")
        BY <2>4, HandsOver
      <4>2. \A i \in 1 .. Len(lineBuffer) : lineBuffer[i] \notin Line!Delimiters
        BY <1>1, <2>2, <4>1, RecordIs
      <4> QED
        BY <3>6, <4>2 DEF m
    <3>10. ~EndsInCommand(SubSeq(received, 1, Dealt))
      BY <3>2 DEF DealtWith
    <3>11. /\ ~EndsInCommand(SubSeq(received', 1, Dealt)) /\ n <= Len(lineBuffer')
           /\ \A i \in 1 .. n :
                lineBuffer'[m + i] = received'[Dealt + i] /\ received'[Dealt + i] # "iac"
           /\ tidy' /\ ~Contains(data', "nul") =>
                \A i \in 1 .. m : lineBuffer'[i] \notin Line!Delimiters
      <4> HIDE DEF n
      <4>1. received' = received
        BY <1>1
      <4>2. ~EndsInCommand(SubSeq(received', 1, Dealt)) /\ n <= Len(lineBuffer')
        BY <3>7, <3>10, <4>1
      <4>3. \A i \in 1 .. n :
              lineBuffer'[m + i] = received'[Dealt + i] /\ received'[Dealt + i] # "iac"
        <5> TAKE i \in 1 .. n
        <5>1. lineBuffer'[m + i] = received[Dealt + i]
          BY <3>4, <3>6
        <5>2. received[Dealt + i] # "iac"
          BY <3>1, <3>8
        <5> QED
          BY <4>1, <5>1, <5>2
      <4> QED
        BY <3>9, <4>2, <4>3
    <3>12. start \in Before' .. Dealt'
      BY <3>1, <3>2
    <3>13. Stretch(start)'
      <4>1. n = Dealt' - start
        OBVIOUS
      <4> HIDE DEF n
      <4> QED
        BY <3>7, <3>11, <4>1 DEF Stretch
    <3> QED
      BY <3>1, <3>3, <3>12, <3>13
  <2>5. CutStretch'
    BY <1>1, <2>4 DEF CutStretch
  <2> QED
    BY <2>3, <2>5, CutIsNext
<1> QED
  BY <1>2, <1>3

\* The parser ends what it used of a stretch at the end of a line of it, and so
\* at the end of the stretch.
LEMMA PopCuts ==
  ASSUME AccountInv, LineProofs!ServedInv, Cut, Line!PopUsed, UNCHANGED <<vars, ends>>
  PROVE  Cut'
<1>1. /\ linePc = "parse" /\ linePc' = "idle" /\ ~Line!HasLine
      /\ tidy' = (tidy /\ offset \in {0, Len(lineBuffer)})
      /\ UNCHANGED <<received, ends, rbuff, whole>>
  BY DEF Line!PopUsed, vars
<1>2. CutEnds' /\ CutStretch'
  <2>1. Before' = Before
    BY <1>1 DEF Before
  <2>2. CutEnds'
    BY <1>1, <2>1, CutIs DEF CutEnds
  <2>3. CutStretch'
    BY <1>1 DEF CutStretch
  <2> QED
    BY <2>2, <2>3
<1>3. CutTidy'
  <2> SUFFICES ASSUME whole, Closes(received, ends), ~Contains(received, "nul")
               PROVE  tidy'
    BY <1>1, CutTidyNext
  <2>1. tidy
    BY CutIs DEF CutTidy
  <2>2. /\ pc # "left" /\ Closed(received, ends, Dealt)
        /\ \E start \in Before .. Dealt : Stretch(start)
    BY <1>1, CutIs DEF CutStretch
  <2>3. ~Contains(data, "nul")
    BY <2>2, NoNulGiven
  <2>4. /\ data = LineProofs!Gone \o lineBuffer /\ LineProofs!Gone \in Seq(Bytes)
        /\ lineBuffer \in Seq(Bytes) /\ LineProofs!Text = lineBuffer
        /\ LineProofs!Delimiters = Line!Delimiters /\ offset \in 0 .. Len(lineBuffer)
    BY <1>1, <2>1, <2>3, RecordIs
  <2>5. /\ Dealt \in Before .. Len(received) /\ Before \in Nat /\ received \in Seq(Bytes)
        /\ Len(received) \in Nat /\ Dealt \in Nat /\ Len(lineBuffer) \in Nat
    <3>1. /\ Dealt \in Before .. Len(received) /\ Before \in Nat /\ received \in Seq(Bytes)
          /\ Len(received) \in Nat
      BY <2>2, DealtIs
    <3> QED
      BY <2>4, <3>1
  <2> SUFFICES ASSUME offset # 0
               PROVE  offset = Len(lineBuffer)
    BY <1>1, <2>1
  <2>6. lineBuffer[offset] \in Line!Delimiters /\ offset \in 1 .. Len(lineBuffer)
    <3>1. offset \in 1 .. Len(lineBuffer)
      BY <2>4
    <3>2. LineProofs!EndsLine(LineProofs!Through)
      <4>1. ~LineProofs!Contains(data, "nul")
        BY <2>3 DEF Contains, LineProofs!Contains
      <4> QED
        BY <2>1, <4>1 DEF LineProofs!ServedInv, LineProofs!Served
    <3> DEFINE g == LineProofs!Gone
               x == SubSeq(lineBuffer, 1, offset)
    <3>3. LineProofs!Through = g \o x
      BY <1>1 DEF LineProofs!Through
    <3>4. x \in Seq(Bytes) /\ Len(x) = offset /\ x[offset] = lineBuffer[offset]
      BY <2>4, <3>1
    <3> HIDE DEF x, g
    <3>5. g \in Seq(Bytes)
      BY <2>4 DEF g
    <3>6. Len(g \o x) = Len(g) + offset /\ (g \o x)[Len(g) + offset] = x[offset] /\ Len(g) \in Nat
      BY <3>1, <3>4, <3>5, BytesConcat
    <3>7. g \o x # <<>>
      <4>1. Len(g \o x) > 0
        BY <3>1, <3>6
      <4> QED
        BY <4>1
    <3>8. x[offset] \in LineProofs!Delimiters
      BY <3>2, <3>3, <3>6, <3>7 DEF LineProofs!EndsLine
    <3> QED
      BY <2>4, <3>1, <3>4, <3>8
  <2>7. PICK start \in Before .. Dealt : Stretch(start)
    BY <2>2
  <2> DEFINE n == Dealt - start
             m == Len(lineBuffer) - n
  <2>8. /\ ~EndsInCommand(SubSeq(received, 1, start)) /\ n \in Nat /\ m \in Nat
        /\ start \in Nat /\ m + n = Len(lineBuffer) /\ start + n = Dealt
        /\ \A i \in 1 .. n :
             lineBuffer[m + i] = received[start + i] /\ received[start + i] # "iac"
        /\ \A i \in 1 .. m : lineBuffer[i] \notin Line!Delimiters
    <3>1. Stretch(start) /\ n \in Nat /\ start \in Nat
      BY <2>5, <2>7
    <3>2. /\ ~EndsInCommand(SubSeq(received, 1, start)) /\ n <= Len(lineBuffer)
          /\ \A i \in 1 .. n :
               lineBuffer[m + i] = received[start + i] /\ received[start + i] # "iac"
          /\ \A i \in 1 .. m : lineBuffer[i] \notin Line!Delimiters
      BY <2>1, <2>3, <3>1 DEF Stretch
    <3> QED
      BY <2>5, <3>1, <3>2
  <2> HIDE DEF n, m
  <2>9. IsRun(received, start, Dealt)
    <3>1. Beginning(received, start) \in Seq(Bytes)
      BY <2>5, <2>7, FrontJoin DEF Beginning
    <3>2. End(Beginning(received, start)) \in 0 .. 3
      BY <3>1, EndType
    <3>3. End(Beginning(received, start)) <= 1
      BY <2>8, <3>2 DEF EndsInCommand, End, Beginning
    <3>4. \A i \in start + 1 .. Dealt : received[i] # "iac"
      <4> TAKE i \in start + 1 .. Dealt
      <4>1. i - start \in 1 .. n /\ start + (i - start) = i
        BY <2>8
      <4> QED
        BY <2>8, <4>1
    <3> QED
      BY <2>5, <2>8, <3>3, <3>4 DEF IsRun
  <2>10. \A i \in start + 1 .. Dealt : Kind(received)[i] = 0
    <3> TAKE i \in start + 1 .. Dealt
    <3>1. i \in start .. Dealt /\ i # start
      BY <2>8
    <3> QED
      BY <2>5, <2>9, <3>1, RunIsData
  <2> DEFINE i == start + (offset - m)
  <2>11. i \in start + 1 .. Dealt /\ i \in LineEndsOf(received)
    <3>1. offset > m
      BY <2>6, <2>8
    <3>2. offset - m \in 1 .. n /\ m + (offset - m) = offset
      BY <2>6, <2>8, <3>1
    <3>3. received[i] = lineBuffer[offset]
      BY <2>8, <3>2
    <3>4. i \in start + 1 .. Dealt /\ i \in 1 .. Len(received)
      BY <2>5, <2>8, <3>2
    <3> HIDE DEF i
    <3> QED
      BY <2>5, <2>6, <2>10, <3>3, <3>4 DEF LineEndsOf
  <2> HIDE DEF i
  <2>12. PICK j \in LineEndsOf(received) :
           j >= i /\ Closed(received, ends, j) /\ \A k \in i .. j - 1 : ~Closed(received, ends, k)
    BY <2>11 DEF Closes
  <2>13. j \in 1 .. Len(received)
    BY <2>5 DEF LineEndsOf
  <2>14. j <= Dealt
    <3>1. Dealt \notin i .. j - 1
      BY <2>2, <2>12
    <3> QED
      BY <2>5, <2>8, <2>11, <2>13, <3>1
  <2>15. j = Dealt
    <3> SUFFICES ASSUME j < Dealt
                 PROVE  FALSE
      BY <2>5, <2>13, <2>14
    <3>1. j + 1 \in start + 1 .. Dealt
      BY <2>5, <2>8, <2>11, <2>12, <2>13
    <3>2. j \in ends
      BY <2>10, <2>12, <3>1 DEF Closed
    <3>3. j \in 0 .. Before \/ j = Len(received)
      BY <3>2, CutIs DEF CutEnds
    <3> QED
      BY <2>5, <2>7, <2>8, <2>11, <2>12, <2>13, <3>3
  <2>16. lineBuffer[Len(lineBuffer)] \in Line!Delimiters
    <3>1. n \in 1 .. n
      BY <2>5, <2>8, <2>11
    <3>2. lineBuffer[m + n] = received[start + n]
      BY <2>8, <3>1
    <3> QED
      BY <2>8, <2>12, <2>15, <3>2 DEF LineEndsOf
  <2>17. \A k \in offset + 1 .. Len(lineBuffer) : lineBuffer[k] \notin LineProofs!Delimiters
    <3>1. ~LineProofs!HasLine
      BY <1>1, SameScan
    <3> QED
      BY <2>4, <3>1, LineProofs!NoLineLeft
  <2> QED
    BY <2>4, <2>5, <2>16, <2>17
<1> QED
  BY <1>2, <1>3, CutIsNext

LEMMA CutKept ==
  ASSUME AccountInv, AccountInv', LineProofs!ServedInv, rest \in Seq(Bytes), Cut,
         [ConnNext]_connVars
  PROVE  Cut'
<1>1. CASE Segment
  BY <1>1, SegmentCuts
<1>2. CASE Loop
  BY <1>2, LoopCuts
<1>3. CASE Refused \/ Left
  <2>1. linePc' = "idle" /\ UNCHANGED <<received, ends, rbuff, whole, tidy>>
    BY <1>3 DEF Refused, Left, Refuse, Leave, lineVars
  <2> QED
    BY <2>1, CutStays
<1>4. CASE Parser
  <2>1. UNCHANGED <<vars, ends>>
    BY <1>4 DEF Parser
  <2>2. CASE Line!EmptyLine \/ Line!CommandLine
    <3>1. UNCHANGED <<lineBuffer, data, linePc, tidy>>
      BY <2>2 DEF Line!EmptyLine, Line!CommandLine
    <3>2. Dealt' = Dealt
      BY <2>1 DEF vars, Dealt, Before
    <3> QED
      BY <2>1, <3>1, <3>2, CutStays DEF vars
  <2>3. CASE Line!PopUsed
    BY <2>1, <2>3, PopCuts
  <2> QED
    BY <1>4, <2>2, <2>3 DEF Parser
<1>5. CASE Quiet \/ UNCHANGED connVars
  <2>1. UNCHANGED connVars
    BY <1>5 DEF Quiet
  <2>2. Dealt' = Dealt
    BY <2>1 DEF connVars, vars, Dealt, Before
  <2> QED
    BY <2>1, <2>2, CutStays DEF connVars, vars, lineVars
<1> QED
  BY <1>1, <1>2, <1>3, <1>4, <1>5 DEF ConnNext

-----------------------------------------------------------------------------
(* The log                                                                   *)

\* A command in the stream brings about its refusal and nothing else.
LEMMA CommandIsEvent ==
  ASSUME NEW s \in Seq(Bytes), NEW n \in 0 .. Len(s) - 1, End(Beginning(s, n)) <= 1,
         s[n + 1] = "iac", End(s) <= 1
  PROVE  /\ n + 3 <= Len(s)
         /\ EventsOf(Beginning(s, n + 3)) =
              Append(EventsOf(Beginning(s, n)), Refusal(s[n + 2], s[n + 3]))
<1>1. n + 3 <= Len(s) /\ n \in Nat /\ Len(s) \in Nat
  BY CommandInFront
<1> DEFINE s0 == Beginning(s, n)
           s1 == Beginning(s, n + 1)
           s2 == Beginning(s, n + 2)
           s3 == Beginning(s, n + 3)
<1>2. /\ s1 = Append(s0, "iac") /\ s0 \in Seq(Bytes) /\ "iac" \in Bytes
      /\ s2 = Append(s1, s[n + 2]) /\ s1 \in Seq(Bytes) /\ s[n + 2] \in Bytes
      /\ s3 = Append(s2, s[n + 3]) /\ s2 \in Seq(Bytes) /\ s[n + 3] \in Bytes
  <2>1. /\ n \in 0 .. Len(s) - 1 /\ n + 1 \in 0 .. Len(s) - 1 /\ n + 2 \in 0 .. Len(s) - 1
        /\ (n + 1) + 1 = n + 2 /\ (n + 2) + 1 = n + 3
    BY <1>1
  <2> QED
    BY <2>1, FrontOneMore
<1> HIDE DEF s0, s1, s2, s3
<1>3. OneMore(s0, "iac", s1) /\ OneMore(s1, s[n + 2], s2) /\ OneMore(s2, s[n + 3], s3)
  BY <1>2, ByteAppend
<1>4. End(s1) = 3 /\ End(s2) = 2 /\ End(s3) = 1
  <2>1. End(s0) \in 0 .. 3 /\ End(s0) <= 1
    BY <1>2, EndType DEF s0
  <2> QED
    BY <1>3, <2>1 DEF OneMore, After1
<1>5. /\ EventMore(s0, "iac", s1) /\ EventMore(s1, s[n + 2], s2)
      /\ EventMore(s2, s[n + 3], s3)
  BY <1>2, EventsAppend
<1>6. EventsOf(s1) = EventsOf(s0) /\ EventsOf(s2) = EventsOf(s1)
      /\ EventsOf(s3) = Append(EventsOf(s2), Refusal(s2[Len(s2)], s[n + 3]))
  BY <1>4, <1>5 DEF EventMore
<1>7. s2[Len(s2)] = s[n + 2]
  BY <1>2
<1> QED
  BY <1>1, <1>6, <1>7 DEF s0, s3

LEMMA NoEvents == EventsOf(<<>>) = <<>>
<1>1. Places(<<>>) = <<>>
  BY PickedNone DEF Places
<1> QED
  BY <1>1 DEF EventsOf, Places

\* Logged, with its beginnings named.
UpToIs(n) ==
  /\ log = EventsOf(Beginning(received, n)) /\ IsRun(received, n, Dealt)
  /\ Len(LineProofs!Through) <= Len(OfKind(Beginning(received, n), 0))
  /\ \A i \in Len(LineProofs!Through) + 1 .. Len(OfKind(Beginning(received, n), 0)) :
       OfKind(Beginning(received, n), 0)[i] \notin Line!Delimiters

LEMMA LoggedUpToIs ==
  ASSUME AccountInv, whole, pc # "left", NEW n \in 0 .. Dealt, LoggedUpTo(n)
  PROVE  UpToIs(n)
<1>1. /\ received \in Seq(Bytes) /\ Dealt \in Before .. Len(received) /\ Before \in Nat
      /\ Len(received) \in Nat
  BY DealtIs
<1>2. n \in 0 .. Len(received) /\ Dealt \in n .. Len(received)
  BY <1>1
<1> DEFINE p == Beginning(received, n)
<1>3. p \in Seq(Bytes)
  BY <1>1, <1>2, FrontJoin DEF Beginning
<1>4. p = SubSeq(received, 1, n)
  BY DEF Beginning
<1> HIDE DEF p
<1>5. End(p) \in 0 .. 3
  BY <1>3, EndType
<1>6. /\ log = EventsOf(p) /\ End(p) <= 1
      /\ \A i \in n + 1 .. Dealt : received[i] # "iac"
      /\ Len(Line!Through) <= Len(OfKind(p, 0))
      /\ \A i \in Len(Line!Through) + 1 .. Len(OfKind(p, 0)) :
           OfKind(p, 0)[i] \notin Line!Delimiters
  BY <1>4, <1>5 DEF LoggedUpTo, EndsInCommand, End
<1>7. IsRun(received, n, Dealt)
  BY <1>2, <1>6 DEF IsRun, p
<1> QED
  BY <1>6, <1>7, SameLines DEF UpToIs, p

\* And in its parts.
LoggedIdle == linePc = "idle" => log = EventsOf(SubSeq(received, 1, Dealt))
LoggedParse == linePc = "parse" => \E n \in 0 .. Dealt : LoggedUpTo(n)

LEMMA SegmentLogs ==
  ASSUME AccountInv, rest \in Seq(Bytes), Logged, Segment
  PROVE  Logged'
<1>1. PICK n \in Lengths : n <= Len(rest) /\ Recv(SubSeq(rest, 1, n))
  BY DEF Segment
<1> DEFINE t == SubSeq(rest, 1, n)
<1>2. t \in Seq(Bytes) /\ Len(t) = n /\ n \in Nat
  <2>1. n \in 0 .. Len(rest)
    BY <1>1 DEF Lengths
  <2> QED
    BY <2>1
<1>3. /\ linePc = "idle" /\ linePc' = "idle" /\ UNCHANGED <<tidy, data, log>>
      /\ pc = "recv" /\ pc' = "scan" /\ last' = 0 /\ rbuff' = Len(t)
      /\ received' = received \o t /\ whole' = (whole /\ ~EndsInCommand(received'))
  BY <1>1 DEF Segment, Recv, lineVars
<1> HIDE DEF t
<1>4. received \in Seq(Bytes) /\ Len(received) \in Nat
  BY DEF AccountInv
<1>5. /\ Dealt = Len(received) /\ Dealt' = Len(received)
      /\ SubSeq(received', 1, Len(received)) = received
      /\ SubSeq(received, 1, Len(received)) = received
  <2>1. Len(received') = Len(received) + Len(t) /\ Len(t) \in Nat
    BY <1>2, <1>3, <1>4, BytesConcat
  <2>2. Before' = Len(received)
    BY <1>3, <1>4, <2>1 DEF Before
  <2>3. Dealt = Len(received) /\ Dealt' = Len(received)
    BY <1>3, <1>4, <2>2 DEF Dealt
  <2>4. SubSeq(received \o t, 1, Len(received)) = received
    BY <1>2, <1>4
  <2> QED
    BY <1>3, <1>4, <2>3, <2>4
<1>6. whole' /\ tidy' /\ ~Contains(data', "nul") =>
        log' = EventsOf(SubSeq(received', 1, Dealt'))
  BY <1>3, <1>5 DEF Logged
<1> QED
  BY <1>3, <1>6 DEF Logged

LEMMA LoopLogs ==
  ASSUME AccountInv, AccountInv', LineProofs!ServedInv, Logged, Loop
  PROVE  Logged'
<1> SUFFICES ASSUME whole, tidy', ~Contains(data', "nul")
             PROVE  LoggedIdle' /\ LoggedParse'
  <2>1. whole' = whole
    BY DEF Loop, GiveInFront, PlainByte, EndOfSegment
  <2> QED
    BY <2>1 DEF Logged, LoggedIdle, LoggedParse
<1>1. /\ pc = "scan" /\ linePc = "idle" /\ UNCHANGED <<received, rbuff, log>>
      /\ Dealt' \in Dealt .. Len(received) /\ (data' = data => Dealt' = Dealt)
      /\ ~Contains(data, "nul")
      /\ data' # data =>
           /\ lineBuffer' = lineBuffer \o SubSeq(received, Dealt + 1, Dealt')
           /\ linePc' = "parse" /\ offset' = 0 /\ tidy' = tidy
           /\ \A i \in Dealt + 1 .. Dealt' : received[i] # "iac"
  <2>1. log' = log
    BY DEF Loop
  <2> QED
    BY <2>1, HandsOver
<1>2. CASE data' = data
  <2>1. UNCHANGED lineVars
    BY <1>2 DEF Loop, Called
  <2>2. log = EventsOf(SubSeq(received, 1, Dealt))
    BY <1>1, <2>1 DEF Logged, lineVars
  <2> QED
    BY <1>1, <1>2, <2>1, <2>2 DEF lineVars, LoggedIdle, LoggedParse
<1>3. CASE data' # data
  <2>1. /\ DealtWith(Dealt) /\ Dealt \in Nat /\ data = OfKind(Beginning(received, Dealt), 0)
    <3>1. /\ DealtWith(Dealt) /\ Dealt \in Before .. Len(received) /\ Before \in Nat
          /\ data = OfKind(Beginning(received, Dealt), 0) /\ Len(received) \in Nat
      BY <1>1, DealtIs
    <3> QED
      BY <3>1
  <2>2. tidy
    BY <1>1, <1>3
  <2>3. log = EventsOf(SubSeq(received, 1, Dealt))
    BY <1>1, <2>2 DEF Logged
  <2>4. /\ data = LineProofs!Gone \o lineBuffer /\ LineProofs!Gone \in Seq(Bytes)
        /\ lineBuffer \in Seq(Bytes)
        /\ \A i \in 1 .. Len(lineBuffer) : lineBuffer[i] \notin Line!Delimiters
    BY <1>1, <2>2, RecordIs
  <2> DEFINE g == LineProofs!Gone
             chunk == SubSeq(data', Len(data) + 1, Len(data'))
             p == SubSeq(received, 1, Dealt)
  <2>5. Len(Line!Through') = Len(g) /\ Len(g) \in Nat
    <3>1. lineBuffer' = lineBuffer \o chunk /\ data' = data \o chunk
      BY <1>3 DEF Loop, Called, Line!Deliver
    <3>2. chunk \in Seq(Bytes) /\ data \in Seq(Bytes)
      BY DEF AccountInv, IInv, TypeOK
    <3> HIDE DEF chunk, g
    <3>3. /\ Len(data') = Len(data) + Len(chunk)
          /\ Len(lineBuffer') = Len(lineBuffer) + Len(chunk)
          /\ Len(data) = Len(g) + Len(lineBuffer) /\ Len(g) \in Nat
          /\ Len(chunk) \in Nat /\ Len(lineBuffer) \in Nat /\ data' \in Seq(Bytes)
      BY <2>4, <3>1, <3>2, BytesConcat DEF g
    <3> DEFINE x == SubSeq(data', 1, Len(data') - Len(lineBuffer'))
    <3>4. Len(data') - Len(lineBuffer') \in 0 .. Len(data')
          /\ Len(data') - Len(lineBuffer') = Len(g)
      BY <3>3
    <3>5. x \in Seq(Bytes) /\ Len(x) = Len(g)
      BY <3>3, <3>4
    <3> HIDE DEF x
    <3>6. x \o <<>> = x
      BY <3>5
    <3>7. SubSeq(lineBuffer', 1, 0) = <<>>
      BY <2>4, <3>1, <3>2
    <3>8. Line!Through' = x \o <<>>
      BY <1>1, <1>3, <3>7 DEF Line!Through, Line!Gone, x
    <3> QED
      BY <3>3, <3>5, <3>6, <3>8
  <2>6. data = OfKind(p, 0) /\ ~EndsInCommand(p)
    BY <2>1 DEF DealtWith
  <2>7. Len(g) <= Len(data) /\ \A i \in Len(g) + 1 .. Len(data) : data[i] \notin Line!Delimiters
    <3> HIDE DEF g
    <3>1. /\ g \in Seq(Bytes) /\ lineBuffer \in Seq(Bytes) /\ data = g \o lineBuffer
      BY <2>4 DEF g
    <3>2. /\ Len(data) = Len(g) + Len(lineBuffer) /\ Len(g) \in Nat /\ Len(lineBuffer) \in Nat
          /\ \A i \in 1 .. Len(lineBuffer) : data[Len(g) + i] = lineBuffer[i]
      BY <3>1, BytesConcat
    <3>3. ASSUME NEW i \in Len(g) + 1 .. Len(data)
          PROVE  data[i] \notin Line!Delimiters
      <4>1. i - Len(g) \in 1 .. Len(lineBuffer) /\ Len(g) + (i - Len(g)) = i
        BY <3>2
      <4> QED
        BY <2>4, <3>2, <4>1
    <3> QED
      BY <3>2, <3>3
  <2> PICK n : n = Dealt
    OBVIOUS
  <2>8. /\ SubSeq(received', 1, n) = p /\ log' = EventsOf(p)
        /\ \A i \in n + 1 .. Dealt' : received'[i] # "iac"
    BY <1>1, <1>3, <2>3
  <2>9. LoggedUpTo(n)'
    <3> HIDE DEF g, p
    <3> QED
      BY <2>5, <2>6, <2>7, <2>8 DEF LoggedUpTo
  <2>10. n \in 0 .. Dealt'
    BY <1>1, <2>1
  <2> QED
    BY <1>1, <1>3, <2>9, <2>10 DEF LoggedIdle, LoggedParse
<1> QED
  BY <1>2, <1>3

LEMMA RefusalsAreSequence ==
  ASSUME NEW s \in Seq(Bytes)
  PROVE  \E S : Refusals(s) \in Seq(S)
<1> DEFINE c == OfKind(s, 2)
           r == Refusals(s)
           S == {r[i] : i \in DOMAIN c}
<1>1. c \in Seq(Bytes)
  BY OfKindType
<1>2. r = [i \in DOMAIN c |-> r[i]]
  BY DEF Refusals
<1> HIDE DEF c, r
<1>3. r \in [1 .. Len(c) -> S] /\ Len(c) \in Nat
  BY <1>1, <1>2
<1> HIDE DEF S
<1>4. r \in Seq(S)
  BY <1>3
<1> QED
  BY <1>4 DEF r

LEMMA RefusedLogs ==
  ASSUME AccountInv, Logged, Refused
  PROVE  Logged'
<1>1. /\ linePc = "idle" /\ linePc' = "idle" /\ pc = "refuse" /\ pc' = "scan" /\ Refuse
      /\ UNCHANGED <<received, rbuff, data, tidy, whole>> /\ last' = ri + 3
      /\ log' = Append(log, Last(sent'))
  BY DEF Refused, Refuse, lineVars
<1> SUFFICES ASSUME whole, tidy, ~Contains(data, "nul")
             PROVE  log' = EventsOf(SubSeq(received, 1, Dealt'))
  BY <1>1 DEF Logged
<1> DEFINE n == Before + ri
<1>2. /\ Dealt = n /\ Dealt' = n + 3 /\ n \in Nat /\ Before \in Nat /\ ri \in Nat /\ ri < rbuff
      /\ Before + rbuff = Len(received) /\ rbuff \in Nat /\ received \in Seq(Bytes)
      /\ Len(received) \in Nat /\ End(Beginning(received, n)) <= 1
  <2>1. Before' = Before
    BY <1>1 DEF Before
  <2>2. /\ ri \in Nat /\ ri < rbuff /\ rbuff \in Nat
    BY <1>1 DEF AccountInv, IInv, TypeOK, AtCommand
  <2>3. /\ Before \in Nat /\ received \in Seq(Bytes) /\ Len(received) \in Nat
        /\ End(Beginning(received, Dealt)) <= 1
    BY <1>1, DealtIs
  <2>4. Before + rbuff = Len(received)
    BY <2>2, <2>3 DEF Before
  <2>5. Dealt = n /\ Dealt' = Before + (ri + 3)
    BY <1>1, <2>1 DEF Dealt
  <2> QED
    BY <2>2, <2>3, <2>4, <2>5
<1>3. n \in 0 .. Len(received) - 1 /\ received[n + 1] = "iac" /\ End(received) <= 1
  <2>1. rbuffer[ri] = "iac" /\ SegmentIsRead /\ ~EndsInCommand(received)
    BY <1>1 DEF AccountInv, Accounted
  <2>2. End(received) \in 0 .. 3
    BY <1>2, EndType
  <2> QED
    BY <1>2, <2>1, <2>2 DEF SegmentIsRead, EndsInCommand, End
<1> HIDE DEF n
<1> DEFINE x == Refusal(received[n + 2], received[n + 3])
<1>4. /\ n + 3 <= Len(received)
      /\ EventsOf(Beginning(received, n + 3)) = Append(EventsOf(Beginning(received, n)), x)
  BY <1>2, <1>3, CommandIsEvent
<1>5. sent' = Append(sent, x)
  <2>1. /\ ri + 1 \in 0 .. rbuff - 1 /\ ri + 2 \in 0 .. rbuff - 1
        /\ Before + (ri + 1) + 1 = n + 2 /\ Before + (ri + 2) + 1 = n + 3
    BY <1>2, <1>4 DEF n
  <2>2. Read(ri + 1) = {received[n + 2]} /\ Read(ri + 2) = {received[n + 3]}
    BY <1>1, <2>1, ReadsSegment
  <2> QED
    BY <1>1, <2>2 DEF Refuse
<1>6. Last(sent') = x
  <2> DEFINE p == SubSeq(received, 1, Dealt)
  <2>1. sent = Refusals(p)
    BY <1>1, DealtIs DEF DealtWith
  <2>2. p \in Seq(Bytes)
    BY <1>2, <1>3
  <2> HIDE DEF p, x
  <2>3. PICK S : sent \in Seq(S)
    BY <2>1, <2>2, RefusalsAreSequence
  <2>4. sent \in Seq(S \cup {x})
    BY <2>3
  <2>5. Append(sent, x) \in Seq(S \cup {x}) /\ Len(Append(sent, x)) = Len(sent) + 1
        /\ Append(sent, x)[Len(sent) + 1] = x
    BY <2>4
  <2> QED
    BY <1>5, <2>5 DEF Last
<1>7. log = EventsOf(SubSeq(received, 1, Dealt))
  BY <1>1 DEF Logged
<1> HIDE DEF x
<1> QED
  BY <1>1, <1>2, <1>4, <1>6, <1>7 DEF Beginning

LEMMA BeginningBehind ==
  \A g \in Seq(Bytes), u \in Seq(Bytes) : \A o \in 0 .. Len(u) :
    /\ g \o SubSeq(u, 1, o) = Beginning(g \o u, Len(g) + o)
    /\ Len(g \o SubSeq(u, 1, o)) = Len(g) + o /\ Len(g) + o <= Len(g \o u)
  BY DEF Beginning

\* A line the parser is through with more: the stream up to its end.
LEMMA ScanLogs ==
  ASSUME AccountInv, LineProofs!ServedInv, LineProofs!ServedInv', Logged, Parser,
         Line!EmptyLine \/ Line!CommandLine
  PROVE  Logged'
<1>1. /\ linePc = "parse" /\ UNCHANGED <<vars, linePc, lineBuffer, tidy>>
      /\ log' = IF calls' = calls THEN log ELSE Append(log, Line!Told(Last(calls')))
  BY DEF Parser, Line!EmptyLine, Line!CommandLine
<1>2. UNCHANGED <<received, data, whole, pc, Dealt>>
  BY <1>1 DEF vars, Dealt, Before
<1> SUFFICES ASSUME whole, tidy, ~Contains(data, "nul"), pc # "left"
             PROVE  LoggedParse'
  BY <1>1, <1>2 DEF Logged, LoggedParse
<1>3. PICK m \in 0 .. Dealt : LoggedUpTo(m)
  BY <1>1 DEF Logged
<1>4. UpToIs(m)
  BY <1>3, LoggedUpToIs
<1>5. /\ received \in Seq(Bytes) /\ Dealt \in Nat /\ Len(received) \in Nat
      /\ data = OfKind(Beginning(received, Dealt), 0)
  <2>1. /\ received \in Seq(Bytes) /\ Dealt \in Before .. Len(received) /\ Before \in Nat
        /\ data = OfKind(Beginning(received, Dealt), 0) /\ Len(received) \in Nat
    BY DealtIs
  <2> QED
    BY <2>1
<1>6. /\ data = LineProofs!Gone \o lineBuffer /\ LineProofs!Gone \in Seq(Bytes)
      /\ lineBuffer \in Seq(Bytes) /\ LineProofs!Delimiters = Line!Delimiters
      /\ LineProofs!Text = lineBuffer
  BY RecordIs
<1>7. PICK b : LineProofs!LineTaken(b)
  <2>1. ~LineProofs!Contains(data, "nul")
    BY DEF Contains, LineProofs!Contains
  <2>2. LineProofs!EmptyLine \/ LineProofs!CommandLine
    BY SameActions
  <2> QED
    BY <2>1, <2>2, SameConstants, LineProofs!ScanTakes
<1> DEFINE t == LineProofs!Through
           l == LineProofs!Line
           f == OfKind(Beginning(received, m), 0)
           e == Len(t \o l) + 1
<1>8. /\ t \in Seq(Bytes) /\ l \in Seq(Bytes \ Line!Delimiters) /\ b \in Bytes \cap Line!Delimiters
      /\ LineProofs!Unfinished(t) = <<>> /\ t' = Append(t \o l, b)
      /\ LineProofs!Told(LineProofs!Call) = l
      /\ calls' = IF LineProofs!Asked(l) THEN Append(calls, LineProofs!Call) ELSE calls
  BY <1>6, <1>7 DEF LineProofs!LineTaken
<1>9. e <= Len(data) /\ Beginning(data, e) = Append(t \o l, b)
  <2> DEFINE g == LineProofs!Gone
             x == SubSeq(lineBuffer, 1, offset')
  <2>1. offset' \in 0 .. Len(lineBuffer)
    <3>1. linePc' = "parse" /\ tidy' /\ lineBuffer' = lineBuffer
      BY <1>1
    <3>2. LineProofs!Text' = LineProofs!Text
      BY <3>1 DEF LineProofs!Text, LineProofs!UpTo
    <3> QED
      BY <1>6, <3>1, <3>2 DEF LineProofs!ServedInv, LineProofs!IInv, LineProofs!TypeOK,
                              LineProofs!BufferFits
  <2>2. t' = g \o x
    BY <1>1, <1>2 DEF LineProofs!Through, LineProofs!Gone
  <2>3. /\ g \o x = Beginning(g \o lineBuffer, Len(g) + offset')
        /\ Len(g \o x) = Len(g) + offset' /\ Len(g) + offset' <= Len(g \o lineBuffer)
    BY <1>6, <2>1, BeginningBehind
  <2>4. Len(Append(t \o l, b)) = e
    <3>1. t \o l \in Seq(Bytes)
      <4>1. l \in Seq(Bytes)
        BY <1>8
      <4> HIDE DEF t, l
      <4> QED
        BY <1>8, <4>1
    <3> HIDE DEF t, l
    <3> QED
      BY <1>8, <3>1
  <2> QED
    BY <1>6, <1>8, <2>2, <2>3, <2>4
<1>10. /\ f \in Seq(Bytes) /\ Len(f) \in Nat /\ IsRun(received, m, Dealt)
       /\ log = EventsOf(Beginning(received, m)) /\ Len(t) <= Len(f)
       /\ \A i \in Len(t) + 1 .. Len(f) : f[i] \notin Line!Delimiters
  <2>1. IsRun(received, m, Dealt)
    BY <1>4 DEF UpToIs
  <2>2. IsBehind(received, m, Dealt, data, f)
    BY <1>5, <2>1, RunBehind
  <2>3. f \in Seq(Bytes) => Len(f) \in Nat
    OBVIOUS
  <2> QED
    BY <1>4, <2>2, <2>3 DEF UpToIs, IsBehind
<1> HIDE DEF t, l, f
<1>11. PICK k \in m .. Dealt :
         /\ OfKind(Beginning(received, k), 0) = Append(t \o l, b)
         /\ EventsOf(Beginning(received, k)) =
              IF Line!Asked(l) THEN Append(EventsOf(Beginning(received, m)), l)
              ELSE EventsOf(Beginning(received, m))
  <2>1. \E k \in m .. Dealt : EventsUpTo(received, m, k, Append(t \o l, b), l)
    <3>1. f = OfKind(Beginning(received, m), 0)
      BY DEF f
    <3> QED
      BY <1>5, <1>8, <1>9, <1>10, <3>1, LineInRun
  <2> QED
    BY <2>1 DEF EventsUpTo
<1>12. /\ k \in 0 .. Dealt /\ IsRun(received, m, Dealt)
       /\ Beginning(received, k) \in Seq(Bytes)
       /\ End(Beginning(received, k)) <= 1 /\ End(Beginning(received, k)) \in 0 .. 3
  <2>1. k \in 0 .. Dealt
    BY <1>3, <1>5, <1>11
  <2>2. End(Beginning(received, k)) <= 1
    BY <1>5, <1>10, <1>11, RunIsData
  <2>3. k \in 0 .. Len(received)
    BY <1>3, <1>5, <1>10, <1>11 DEF IsRun
  <2>4. Beginning(received, k) \in Seq(Bytes)
    BY <1>5, <2>3 DEF Beginning
  <2>5. End(Beginning(received, k)) \in 0 .. 3
    BY <2>4, EndType
  <2> QED
    BY <1>10, <2>1, <2>2, <2>4, <2>5
<1>13. log' = EventsOf(Beginning(received, k))
  <2>1. Line!Asked(l) <=> LineProofs!Asked(l)
    BY SameLines
  <2>2. CASE LineProofs!Asked(l)
    <3> DEFINE c == LineProofs!Call
    <3>1. calls' = Append(calls, c) /\ LineProofs!Told(c) = l
      BY <1>8, <2>2
    <3> HIDE DEF c
    <3>2. PICK S : calls \in Seq(S)
      BY DEF LineProofs!ServedInv, LineProofs!Bounded
    <3>3. calls \in Seq(S \cup {c})
      BY <3>2
    <3>4. /\ Len(Append(calls, c)) = Len(calls) + 1 /\ Append(calls, c)[Len(calls) + 1] = c
          /\ Len(calls) \in Nat
      BY <3>3
    <3>5. calls' # calls /\ Last(calls') = c
      BY <3>1, <3>4 DEF Last
    <3>6. Line!Told(c) = l
      BY <3>1, SameLines
    <3> QED
      BY <1>1, <1>10, <1>11, <2>1, <2>2, <3>5, <3>6
  <2>3. CASE ~LineProofs!Asked(l)
    BY <1>1, <1>8, <1>10, <1>11, <2>1, <2>3
  <2> QED
    BY <2>2, <2>3
<1>14. LoggedUpTo(k)'
  <2> DEFINE p == SubSeq(received', 1, k)
             v == Line!Through'
  <2>1. p = Beginning(received, k)
    BY <1>2 DEF Beginning
  <2> HIDE DEF p
  <2>2. log' = EventsOf(p) /\ ~EndsInCommand(p)
    BY <1>12, <1>13, <2>1 DEF EndsInCommand, End
  <2>3. \A i \in k + 1 .. Dealt' : received'[i] # "iac"
    <3>1. \A i \in k + 1 .. Dealt : i \in m + 1 .. Dealt
      BY <1>3, <1>5, <1>11
    <3> QED
      BY <1>2, <1>12, <3>1 DEF IsRun
  <2>4. v = OfKind(p, 0) /\ v \in Seq(Bytes)
    <3>1. Line!Through' = LineProofs!Through'
      BY DEF Line!Through, LineProofs!Through, Line!Gone, LineProofs!Gone
    <3>2. LineProofs!Through' = Append(t \o l, b)
      BY <1>8 DEF t
    <3>3. p \in Seq(Bytes)
      BY <1>12, <2>1
    <3>4. OfKind(p, 0) \in Seq(Bytes)
      BY <3>3, OfKindType
    <3> QED
      BY <1>11, <2>1, <3>1, <3>2, <3>4
  <2> HIDE DEF v
  <2>5. Len(v) \in Nat
    BY <2>4
  <2>6. Len(v) <= Len(OfKind(p, 0))
        /\ \A i \in Len(v) + 1 .. Len(OfKind(p, 0)) : OfKind(p, 0)[i] \notin Line!Delimiters
    BY <2>4, <2>5
  <2> QED
    BY <2>2, <2>3, <2>6 DEF LoggedUpTo, p, v
<1> QED
  BY <1>2, <1>12, <1>14 DEF LoggedParse

\* When the parser ends there is no line left behind the beginning logged.
LEMMA PopLogs ==
  ASSUME AccountInv, LineProofs!ServedInv, Logged, Parser, Line!PopUsed
  PROVE  Logged'
<1>1. /\ linePc = "parse" /\ linePc' = "idle" /\ UNCHANGED <<vars, log>>
      /\ (tidy' => tidy) /\ ~Line!HasLine
  BY DEF Parser, Line!PopUsed
<1>2. UNCHANGED <<received, data, whole, pc, Dealt>>
  BY <1>1 DEF vars, Dealt, Before
<1> SUFFICES ASSUME whole, tidy, ~Contains(data, "nul"), pc # "left"
             PROVE  log = EventsOf(SubSeq(received, 1, Dealt))
  BY <1>1, <1>2 DEF Logged
<1>3. PICK m \in 0 .. Dealt : UpToIs(m)
  BY <1>1, LoggedUpToIs DEF Logged
<1>4. /\ received \in Seq(Bytes) /\ data = OfKind(Beginning(received, Dealt), 0)
  BY DealtIs
<1>5. /\ data = LineProofs!Gone \o lineBuffer /\ LineProofs!Gone \in Seq(Bytes)
      /\ lineBuffer \in Seq(Bytes) /\ LineProofs!Text = lineBuffer
      /\ LineProofs!Delimiters = Line!Delimiters /\ offset \in 0 .. Len(lineBuffer)
  BY <1>1, RecordIs
<1>6. \A i \in offset + 1 .. Len(lineBuffer) : lineBuffer[i] \notin LineProofs!Delimiters
  <2>1. ~LineProofs!HasLine
    BY <1>1, SameScan
  <2> QED
    BY <1>5, <2>1, LineProofs!NoLineLeft
<1> DEFINE g == LineProofs!Gone
           t == LineProofs!Through
           f == OfKind(Beginning(received, m), 0)
<1>7. /\ Len(t) = Len(g) + offset /\ Len(g) \in Nat /\ offset \in Nat
      /\ Len(data) = Len(g) + Len(lineBuffer) /\ Len(lineBuffer) \in Nat
      /\ \A i \in 1 .. Len(lineBuffer) : data[Len(g) + i] = lineBuffer[i]
  <2>1. t = g \o SubSeq(lineBuffer, 1, offset)
    BY <1>1 DEF LineProofs!Through
  <2> HIDE DEF g, t
  <2>2. g \in Seq(Bytes) /\ data = g \o lineBuffer
    BY <1>5 DEF g
  <2>3. Len(g \o SubSeq(lineBuffer, 1, offset)) = Len(g) + offset
    BY <1>5, <2>2, BeginningBehind
  <2>4. /\ Len(g \o lineBuffer) = Len(g) + Len(lineBuffer) /\ Len(lineBuffer) \in Nat
        /\ Len(g) \in Nat
        /\ \A i \in 1 .. Len(lineBuffer) : (g \o lineBuffer)[Len(g) + i] = lineBuffer[i]
    BY <1>5, <2>2, BytesConcat
  <2> QED
    BY <1>5, <2>1, <2>2, <2>3, <2>4
<1>8. /\ IsRun(received, m, Dealt) /\ log = EventsOf(Beginning(received, m))
      /\ Len(t) <= Len(f)
  BY <1>3 DEF UpToIs
<1>9. IsBehind(received, m, Dealt, data, f)
  BY <1>4, <1>8, RunBehind
<1>10. \A i \in m + 1 .. Dealt : received[i] \notin Line!Delimiters
  <2> HIDE DEF g, t, f
  <2>1. /\ f \in Seq(Bytes) /\ Len(data) = Len(f) + (Dealt - m)
        /\ \A i \in 1 .. Dealt - m : data[Len(f) + i] = received[m + i]
    BY <1>9 DEF IsBehind
  <2>2. Len(f) \in Nat
    BY <2>1
  <2>3. m \in Nat /\ Dealt \in Nat
    BY <1>8 DEF IsRun
  <2> TAKE i \in m + 1 .. Dealt
  <2>4. i - m \in 1 .. Dealt - m /\ m + (i - m) = i
    BY <2>3
  <2> DEFINE j == Len(f) + (i - m) - Len(g)
  <2>5. j \in offset + 1 .. Len(lineBuffer) /\ j \in 1 .. Len(lineBuffer)
        /\ Len(g) + j = Len(f) + (i - m)
    BY <1>7, <1>8, <2>1, <2>2, <2>3, <2>4
  <2> HIDE DEF j
  <2>6. received[i] = lineBuffer[j]
    BY <1>7, <2>1, <2>4, <2>5
  <2> QED
    BY <1>5, <1>6, <2>5, <2>6
<1>11. EventsOf(Beginning(received, Dealt)) = EventsOf(Beginning(received, m))
  BY <1>4, <1>8, <1>10, RunIsQuiet
<1> QED
  BY <1>8, <1>11 DEF Beginning

LEMMA LoggedKept ==
  ASSUME AccountInv, AccountInv', LineProofs!ServedInv, LineProofs!ServedInv',
         rest \in Seq(Bytes), Logged, [ConnNext]_connVars
  PROVE  Logged'
<1>1. CASE Segment
  BY <1>1, SegmentLogs
<1>2. CASE Loop
  BY <1>2, LoopLogs
<1>3. CASE Refused
  BY <1>3, RefusedLogs
<1>4. CASE Left
  BY <1>4 DEF Left, Leave, Logged
<1>5. CASE Parser
  BY <1>5, ScanLogs, PopLogs DEF Parser
<1>6. CASE Quiet \/ UNCHANGED connVars
  <2>1. UNCHANGED <<pc, whole, tidy, data, linePc, log, received, Dealt, lineBuffer, offset>>
    BY <1>6 DEF Quiet, connVars, vars, lineVars, Dealt, Before
  <2>2. \A n : LoggedUpTo(n) => LoggedUpTo(n)'
    <3> SUFFICES ASSUME NEW n, LoggedUpTo(n)
                 PROVE  LoggedUpTo(n)'
      OBVIOUS
    <3>1. Line!Through' = Line!Through
      BY <2>1 DEF Line!Through, Line!Gone
    <3> QED
      BY <2>1, <3>1 DEF LoggedUpTo
  <2>3. LoggedParse => LoggedParse'
    BY <2>1, <2>2 DEF LoggedParse
  <2>4. LoggedIdle => LoggedIdle'
    BY <2>1 DEF LoggedIdle
  <2> QED
    BY <2>1, <2>3, <2>4 DEF Logged, LoggedIdle, LoggedParse
<1> QED
  BY <1>1, <1>2, <1>3, <1>4, <1>5, <1>6 DEF ConnNext

\* What holds of a connection all the time, if a value parse_client_buffer does
\* not return on purpose is not less than there is to take off.
ConnInv ==
  AccountInv /\ LineProofs!ServedInv /\ rest \in Seq(Bytes)

\* What is asked for by the beginning of a stream is the beginning of what is asked
\* for by the stream.
LEMMA EventsType ==
  \A s \in Seq(Bytes) : EventsOf(s) \in Seq({EventAt(u, i) : u \in Seq(Bytes), i \in Nat})
<1> DEFINE T == {EventAt(u, i) : u \in Seq(Bytes), i \in Nat}
<1> SUFFICES ASSUME NEW s \in Seq(Bytes)
             PROVE  EventsOf(s) \in Seq(T)
  OBVIOUS
<1> DEFINE p == Places(s)
<1>1. p \in Seq(1 .. Len(s)) /\ Len(s) \in Nat
  <2>1. PICK b : b \in Bytes
    BY DEF Bytes
  <2> QED
    BY <2>1, PlacesAppend
<1>2. EventsOf(s) = [k \in DOMAIN p |-> EventAt(s, p[k])]
  BY DEF EventsOf, Places
<1> HIDE DEF p
<1>3. \A k \in DOMAIN p : EventAt(s, p[k]) \in T
  <2> TAKE k \in DOMAIN p
  <2>1. p[k] \in Nat
    BY <1>1
  <2> QED
    BY <2>1
<1> HIDE DEF T
<1>4. DOMAIN p = 1 .. Len(p) /\ Len(p) \in Nat
  BY <1>1
<1> QED
  BY <1>2, <1>3, <1>4

LEMMA PrefixGrows ==
  ASSUME NEW T, NEW a \in Seq(T), NEW b \in Seq(T), NEW c \in Seq(T), NEW x,
         IsPrefix(a, b), c = b \/ c = Append(b, x)
  PROVE  IsPrefix(a, c)
<1>1. CASE c = b
  BY <1>1
<1>2. CASE c = Append(b, x)
  <2>1. Len(c) = Len(b) + 1 /\ \A i \in 1 .. Len(b) : c[i] = b[i]
    BY <1>2
  <2>2. Len(a) <= Len(b) /\ SubSeq(a, 1, Len(a)) = SubSeq(b, 1, Len(a))
    BY DEF IsPrefix
  <2>3. SubSeq(b, 1, Len(a)) = SubSeq(c, 1, Len(a))
    BY <2>1, <2>2
  <2> QED
    BY <2>1, <2>2, <2>3 DEF IsPrefix
<1> QED
  BY <1>1, <1>2

LEMMA EventsBegin ==
  ASSUME NEW s \in Seq(Bytes), NEW n \in 0 .. Len(s)
  PROVE  IsPrefix(EventsOf(Beginning(s, n)), EventsOf(s))
<1> DEFINE T == {EventAt(u, i) : u \in Seq(Bytes), i \in Nat}
           behind(k) == IsPrefix(EventsOf(Beginning(s, n)), EventsOf(Beginning(s, k)))
           S == {k \in Nat : n <= k /\ k <= Len(s) => behind(k)}
<1>1. \A k \in 0 .. Len(s) :
        Beginning(s, k) \in Seq(Bytes) /\ EventsOf(Beginning(s, k)) \in Seq(T)
  <2> TAKE k \in 0 .. Len(s)
  <2>1. Beginning(s, k) \in Seq(Bytes)
    BY DEF Beginning
  <2> QED
    BY <2>1, EventsType
<1> HIDE DEF T
<1>2. Len(s) \in Nat /\ n \in Nat /\ n <= Len(s)
  OBVIOUS
<1>3. behind(n)
  BY <1>1 DEF IsPrefix
<1>4. 0 \in S
  BY <1>2, <1>3
<1>5. ASSUME NEW k \in Nat, k \in S
      PROVE  k + 1 \in S
  <2> SUFFICES ASSUME n <= k + 1, k + 1 <= Len(s), n # k + 1
               PROVE  behind(k + 1)
    BY <1>3, <1>5
  <2>1. behind(k) /\ k \in 0 .. Len(s) - 1 /\ k \in 0 .. Len(s) /\ k + 1 \in 0 .. Len(s)
    BY <1>2, <1>5
  <2> DEFINE p == Beginning(s, k)
             q == Beginning(s, k + 1)
             b == s[k + 1]
  <2>2. q = Append(p, b) /\ p \in Seq(Bytes) /\ b \in Bytes
    BY <2>1, FrontOneMore
  <2> HIDE DEF p, q, b
  <2>3. \E x : EventsOf(q) = EventsOf(p) \/ EventsOf(q) = Append(EventsOf(p), x)
    <3>1. EventMore(p, b, q)
      BY <2>2, EventsAppend
    <3> QED
      BY <3>1 DEF EventMore
  <2>4. /\ EventsOf(Beginning(s, n)) \in Seq(T) /\ EventsOf(p) \in Seq(T)
        /\ EventsOf(q) \in Seq(T)
    BY <1>1, <2>1 DEF p, q
  <2>5. IsPrefix(EventsOf(Beginning(s, n)), EventsOf(p))
    BY <2>1 DEF p
  <2> QED
    BY <2>3, <2>4, <2>5, PrefixGrows DEF q
<1> HIDE DEF behind
<1>6. \A k \in Nat : k \in S
  BY <1>4, <1>5, SetInduction
<1>7. behind(Len(s))
  BY <1>2, <1>6
<1>8. Beginning(s, Len(s)) = s
  BY DEF Beginning
<1> QED
  BY <1>7, <1>8 DEF behind

\* While the connection lasts, what it has done is at all times what a beginning of
\* the stream asks for, with an idle parser all that has been dealt with.
LEMMA LogIsOfBeginning ==
  ASSUME ConnInv, Cut, Logged, pc # "left", Orderly
  PROVE  /\ \E n \in 0 .. Len(received) : log = EventsOf(Beginning(received, n))
         /\ linePc = "idle" => log = EventsOf(Beginning(received, Dealt))
         /\ received \in Seq(Bytes)
<1> USE DEF Orderly
<1>1. tidy /\ AccountInv /\ ~Contains(data, "nul")
  BY NoNulGiven DEF Cut, ConnInv
<1>2. /\ linePc = "idle" => log = EventsOf(Beginning(received, Dealt))
      /\ linePc = "parse" => \E n \in 0 .. Dealt : log = EventsOf(Beginning(received, n))
  BY <1>1 DEF Logged, LoggedUpTo, Beginning
<1>3. Dealt \in 0 .. Len(received) /\ received \in Seq(Bytes) /\ Len(received) \in Nat
  BY <1>1, DealtIs
<1>4. linePc \in {"idle", "parse"}
  BY DEF ConnInv, LineProofs!ServedInv, LineProofs!IInv, LineProofs!TypeOK
<1>5. \E n \in 0 .. Len(received) : log = EventsOf(Beginning(received, n))
  <2>1. CASE linePc = "idle"
    BY <1>2, <1>3, <2>1
  <2>2. CASE linePc = "parse"
    <3>1. \A n \in 0 .. Dealt : n \in 0 .. Len(received)
      BY <1>3
    <3> QED
      BY <1>2, <2>2, <3>1
  <2> QED
    BY <1>4, <2>1, <2>2
<1> QED
  BY <1>2, <1>3, <1>5

LEMMA InOrderNow ==
  ASSUME ConnInv, Cut, Logged, pc # "left"
  PROVE  ServedInOrder
<1> SUFFICES ASSUME Orderly
             PROVE  /\ IsPrefix(log, EventsOf(received))
                    /\ Stage = "waiting" => log = EventsOf(received)
  BY DEF ServedInOrder
<1>1. /\ \E n \in 0 .. Len(received) : log = EventsOf(Beginning(received, n))
      /\ linePc = "idle" => log = EventsOf(Beginning(received, Dealt))
      /\ received \in Seq(Bytes)
  BY LogIsOfBeginning
<1>2. IsPrefix(log, EventsOf(received))
  BY <1>1, EventsBegin
<1>3. Stage = "waiting" => log = EventsOf(received)
  <2> SUFFICES ASSUME Stage = "waiting"
               PROVE  log = EventsOf(received)
    OBVIOUS
  <2>1. pc = "recv" /\ linePc = "idle"
    BY DEF Stage
  <2>2. Dealt = Len(received) /\ Beginning(received, Len(received)) = received
    BY <1>1, <2>1 DEF Dealt, Beginning
  <2> QED
    BY <1>1, <2>1, <2>2
<1> QED
  BY <1>2, <1>3

\* Whether the peer is orderly depends on what it has sent.
LEMMA OrderlyIs ==
  /\ Orderly <=> whole /\ Closes(received, ends) /\ ~Contains(received, "nul")
  /\ Orderly' <=> whole' /\ Closes(received', ends') /\ ~Contains(received', "nul")
<1>1. StretchesEndLines' <=> Closes(received', ends')
  BY DEF StretchesEndLines, Closes, Closed, LineEndsOf
<1>2. Contains(received, "nul")' <=> Contains(received', "nul")
  BY DEF Contains
<1> QED
  BY <1>1, <1>2, ClosesIs DEF Orderly

\* What holds of it at all times, and so of every step.
OrderInv == ConnInv /\ Cut /\ Logged /\ ServedInOrder

LEMMA AlwaysInOrder ==
  ASSUME \A x \in Strays : x >= MaxReceived
  PROVE  ConnSpec => []OrderInv
<1>1. ConnSpec => []ConnInv
  <2>1. ConnSpec => []AccountInv
    BY OptionsOfConnection, AlwaysAccounted, PTL
  <2>2. LineProofs!Spec => []LineProofs!ServedInv
    BY SameConstants, LineProofs!AlwaysServed
  <2>3. ConnSpec => []LineProofs!ServedInv
    BY LineOfConnection, SameSpec, <2>2, PTL
  <2> QED
    BY RestIsBytes, <2>1, <2>3, PTL DEF ConnInv
<1>2. ConnInit => Cut /\ Logged /\ pc # "left"
  <2> SUFFICES ASSUME ConnInit
               PROVE  Cut /\ Logged /\ pc # "left"
    OBVIOUS
  <2>1. /\ received = <<>> /\ ends = {} /\ log = <<>> /\ linePc = "idle" /\ tidy = TRUE
        /\ pc = "recv"
    BY DEF ConnInit, Init, Line!Init
  <2>2. Cut
    BY <2>1 DEF Cut
  <2>3. Dealt = 0 /\ SubSeq(received, 1, 0) = <<>>
    BY <2>1 DEF Dealt
  <2>4. Logged
    BY <2>1, <2>3, NoEvents DEF Logged
  <2> QED
    BY <2>1, <2>2, <2>4
<1>3. ConnInv /\ Cut /\ Logged /\ pc # "left" => ServedInOrder
  BY InOrderNow
<1>4. ConnInv /\ ConnInv' /\ Cut /\ Logged /\ [ConnNext]_connVars => (Cut /\ Logged)'
  <2> SUFFICES ASSUME ConnInv, ConnInv', Cut, Logged, [ConnNext]_connVars
               PROVE  Cut' /\ Logged'
    OBVIOUS
  <2>1. /\ AccountInv /\ AccountInv' /\ LineProofs!ServedInv /\ LineProofs!ServedInv'
        /\ rest \in Seq(Bytes)
    BY DEF ConnInv
  <2> QED
    BY <2>1, CutKept, LoggedKept
<1>5. Cut /\ ServedInOrder /\ [ConnNext]_connVars /\ ~(pc # "left")' => ServedInOrder'
  <2> SUFFICES ASSUME Cut, ServedInOrder, [ConnNext]_connVars, pc' = "left", whole'
               PROVE  ServedInOrder'
    BY DEF ServedInOrder, Orderly
  <2>1. UNCHANGED <<whole, received, ends, log>> /\ Stage' = "left"
    <3>1. CASE Parser
      <4>1. pc = "left" /\ whole /\ linePc = "parse"
        BY <3>1 DEF Parser, Line!EmptyLine, Line!CommandLine, Line!PopUsed, vars
      <4> QED
        BY <4>1 DEF Cut
    <3>2. CASE ~Parser
      <4>1. ~Segment /\ ~Loop /\ ~Refused
        BY DEF Segment, Loop, Refused, Recv, GiveInFront, PlainByte, EndOfSegment, Refuse
      <4> QED
        BY <3>2, <4>1 DEF ConnNext, Left, Quiet, Leave, connVars, vars, Stage
    <3>3. UNCHANGED <<whole, received, ends, log>>
      BY <3>1, <3>2
    <3> QED
      BY <3>3 DEF Stage
  <2>2. Orderly' <=> Orderly
    BY <2>1, OrderlyIs
  <2> QED
    BY <2>1, <2>2 DEF ServedInOrder
<1> QED
  BY <1>1, <1>2, <1>3, <1>4, <1>5, PTL DEF ConnSpec, OrderInv

\* For every set of streams, alphabet and buffer size: the commands and refusals
\* come about in the order in which the peer sent what asks for them, nothing else
\* does, and all have before the next recv (celnet.c 107-196, telnet.c 94-110,
\* parsing.c 27-71).
THEOREM EverythingInOrder ==
  ASSUME \A x \in Strays : x >= MaxReceived
  PROVE  ConnSpec => []ServedInOrder
<1>1. ConnSpec => []OrderInv
  BY AlwaysInOrder
<1> QED
  BY <1>1, PTL DEF OrderInv

\* A peer that has broken a rule has broken it for good.
LEMMA StaysDisorderly ==
  ASSUME OrderInv, OrderInv', Segment, Orderly'
  PROVE  Orderly
<1>1. PICK n \in Lengths : n <= Len(rest) /\ Recv(SubSeq(rest, 1, n))
  BY DEF Segment
<1> DEFINE t == SubSeq(rest, 1, n)
<1>2. /\ ends' = ends \cup {Len(received')} /\ received' = received \o t
      /\ whole' = (whole /\ ~EndsInCommand(received'))
  BY <1>1 DEF Segment, Recv
<1>3. t \in Seq(Bytes) /\ Len(t) > 0 /\ received \in Seq(Bytes)
  <2>1. n \in 1 .. Len(rest) /\ rest \in Seq(Bytes) /\ received \in Seq(Bytes)
    BY <1>1 DEF Lengths, OrderInv, ConnInv, AccountInv
  <2> QED
    BY <2>1
<1> HIDE DEF t
<1>4. /\ received' \in Seq(Bytes) /\ Len(received') = Len(received) + Len(t)
      /\ Len(received) \in Nat /\ Len(t) \in Nat
      /\ \A i \in 1 .. Len(received) : received'[i] = received[i]
  BY <1>2, <1>3, BytesConcat
<1>5. whole' /\ Closes(received', ends') /\ ~Contains(received', "nul")
  BY OrderlyIs
<1>6. Closes(received, ends)
  <2>1. received # <<>> => Len(received) \in ends
    BY CutIs DEF CutEnds, OrderInv
  <2>2. Len(received') \in Nat /\ Len(received') > Len(received)
    BY <1>3, <1>4
  <2> QED
    BY <1>2, <1>3, <1>5, <2>1, <2>2, ClosedBefore
<1>7. ~Contains(received, "nul")
  BY <1>4, <1>5 DEF Contains
<1> QED
  BY <1>2, <1>5, <1>6, <1>7, OrderlyIs

\* Of two beginnings of a sequence, where the second is the first and one more,
\* that one is the next of the sequence.
LEMMA NextOfAll ==
  ASSUME NEW T, NEW all \in Seq(T), NEW a, NEW x,
         a = SubSeq(all, 1, Len(a)), Len(a) \in Nat, Len(a) <= Len(all),
         IsPrefix(Append(a, x), all)
  PROVE  Len(a) < Len(all) /\ x = all[Len(a) + 1]
<1>1. a \in Seq(T) /\ Len(all) \in Nat
  OBVIOUS
<1>2. Len(Append(a, x)) = Len(a) + 1 /\ Append(a, x)[Len(a) + 1] = x
  BY <1>1
<1>3. Len(a) + 1 <= Len(all)
  BY <1>2 DEF IsPrefix
<1>4. SubSeq(Append(a, x), 1, Len(a) + 1)[Len(a) + 1] = Append(a, x)[Len(a) + 1]
  BY <1>1
<1>5. SubSeq(all, 1, Len(a) + 1)[Len(a) + 1] = all[Len(a) + 1]
  BY <1>1, <1>3
<1> QED
  BY <1>1, <1>2, <1>3, <1>4, <1>5 DEF IsPrefix

\* What is asked for grows with the stream.
LEMMA AskedGrows ==
  ASSUME OrderInv, Segment
  PROVE  IsPrefix(EventsOf(received), EventsOf(received'))
<1>1. PICK n \in Lengths : n <= Len(rest) /\ Recv(SubSeq(rest, 1, n))
  BY DEF Segment
<1> DEFINE t == SubSeq(rest, 1, n)
<1>2. received' = received \o t
  BY <1>1 DEF Recv
<1>3. t \in Seq(Bytes) /\ received \in Seq(Bytes)
  <2>1. n \in 1 .. Len(rest) /\ rest \in Seq(Bytes) /\ received \in Seq(Bytes)
    BY <1>1 DEF Lengths, OrderInv, ConnInv, AccountInv
  <2> QED
    BY <2>1
<1> HIDE DEF t
<1>4. /\ received' \in Seq(Bytes) /\ Len(received) \in 0 .. Len(received')
      /\ Beginning(received', Len(received)) = received
  <2>1. /\ received' \in Seq(Bytes) /\ Len(received') = Len(received) + Len(t)
        /\ Len(received) \in Nat /\ Len(t) \in Nat
        /\ \A i \in 1 .. Len(received) : received'[i] = received[i]
    BY <1>2, <1>3, BytesConcat
  <2>2. Beginning(received', Len(received)) = received
    <3> DEFINE u == received'
    <3> HIDE DEF u
    <3>1. u \in Seq(Bytes) /\ Len(received) \in 0 .. Len(u)
          /\ \A i \in 1 .. Len(received) : u[i] = received[i]
      BY <2>1 DEF u
    <3>2. Beginning(u, Len(received)) = received
      BY <1>3, <3>1 DEF Beginning
    <3> QED
      BY <3>2 DEF u
  <2> QED
    BY <2>1, <2>2
<1> QED
  BY <1>4, EventsBegin

\* Only what is received can end in a command that is cut off.
LEMMA WholeKept ==
  ASSUME [ConnNext]_connVars, ~Segment
  PROVE  whole' = whole
<1>1. CASE Loop \/ Refused
  BY <1>1 DEF Loop, GiveInFront, PlainByte, EndOfSegment, Refused, Refuse
<1>2. CASE Left \/ Quiet \/ UNCHANGED connVars
  BY <1>2 DEF Left, Leave, Quiet, connVars, vars
<1>3. CASE Parser
  BY <1>3 DEF Parser, Line!EmptyLine, Line!CommandLine, Line!PopUsed, vars
<1> QED
  BY <1>1, <1>2, <1>3 DEF ConnNext

\* The log grows by one at most in a step that leaves the stream alone.
LEMMA LogStep ==
  ASSUME Cut, whole, [ConnNext]_connVars, ~Segment
  PROVE  /\ UNCHANGED <<received, ends, whole>>
         /\ \/ UNCHANGED log
            \/ Stage = "serving" /\ Stage' = "serving" /\ \E x : log' = Append(log, x)
<1>1. CASE Loop
  BY <1>1 DEF Loop, GiveInFront, PlainByte, EndOfSegment
<1>2. CASE Refused
  BY <1>2 DEF Refused, Refuse, Stage
<1>3. CASE Left \/ Quiet \/ UNCHANGED connVars
  BY <1>3 DEF Left, Leave, Quiet, connVars, vars
<1>4. CASE Parser
  <2>1. linePc = "parse" /\ UNCHANGED <<pc, received, ends, whole>> /\ pc # "left"
    <3>1. linePc = "parse" /\ UNCHANGED <<pc, received, ends, whole>>
      BY <1>4 DEF Parser, Line!EmptyLine, Line!CommandLine, Line!PopUsed, vars
    <3> QED
      BY <3>1 DEF Cut
  <2>2. CASE calls' = calls
    BY <1>4, <2>1, <2>2 DEF Parser
  <2>3. CASE calls' # calls
    <3>1. log' = Append(log, Line!Told(Last(calls')))
      BY <1>4, <2>3 DEF Parser
    <3>2. linePc' = "parse"
      BY <1>4, <2>1, <2>3 DEF Parser, Line!EmptyLine, Line!CommandLine, Line!PopUsed
    <3> QED
      BY <2>1, <3>1, <3>2 DEF Stage
  <2> QED
    BY <2>2, <2>3
<1> QED
  BY <1>1, <1>2, <1>3, <1>4 DEF ConnNext

\* And it goes from serving to waiting, or leaves, but does not come back.
LEMMA StageStep ==
  ASSUME Cut, whole, [ConnNext]_connVars, ~Segment
  PROVE  \/ Stage' = Stage
         \/ Stage = "serving" /\ Stage' = "waiting"
         \/ Stage # "left" /\ Stage' = "left"
<1>1. CASE Loop
  <2>1. pc = "scan" /\ pc' # "left"
    BY <1>1 DEF Loop, GiveInFront, PlainByte, EndOfSegment
  <2> QED
    BY <2>1 DEF Stage
<1>2. CASE Refused
  BY <1>2 DEF Refused, Refuse, Stage
<1>3. CASE Left
  BY <1>3 DEF Left, Leave, Stage
<1>4. CASE Quiet \/ UNCHANGED connVars
  BY <1>4 DEF Quiet, connVars, vars, lineVars, Stage
<1>5. CASE Parser
  <2>1. linePc = "parse" /\ pc' = pc /\ pc # "left"
    <3>1. linePc = "parse" /\ pc' = pc
      BY <1>5 DEF Parser, Line!EmptyLine, Line!CommandLine, Line!PopUsed, vars
    <3> QED
      BY <3>1 DEF Cut
  <2> QED
    BY <2>1 DEF Stage
<1> QED
  BY <1>1, <1>2, <1>3, <1>4, <1>5 DEF ConnNext

\* For every set of streams, alphabet and buffer size: a connection is a line server,
\* whose peer asks and is served the next thing it asked for until all is done, or
\* whose peer has broken a rule (celnet.c 107-196, telnet.c 94-110, parsing.c 27-71).
THEOREM PromiseKept ==
  ASSUME \A x \in Strays : x >= MaxReceived
  PROVE  ConnSpec => KeepsPromise
<1>1. ConnInit => Promise!Init
  <2> SUFFICES ASSUME ConnInit
               PROVE  Promise!Init
    OBVIOUS
  <2>1. /\ received = <<>> /\ log = <<>> /\ linePc = "idle" /\ pc = "recv" /\ whole
    BY DEF ConnInit, Init, Line!Init
  <2>2. EventsOf(received) = <<>> /\ Stage = "waiting"
    BY <2>1, NoEvents DEF Stage
  <2>3. Orderly
    BY <2>1, ClosesIs, OrderlyIs DEF Contains, Closes, LineEndsOf
  <2> QED
    BY <2>1, <2>2, <2>3, Zenon DEF Promise!Init
<1>2. OrderInv /\ OrderInv' /\ [ConnNext]_connVars => [Promise!Next]_Promise!vars
  <2> SUFFICES ASSUME OrderInv, OrderInv', [ConnNext]_connVars, Orderly'
               PROVE  [Promise!Next]_Promise!vars
    BY DEF Promise!Next
  <2> DEFINE asked == EventsOf(received)
  <2>1. CASE Segment
    <3>1. Orderly
      BY <2>1, StaysDisorderly
    <3>2. Stage = "waiting" /\ Stage' = "serving" /\ log' = log
      BY <2>1 DEF Segment, Recv, Stage
    <3>3. IsPrefix(asked, asked')
      BY <2>1, AskedGrows
    <3>4. Promise!Ask
      BY <3>1, <3>2, <3>3 DEF Promise!Ask, Promise!IsPrefix, IsPrefix
    <3> QED
      BY <3>1, <3>4 DEF Promise!Next
  <2>2. CASE ~Segment
    <3> Cut /\ whole
      BY <2>2, WholeKept, OrderlyIs DEF OrderInv
    <3>1. /\ UNCHANGED <<received, ends, whole>>
          /\ \/ UNCHANGED log
             \/ Stage = "serving" /\ Stage' = "serving" /\ \E x : log' = Append(log, x)
      BY <2>2, LogStep
    <3>2. Orderly /\ asked' = asked
      BY <3>1, OrderlyIs
    <3>3. ServedInOrder /\ ServedInOrder'
      BY DEF OrderInv
    <3>4. CASE UNCHANGED log
      <4>1. \/ Stage' = Stage
            \/ Stage = "serving" /\ Stage' = "waiting"
            \/ Stage # "left" /\ Stage' = "left"
        BY <2>2, StageStep
      <4>2. Stage' = "waiting" => log = asked
        BY <3>2, <3>3, <3>4 DEF ServedInOrder
      <4> QED
        BY <3>2, <3>4, <4>1, <4>2 DEF Promise!Next, Promise!Wait, Promise!Leave, Promise!vars
    <3>5. ASSUME Stage = "serving", Stage' = "serving", NEW x, log' = Append(log, x)
          PROVE  Promise!Serve
      <4>1. IsPrefix(log, asked) /\ IsPrefix(log', asked)
        BY <3>2, <3>3 DEF ServedInOrder
      <4>2. PICK T : asked \in Seq(T) /\ log \in Seq(T)
        <5>1. /\ received \in Seq(Bytes)
              /\ \E n \in 0 .. Len(received) : log = EventsOf(Beginning(received, n))
          <6>1. pc # "left"
            BY <3>5 DEF Stage
          <6> QED
            BY <3>2, <6>1, LogIsOfBeginning DEF OrderInv
        <5>2. \A n \in 0 .. Len(received) : Beginning(received, n) \in Seq(Bytes)
          BY <5>1 DEF Beginning
        <5> DEFINE T == {EventAt(u, i) : u \in Seq(Bytes), i \in Nat}
        <5>3. asked \in Seq(T)
          BY <5>1, EventsType
        <5>4. log \in Seq(T)
          BY <5>1, <5>2, EventsType
        <5> HIDE DEF T, asked
        <5> QED
          BY <5>3, <5>4
      <4>3. log = SubSeq(asked, 1, Len(log)) /\ Len(log) \in Nat /\ Len(log) <= Len(asked)
        <5> HIDE DEF asked
        <5> QED
          BY <4>1, <4>2 DEF IsPrefix
      <4>4. Len(log) < Len(asked) /\ x = asked[Len(log) + 1]
        BY <3>5, <4>1, <4>2, <4>3, NextOfAll
      <4> QED
        BY <3>2, <3>5, <4>4 DEF Promise!Serve
    <3> QED
      BY <3>1, <3>2, <3>4, <3>5 DEF Promise!Next
  <2> QED
    BY <2>1, <2>2
<1> QED
  BY <1>1, <1>2, AlwaysInOrder, PTL DEF ConnSpec, KeepsPromise, Promise!Spec

-----------------------------------------------------------------------------
(* Work that runs out.                                                       *)

LEMMA SameText == Line!Text = LineProofs!Text
  BY SameSearch DEF Line!Text, LineProofs!Text, Line!UpTo, LineProofs!UpTo

\* What is left to do is counted in natural numbers.
Counted ==
  /\ Turns \in Nat /\ Unparsed \in Nat /\ (linePc = "parse" => Unparsed # 0)
  /\ rbuff \in Nat /\ ri \in Nat /\ ri <= rbuff + 2

LEMMA CountedNow == IInv /\ LineProofs!IInv => Counted
<1> SUFFICES ASSUME IInv, LineProofs!IInv
             PROVE  Counted
  OBVIOUS
<1>1. rbuff \in Nat /\ ri \in 0 .. rbuff + 2
  BY BufferAssumption DEF IInv, TypeOK
<1>2. LineProofs!Text \in Seq(Bytes) /\ Line!Text = LineProofs!Text
  BY SameText, LineProofs!TextInside DEF LineProofs!IInv, LineProofs!TypeOK
<1>3. linePc = "parse" => offset \in 0 .. Len(Line!Text)
  BY <1>2 DEF LineProofs!IInv, LineProofs!TypeOK, LineProofs!BufferFits
<1>4. Turns \in Nat
  BY <1>1 DEF Turns
<1>5. Unparsed \in Nat /\ (linePc = "parse" => Unparsed # 0)
  BY <1>2, <1>3 DEF Unparsed
<1> QED
  BY <1>1, <1>4, <1>5 DEF Counted

LEMMA CountedAfter == IInv' /\ LineProofs!IInv' => Counted'
  BY CountedNow, PTL

\* A turn of the loop.
LEMMA LoopWorks ==
  ASSUME IInv, IInv', LineProofs!IInv, LineProofs!IInv', Loop \/ Refused
  PROVE  Below(ToDo', ToDo)
<1>1. /\ Turns \in Nat /\ Unparsed \in Nat /\ Turns' \in Nat /\ Unparsed' \in Nat
      /\ rbuff \in Nat /\ ri \in Nat /\ ri <= rbuff + 2
      /\ rbuff' \in Nat /\ ri' \in Nat /\ ri' <= rbuff' + 2
  BY CountedNow, CountedAfter DEF Counted
<1>2. /\ rbuff' = rbuff
      /\ \/ pc = "scan" /\ pc' = "scan" /\ ri' = ri + 1
         \/ pc = "scan" /\ pc' = "refuse" /\ ri' = ri
         \/ pc = "scan" /\ pc' = "recv"
         \/ pc = "refuse" /\ pc' = "scan" /\ ri' = ri + 3
  BY DEF Loop, Refused, GiveInFront, PlainByte, EndOfSegment, Refuse
<1>3. Turns' < Turns
  BY <1>1, <1>2 DEF Turns
<1>4. Below(<<Turns', Unparsed'>>, <<Turns, Unparsed>>)
  BY <1>1, <1>3, BelowTwo
<1> QED
  BY <1>4 DEF ToDo

\* An iteration of the parser, or its end.
LEMMA ParserWorks ==
  ASSUME IInv, IInv', LineProofs!IInv, LineProofs!IInv', Parser
  PROVE  Below(ToDo', ToDo)
<1>1. linePc = "parse" /\ UNCHANGED <<pc, rbuff, ri>>
  BY DEF Parser, Line!EmptyLine, Line!CommandLine, Line!PopUsed, vars
<1>2. Turns' = Turns
  BY <1>1 DEF Turns
<1>3. /\ Turns \in Nat /\ Unparsed \in Nat \ {0} /\ Unparsed' \in Nat
  BY <1>1, CountedNow, CountedAfter DEF Counted
<1>4. Unparsed' < Unparsed
  <2>1. CASE Line!EmptyLine \/ Line!CommandLine
    <3>1. /\ offset \in Nat /\ LineProofs!Text \in Seq(Bytes) /\ Line!Text = LineProofs!Text
          /\ Line!LineLen = LineProofs!LineLen /\ (Line!HasLine <=> LineProofs!HasLine)
      BY SameText, SameScan, LineProofs!TextInside DEF LineProofs!IInv, LineProofs!TypeOK
    <3>2. /\ Line!HasLine /\ linePc' = "parse" /\ lineBuffer' = lineBuffer
          /\ offset' = offset + Line!LineLen + 1
      <4>1. CASE Line!EmptyLine
        <5>1. Line!LineLen = 0 /\ offset' = offset + 1
          BY <4>1 DEF Line!EmptyLine
        <5> QED
          BY <3>1, <4>1, <5>1 DEF Line!EmptyLine
      <4>2. CASE Line!CommandLine
        BY <4>2 DEF Line!CommandLine
      <4> QED
        BY <2>1, <4>1, <4>2
    <3>3. Line!Text' = Line!Text
      BY <3>2 DEF Line!Text
    <3>4. Line!LineLen \in Nat
      BY <1>1, <3>1, <3>2, LineProofs!LineInside DEF LineProofs!IInv, LineProofs!BufferFits
    <3> QED
      BY <1>1, <3>1, <3>2, <3>3, <3>4 DEF Unparsed
  <2>2. CASE Line!PopUsed
    BY <1>3, <2>2 DEF Line!PopUsed, Unparsed
  <2> QED
    BY <2>1, <2>2 DEF Parser
<1>5. Below(<<Turns', Unparsed'>>, <<Turns, Unparsed>>)
  BY <1>2, <1>3, <1>4, BelowTwo
<1> QED
  BY <1>5 DEF ToDo

\* For every set of streams, alphabet, command table and buffer size: the loop and the
\* parser cannot go round for ever, whatever is in a segment, in the buffer behind it
\* or in the record (celnet.c 109-186, parsing.c 29-70).
THEOREM SegmentsRunOut == ConnSpec => SegmentRunsOut
<1>1. ConnSpec => []IInv
  BY OptionsOfConnection, AlwaysIInv, PTL
<1>2. ConnSpec => []LineProofs!IInv
  <2>1. LineProofs!Spec => []LineProofs!IInv
    BY SameConstants, LineProofs!AlwaysIInv
  <2> QED
    BY LineOfConnection, SameSpec, <2>1, PTL
<1>3. IInv /\ IInv' /\ LineProofs!IInv /\ LineProofs!IInv' /\ [ConnNext]_connVars =>
        [\/ Work /\ Below(ToDo', ToDo)
         \/ pc = "recv" /\ linePc = "idle"
         \/ pc' = "left"]_connVars
  <2> SUFFICES ASSUME IInv, IInv', LineProofs!IInv, LineProofs!IInv', ConnNext,
                      ~UNCHANGED connVars
               PROVE  \/ Work /\ Below(ToDo', ToDo)
                      \/ pc = "recv" /\ linePc = "idle"
                      \/ pc' = "left"
    OBVIOUS
  <2>1. CASE Segment \/ Left
    BY <2>1 DEF Segment, Recv, Left, Leave
  <2>2. CASE Loop \/ Refused
    BY <2>2, LoopWorks DEF Work
  <2>3. CASE Parser
    BY <2>3, ParserWorks DEF Work
  <2>4. ~Quiet
    BY DEF Quiet
  <2> QED
    BY <2>1, <2>2, <2>3, <2>4 DEF ConnNext
<1> QED
  BY <1>1, <1>2, <1>3, PTL DEF ConnSpec, SegmentRunsOut
=============================================================================

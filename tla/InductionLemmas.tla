-------------------------- MODULE InductionLemmas --------------------------
(***************************************************************************)
(* Induction over numbers and sequences, in the form of sets: the library's*)
(* theorems take an operator for a parameter, which the provers cannot     *)
(* instantiate, but a set that is closed under the next step will do, and a*)
(* least element of what it lacks.  With it, what recursive functions and  *)
(* the operators built on them (Picked, FlattenSeq) give.                  *)
(***************************************************************************)
EXTENDS Integers, SequencesExt, Subsequence, Progress, FiniteSetTheorems,
        WellFoundedInduction, TLAPS

\* A set of numbers that is not empty has a least one (FiniteSetsExt's Min):
\* the one whose interval from 1 is minimal among the intervals of the others.
LEMMA MinIsLeast ==
  ASSUME NEW I \in SUBSET Nat, I # {}
  PROVE  Min(I) \in I /\ \A x \in I : Min(I) <= x
<1> DEFINE R == StrictSubsetOrdering(Nat)
           U == {1 .. x : x \in I}
<1>1. U \subseteq FiniteSubsetsOf(Nat)
  <2>1. \A x \in I : 1 .. x \in SUBSET Nat
    OBVIOUS
  <2>2. \A x \in I : IsFiniteSet(1 .. x)
    BY FS_Interval
  <2> QED
    BY <2>1, <2>2 DEF FiniteSubsetsOf
<1>2. U # {}
  OBVIOUS
<1>3. PICK u \in U : \A v \in U : ~(<<v, u>> \in R)
  <2>1. IsWellFoundedOn(R, FiniteSubsetsOf(Nat))
    BY FS_StrictSubsetOrderingWellFounded
  <2> HIDE DEF R, U
  <2> QED
    BY <1>1, <1>2, <2>1, WFMin
<1>4. PICK m \in I : u = 1 .. m
  BY <1>3
<1>5. ASSUME NEW y \in I
      PROVE  m <= y
  <2> SUFFICES ASSUME y < m
               PROVE  FALSE
    BY <1>5, <1>4
  <2>1. 1 .. y \in U /\ 1 .. y \in SUBSET Nat /\ 1 .. m \in SUBSET Nat
    BY <1>4, <1>5
  <2>2. 1 .. y \subseteq 1 .. m
    BY <1>4, <1>5
  <2>3. m \in 1 .. m /\ m \notin 1 .. y
    BY <1>4, <1>5
  <2>4. 1 .. y # 1 .. m
    BY <2>3
  <2>5. <<1 .. y, u>> \in R
    BY <1>4, <2>1, <2>2, <2>4 DEF StrictSubsetOrdering
  <2> QED
    BY <1>3, <2>1, <2>5
<1> QED
  BY <1>4, <1>5 DEF Min

\* A set of numbers with 0 that has with each number the next one has all.
LEMMA SetInduction ==
  ASSUME NEW S, 0 \in S, \A n \in Nat : n \in S => n + 1 \in S
  PROVE  \A n \in Nat : n \in S
<1> DEFINE I == {n \in Nat : n \notin S}
<1> SUFFICES ASSUME I # {}
             PROVE  FALSE
  OBVIOUS
<1>1. Min(I) \in I /\ \A x \in I : Min(I) <= x
  BY MinIsLeast
<1>2. PICK m \in Nat : m \notin S /\ \A x \in I : m <= x
  BY <1>1
<1>3. m - 1 \in Nat /\ m - 1 \notin I
  BY <1>2
<1> QED
  BY <1>2, <1>3

\* A function that says how to go on from each number gives the sequence of
\* states that go on so.
Steps(n, A) == [1 .. n -> [A -> A]]
GoesOn(f, n, A, a, step) ==
  /\ f \in [0 .. n -> A] /\ f[0] = a
  /\ \A i \in 1 .. n : f[i] = step[i][f[i - 1]]

LEMMA Recursion ==
  ASSUME NEW n \in Nat, NEW A, NEW a \in A, NEW step \in Steps(n, A)
  PROVE  \E f : GoesOn(f, n, A, a, step)
<1> USE DEF Steps, GoesOn
<1> DEFINE Up(m) == \E f \in [0 .. m -> A] :
                      f[0] = a /\ \A i \in 1 .. m : f[i] = step[i][f[i - 1]]
           S == {m \in Nat : m <= n => Up(m)}
<1>1. 0 \in S
  <2> DEFINE f == [i \in 0 .. 0 |-> a]
  <2>1. f \in [0 .. 0 -> A] /\ f[0] = a
    OBVIOUS
  <2>2. \A i \in 1 .. 0 : f[i] = step[i][f[i - 1]]
    OBVIOUS
  <2> HIDE DEF f
  <2>3. Up(0)
    BY <2>1, <2>2
  <2> QED
    BY <2>3
<1>2. ASSUME NEW m \in Nat, m \in S
      PROVE  m + 1 \in S
  <2> SUFFICES ASSUME m + 1 <= n
               PROVE  Up(m + 1)
    OBVIOUS
  <2>1. PICK f \in [0 .. m -> A] :
          f[0] = a /\ \A i \in 1 .. m : f[i] = step[i][f[i - 1]]
    BY <1>2
  <2> DEFINE g == [i \in 0 .. m + 1 |-> IF i <= m THEN f[i] ELSE step[m + 1][f[m]]]
  <2>2. step[m + 1][f[m]] \in A
    BY <2>1
  <2>3. g \in [0 .. m + 1 -> A]
    BY <2>1, <2>2
  <2>4. g[0] = a /\ \A i \in 0 .. m : g[i] = f[i]
    BY <2>1
  <2>5. g[m + 1] = step[m + 1][f[m]]
    OBVIOUS
  <2>6. ASSUME NEW i \in 1 .. m + 1
        PROVE  g[i] = step[i][g[i - 1]]
    <3>1. CASE i = m + 1
      <4>1. i - 1 = m /\ m \in 0 .. m
        BY <3>1
      <4>2. g[m] = f[m]
        BY <2>4, <4>1
      <4> HIDE DEF g
      <4> QED
        BY <2>5, <3>1, <4>1, <4>2
    <3>2. CASE i # m + 1
      <4>1. i \in 1 .. m /\ i - 1 \in 0 .. m /\ i \in 0 .. m
        BY <3>2
      <4> QED
        BY <2>1, <2>4, <4>1
    <3> QED
      BY <3>1, <3>2
  <2> QED
    BY <2>3, <2>4, <2>6
<1>3. \A m \in Nat : m \in S
  <2> HIDE DEF S
  <2> QED
    BY <1>1, <1>2, SetInduction
<1> QED
  BY <1>3

\* What begins the same and goes on the same is the same.
Alike(f, g, n) == \A i \in 0 .. n : f[i] = g[i]
StepAlike(f, g, n) == \A i \in 1 .. n : f[i - 1] = g[i - 1] => f[i] = g[i]

LEMMA SameSteps ==
  ASSUME NEW n \in Nat, NEW f, NEW g, f[0] = g[0], StepAlike(f, g, n)
  PROVE  Alike(f, g, n)
<1> DEFINE S == {m \in Nat : m <= n => f[m] = g[m]}
<1>1. 0 \in S
  OBVIOUS
<1>2. ASSUME NEW m \in Nat, m \in S
      PROVE  m + 1 \in S
  <2>1. m + 1 <= n => m + 1 \in 1 .. n /\ (m + 1) - 1 = m
    OBVIOUS
  <2> QED
    BY <1>2, <2>1 DEF StepAlike
<1>3. \A m \in Nat : m \in S
  <2> HIDE DEF S
  <2> QED
    BY <1>1, <1>2, SetInduction
<1> QED
  BY <1>3 DEF Alike

-----------------------------------------------------------------------------
(* Parts of a sequence                                                       *)

LEMMA AppendBehind ==
  ASSUME NEW T, NEW s \in Seq(T), NEW t \in Seq(T), NEW x \in T
  PROVE  s \o Append(t, x) = Append(s \o t, x)
  OBVIOUS

IsPicking(f, s, P, T) ==
  /\ f \in [0 .. Len(s) -> Seq(T)] /\ f[0] = <<>>
  /\ \A i \in 1 .. Len(s) : f[i] = IF i \in P THEN Append(f[i - 1], s[i]) ELSE f[i - 1]

LEMMA PickedSteps ==
  ASSUME NEW T, NEW s \in Seq(T), NEW P
  PROVE  \E f : IsPicking(f, s, P, T) /\ Picked(s, P) = f[Len(s)]
<1> DEFINE Body(f) == [i \in 0 .. Len(s) |->
                         IF i = 0 THEN <<>>
                         ELSE IF i \in P THEN Append(f[i - 1], s[i]) ELSE f[i - 1]]
           step == [i \in 1 .. Len(s) |-> [x \in Seq(T) |->
                      IF i \in P THEN Append(x, s[i]) ELSE x]]
<1>1. Len(s) \in Nat /\ <<>> \in Seq(T)
  OBVIOUS
<1>2. step \in [1 .. Len(s) -> [Seq(T) -> Seq(T)]]
  OBVIOUS
<1>3. \A i \in 1 .. Len(s), x \in Seq(T) :
        step[i][x] = IF i \in P THEN Append(x, s[i]) ELSE x
  OBVIOUS
<1> HIDE DEF step
<1>4. PICK f \in [0 .. Len(s) -> Seq(T)] :
        f[0] = <<>> /\ \A i \in 1 .. Len(s) : f[i] = step[i][f[i - 1]]
  <2>1. step \in Steps(Len(s), Seq(T))
    BY <1>2 DEF Steps
  <2>2. \E f : GoesOn(f, Len(s), Seq(T), <<>>, step)
    BY <1>1, <2>1, Recursion
  <2> QED
    BY <2>2 DEF GoesOn
<1>5. \A i \in 1 .. Len(s) : f[i] = IF i \in P THEN Append(f[i - 1], s[i]) ELSE f[i - 1]
  <2> TAKE i \in 1 .. Len(s)
  <2>1. i - 1 \in 0 .. Len(s)
    BY <1>1
  <2>2. f[i - 1] \in Seq(T)
    BY <2>1
  <2> QED
    BY <1>3, <1>4, <2>2
<1> DEFINE picked == CHOOSE g : g = Body(g)
<1>6. f = Body(f)
  <2>1. \A i \in 0 .. Len(s) : i # 0 => i \in 1 .. Len(s)
    BY <1>1
  <2>2. \A i \in 0 .. Len(s) :
          f[i] = IF i = 0 THEN <<>>
                 ELSE IF i \in P THEN Append(f[i - 1], s[i]) ELSE f[i - 1]
    BY <1>4, <1>5, <2>1, Zenon
  <2> QED
    BY <2>2
<1>7. picked = Body(picked)
  <2> HIDE DEF Body
  <2> QED
    BY <1>6
<1>8. Picked(s, P) = picked[Len(s)]
  BY DEF Picked
<1>9. /\ picked[0] = <<>>
      /\ \A i \in 1 .. Len(s) :
           picked[i] = IF i \in P THEN Append(picked[i - 1], s[i]) ELSE picked[i - 1]
  <2> HIDE DEF picked
  <2>1. \A i \in 0 .. Len(s) : picked[i] = Body(picked)[i]
    BY <1>7
  <2> QED
    BY <1>1, <2>1
<1>10. \A i \in 0 .. Len(s) : f[i] = picked[i]
  <2> HIDE DEF picked
  <2>1. f[0] = picked[0]
    BY <1>4, <1>9
  <2>2. StepAlike(f, picked, Len(s))
    BY <1>5, <1>9 DEF StepAlike
  <2> QED
    BY <1>1, <2>1, <2>2, SameSteps DEF Alike
<1>11. Picked(s, P) = f[Len(s)]
  <2> HIDE DEF picked
  <2> QED
    BY <1>1, <1>8, <1>10
<1> HIDE DEF picked, Body
<1> QED
  BY <1>4, <1>5, <1>11 DEF IsPicking

\* A part of a sequence of T is one.
LEMMA PickedType ==
  ASSUME NEW T, NEW s \in Seq(T), NEW P
  PROVE  Picked(s, P) \in Seq(T)
<1>1. PICK f : IsPicking(f, s, P, T) /\ Picked(s, P) = f[Len(s)]
  BY PickedSteps
<1>2. Len(s) \in 0 .. Len(s)
  OBVIOUS
<1> QED
  BY <1>1, <1>2 DEF IsPicking

\* Only the positions inside the sequence count.
LEMMA PickedSame ==
  ASSUME NEW T, NEW s \in Seq(T), NEW P, NEW Q,
         \A i \in 1 .. Len(s) : i \in P <=> i \in Q
  PROVE  Picked(s, P) = Picked(s, Q)
<1>1. PICK f : IsPicking(f, s, P, T) /\ Picked(s, P) = f[Len(s)]
  BY PickedSteps
<1>2. PICK g : IsPicking(g, s, Q, T) /\ Picked(s, Q) = g[Len(s)]
  BY PickedSteps
<1>3. f[0] = g[0] /\ StepAlike(f, g, Len(s))
  BY <1>1, <1>2 DEF IsPicking, StepAlike
<1>4. Len(s) \in Nat /\ Len(s) \in 0 .. Len(s)
  OBVIOUS
<1>5. Alike(f, g, Len(s))
  BY <1>3, <1>4, SameSteps
<1> QED
  BY <1>1, <1>2, <1>4, <1>5 DEF Alike

\* Of nothing there are no parts.
LEMMA PickedNone ==
  ASSUME NEW P
  PROVE  Picked(<<>>, P) = <<>>
<1>1. <<>> \in Seq({}) /\ Len(<<>>) = 0
  OBVIOUS
<1>2. PICK f : IsPicking(f, <<>>, P, {}) /\ Picked(<<>>, P) = f[Len(<<>>)]
  BY <1>1, PickedSteps
<1> QED
  BY <1>1, <1>2 DEF IsPicking

\* One more element.
LEMMA PickedAppend ==
  ASSUME NEW T, NEW s \in Seq(T), NEW x \in T, NEW P
  PROVE  Picked(Append(s, x), P) =
           IF Len(s) + 1 \in P THEN Append(Picked(s, P), x) ELSE Picked(s, P)
<1> DEFINE t == Append(s, x)
           n == Len(s)
<1>1. /\ t \in Seq(T) /\ Len(t) = n + 1 /\ n \in Nat
      /\ t[n + 1] = x /\ \A i \in 1 .. n : t[i] = s[i]
  OBVIOUS
<1> HIDE DEF t
<1>2. PICK f : IsPicking(f, s, P, T) /\ Picked(s, P) = f[n]
  BY PickedSteps
<1>3. PICK g : IsPicking(g, t, P, T) /\ Picked(t, P) = g[n + 1]
  BY <1>1, PickedSteps
<1>4. f[0] = g[0]
  BY <1>2, <1>3 DEF IsPicking
<1>5. ASSUME NEW i \in 1 .. n, f[i - 1] = g[i - 1]
      PROVE  f[i] = g[i]
  <2>1. i \in 1 .. Len(t) /\ t[i] = s[i]
    BY <1>1
  <2> QED
    BY <1>2, <1>3, <1>5, <2>1 DEF IsPicking
<1>6. Alike(f, g, n)
  <2>1. StepAlike(f, g, n)
    BY <1>5 DEF StepAlike
  <2> QED
    BY <1>1, <1>4, <2>1, SameSteps
<1>7. f[n] = g[n]
  BY <1>1, <1>6 DEF Alike
<1>8. g[n + 1] = IF n + 1 \in P THEN Append(g[n], x) ELSE g[n]
  <2>1. n + 1 \in 1 .. Len(t) /\ (n + 1) - 1 = n
    BY <1>1
  <2> QED
    BY <1>1, <1>3, <2>1 DEF IsPicking
<1> QED
  BY <1>2, <1>3, <1>7, <1>8 DEF t

\* A set of sequences with the empty one that has with each sequence the longer
\* ones by one element has all.
LEMMA SeqInduction ==
  ASSUME NEW T, NEW S, <<>> \in S,
         \A s \in Seq(T), x \in T : s \in S => Append(s, x) \in S
  PROVE  \A s \in Seq(T) : s \in S
<1> DEFINE N == {n \in Nat : \A s \in Seq(T) : Len(s) = n => s \in S}
<1>1. 0 \in N
  <2>1. \A s \in Seq(T) : Len(s) = 0 => s = <<>>
    OBVIOUS
  <2> QED
    BY <2>1
<1>2. ASSUME NEW n \in Nat, n \in N
      PROVE  n + 1 \in N
  <2> SUFFICES ASSUME NEW s \in Seq(T), Len(s) = n + 1
               PROVE  s \in S
    OBVIOUS
  <2> DEFINE t == SubSeq(s, 1, n)
  <2>1. t \in Seq(T) /\ Len(t) = n /\ s[n + 1] \in T
    OBVIOUS
  <2>2. s = Append(t, s[n + 1])
    OBVIOUS
  <2>3. t \in S
    BY <1>2, <2>1
  <2> HIDE DEF t
  <2> QED
    BY <2>1, <2>2, <2>3
<1>3. \A n \in Nat : n \in N
  <2> HIDE DEF N
  <2> QED
    BY <1>1, <1>2, SetInduction
<1> QED
  <2> TAKE s \in Seq(T)
  <2>1. Len(s) \in Nat
    OBVIOUS
  <2> QED
    BY <1>3, <2>1

\* Behind the part of s comes that of t.
Shifted(P, n) == {i \in Nat : n + i \in P}

LEMMA PickedConcat ==
  ASSUME NEW T, NEW s \in Seq(T), NEW P
  PROVE  \A t \in Seq(T) :
           Picked(s \o t, P) = Picked(s, P) \o Picked(t, Shifted(P, Len(s)))
<1> DEFINE Q == Shifted(P, Len(s))
           S == {t \in Seq(T) : Picked(s \o t, P) = Picked(s, P) \o Picked(t, Q)}
<1>1. <<>> \in S
  <2>1. <<>> \in Seq(T) /\ s \o <<>> = s
    OBVIOUS
  <2>2. Picked(s, P) \in Seq(T) /\ Picked(<<>>, Q) = <<>>
    BY PickedType, PickedNone
  <2>3. Picked(s, P) \o <<>> = Picked(s, P)
    BY <2>2
  <2> QED
    BY <2>1, <2>2, <2>3
<1>2. ASSUME NEW t \in Seq(T), NEW x \in T, t \in S
      PROVE  Append(t, x) \in S
  <2> HIDE DEF Q
  <2>1. /\ s \o t \in Seq(T) /\ Len(s \o t) = Len(s) + Len(t)
        /\ Len(s) \in Nat /\ Len(t) \in Nat /\ Append(t, x) \in Seq(T)
    OBVIOUS
  <2>2. s \o Append(t, x) = Append(s \o t, x)
    BY AppendBehind
  <2>3. Picked(Append(s \o t, x), P) =
          IF Len(s \o t) + 1 \in P THEN Append(Picked(s \o t, P), x) ELSE Picked(s \o t, P)
    <3>1. ASSUME NEW u \in Seq(T)
          PROVE  Picked(Append(u, x), P) =
                   IF Len(u) + 1 \in P THEN Append(Picked(u, P), x) ELSE Picked(u, P)
      BY PickedAppend
    <3>2. s \o t \in Seq(T)
      BY <2>1
    <3> QED
      BY <3>1, <3>2, Zenon
  <2>4. Picked(Append(t, x), Q) =
          IF Len(t) + 1 \in Q THEN Append(Picked(t, Q), x) ELSE Picked(t, Q)
    BY PickedAppend
  <2>5. Len(s \o t) + 1 \in P <=> Len(t) + 1 \in Q
    BY <2>1 DEF Q, Shifted
  <2>6. Picked(s, P) \in Seq(T) /\ Picked(t, Q) \in Seq(T)
    BY PickedType
  <2>7. Picked(s, P) \o Append(Picked(t, Q), x) = Append(Picked(s, P) \o Picked(t, Q), x)
    BY <2>6, AppendBehind
  <2> QED
    BY <1>2, <2>1, <2>2, <2>3, <2>4, <2>5, <2>7
<1>3. \A t \in Seq(T) : t \in S
  <2> HIDE DEF S
  <2> QED
    BY <1>1, <1>2, SeqInduction
<1> QED
  BY <1>3

-----------------------------------------------------------------------------
(* Sequences one behind the other: SequencesExt's FlattenSeq                 *)

IsFlattening(f, ss, T) ==
  /\ f \in [0 .. Len(ss) -> Seq(T)] /\ f[0] = <<>>
  /\ \A i \in 1 .. Len(ss) : f[i] = f[i - 1] \o ss[i]

LEMMA FlattenSteps ==
  ASSUME NEW T, NEW ss \in Seq(Seq(T))
  PROVE  \E f : IsFlattening(f, ss, T) /\ FlattenSeq(ss) = f[Len(ss)]
<1> DEFINE Body(f) == [i \in 1 .. Len(ss) |-> IF i = 1 THEN ss[i] ELSE f[i - 1] \o ss[i]]
           step == [i \in 1 .. Len(ss) |-> [x \in Seq(T) |-> x \o ss[i]]]
<1>1. Len(ss) \in Nat /\ <<>> \in Seq(T) /\ \A i \in 1 .. Len(ss) : ss[i] \in Seq(T)
  OBVIOUS
<1>2. step \in [1 .. Len(ss) -> [Seq(T) -> Seq(T)]]
  OBVIOUS
<1>3. \A i \in 1 .. Len(ss), x \in Seq(T) : step[i][x] = x \o ss[i]
  OBVIOUS
<1> HIDE DEF step
<1>4. PICK f : GoesOn(f, Len(ss), Seq(T), <<>>, step)
  <2>1. step \in Steps(Len(ss), Seq(T))
    BY <1>2 DEF Steps
  <2> QED
    BY <1>1, <2>1, Recursion
<1>5. IsFlattening(f, ss, T)
  <2>1. ASSUME NEW i \in 1 .. Len(ss)
        PROVE  f[i] = f[i - 1] \o ss[i]
    <3>1. i - 1 \in 0 .. Len(ss)
      BY <1>1
    <3>2. f[i - 1] \in Seq(T)
      BY <1>4, <3>1 DEF GoesOn
    <3> QED
      BY <1>3, <1>4, <3>2 DEF GoesOn
  <2> QED
    BY <1>4, <2>1 DEF GoesOn, IsFlattening
<1>6. CASE Len(ss) = 0
  <2>1. FlattenSeq(ss) = <<>>
    BY <1>6 DEF FlattenSeq
  <2> QED
    BY <1>5, <1>6, <2>1 DEF IsFlattening
<1>7. CASE Len(ss) # 0
  <2> DEFINE flatten == CHOOSE g : g = Body(g)
             f1 == [i \in 1 .. Len(ss) |-> f[i]]
  <2>1. f1 = Body(f1)
    <3>1. ASSUME NEW i \in 1 .. Len(ss)
          PROVE  f[i] = IF i = 1 THEN ss[i] ELSE f1[i - 1] \o ss[i]
      <4>1. CASE i = 1
        <5>1. f[1] = <<>> \o ss[1] /\ ss[1] \in Seq(T)
          <6>1. 1 \in 1 .. Len(ss) /\ 1 - 1 = 0
            BY <4>1
          <6> QED
            BY <1>1, <1>5, <6>1 DEF IsFlattening
        <5> QED
          BY <4>1, <5>1
      <4>2. CASE i # 1
        <5>1. i - 1 \in 1 .. Len(ss)
          BY <1>1, <4>2
        <5>2. f1[i - 1] = f[i - 1]
          BY <5>1
        <5> QED
          BY <1>5, <4>2, <5>2 DEF IsFlattening
      <4> QED
        BY <4>1, <4>2
    <3> QED
      BY <3>1
  <2>2. flatten = Body(flatten)
    <3> HIDE DEF Body
    <3> QED
      BY <2>1
  <2>3. FlattenSeq(ss) = flatten[Len(ss)]
    BY <1>7 DEF FlattenSeq
  <2>4. \A i \in 1 .. Len(ss) : flatten[i] = IF i = 1 THEN ss[i] ELSE flatten[i - 1] \o ss[i]
    <3> HIDE DEF flatten
    <3>1. \A i \in 1 .. Len(ss) : flatten[i] = Body(flatten)[i]
      BY <2>2
    <3> QED
      BY <3>1
  <2> HIDE DEF flatten, f1, Body
  <2> DEFINE g == [i \in 0 .. Len(ss) |-> IF i = 0 THEN <<>> ELSE flatten[i]]
  <2>5. g[0] = <<>> /\ \A i \in 1 .. Len(ss) : g[i] = flatten[i]
    BY <1>1
  <2> HIDE DEF g
  <2>6. f[0] = g[0] /\ StepAlike(f, g, Len(ss))
    <3>1. f[0] = g[0]
      BY <1>5, <2>5 DEF IsFlattening
    <3>2. ASSUME NEW i \in 1 .. Len(ss), f[i - 1] = g[i - 1]
          PROVE  f[i] = g[i]
      <4>1. f[i] = f[i - 1] \o ss[i] /\ ss[i] \in Seq(T)
        BY <1>1, <1>5 DEF IsFlattening
      <4>2. CASE i = 1
        <5>1. f[i - 1] = <<>>
          BY <1>5, <4>2 DEF IsFlattening
        <5>2. f[i] = ss[i]
          BY <4>1, <5>1
        <5> QED
          BY <2>4, <2>5, <4>2, <5>2
      <4>3. CASE i # 1
        <5>1. i - 1 \in 1 .. Len(ss)
          BY <1>1, <4>3
        <5> QED
          BY <2>4, <2>5, <3>2, <4>1, <4>3, <5>1
      <4> QED
        BY <4>2, <4>3
    <3> QED
      BY <3>1, <3>2 DEF StepAlike
  <2>7. Len(ss) \in 0 .. Len(ss) /\ Len(ss) \in 1 .. Len(ss)
    BY <1>1, <1>7
  <2>8. f[Len(ss)] = g[Len(ss)]
    BY <1>1, <2>6, <2>7, SameSteps DEF Alike
  <2> QED
    BY <1>5, <2>3, <2>5, <2>7, <2>8
<1> QED
  BY <1>6, <1>7

LEMMA FlattenType ==
  ASSUME NEW T, NEW ss \in Seq(Seq(T))
  PROVE  FlattenSeq(ss) \in Seq(T)
<1>1. PICK f : IsFlattening(f, ss, T) /\ FlattenSeq(ss) = f[Len(ss)]
  BY FlattenSteps
<1>2. Len(ss) \in 0 .. Len(ss)
  OBVIOUS
<1> QED
  BY <1>1, <1>2 DEF IsFlattening

\* One more sequence.
LEMMA FlattenAppend ==
  ASSUME NEW T, NEW ss \in Seq(Seq(T)), NEW t \in Seq(T)
  PROVE  FlattenSeq(Append(ss, t)) = FlattenSeq(ss) \o t
<1> DEFINE tt == Append(ss, t)
           n == Len(ss)
<1>1. /\ tt \in Seq(Seq(T)) /\ Len(tt) = n + 1 /\ n \in Nat
      /\ tt[n + 1] = t /\ \A i \in 1 .. n : tt[i] = ss[i]
  OBVIOUS
<1> HIDE DEF tt
<1>2. PICK f : IsFlattening(f, ss, T) /\ FlattenSeq(ss) = f[n]
  BY FlattenSteps
<1>3. PICK g : IsFlattening(g, tt, T) /\ FlattenSeq(tt) = g[n + 1]
  BY <1>1, FlattenSteps
<1>4. f[0] = g[0]
  BY <1>2, <1>3 DEF IsFlattening
<1>5. ASSUME NEW i \in 1 .. n, f[i - 1] = g[i - 1]
      PROVE  f[i] = g[i]
  <2>1. i \in 1 .. Len(tt) /\ tt[i] = ss[i]
    <3>1. \A k \in 1 .. n : k \in 1 .. n + 1
      BY <1>1
    <3> QED
      BY <1>1, <3>1, Zenon
  <2> QED
    BY <1>2, <1>3, <1>5, <2>1 DEF IsFlattening
<1>6. Alike(f, g, n)
  <2>1. StepAlike(f, g, n)
    BY <1>5 DEF StepAlike
  <2> QED
    BY <1>1, <1>4, <2>1, SameSteps
<1>7. f[n] = g[n]
  BY <1>1, <1>6 DEF Alike
<1>8. g[n + 1] = g[n] \o t
  <2>1. n + 1 \in 1 .. Len(tt) /\ (n + 1) - 1 = n
    BY <1>1
  <2> QED
    BY <1>1, <1>3, <2>1 DEF IsFlattening
<1> QED
  BY <1>2, <1>3, <1>7, <1>8 DEF tt

LEMMA FlattenNone == FlattenSeq(<<>>) = <<>>
  BY DEF FlattenSeq

LEMMA FlattenOne ==
  ASSUME NEW T, NEW t \in Seq(T)
  PROVE  FlattenSeq(<<t>>) = t
<1>1. <<>> \in Seq(Seq(T)) /\ Append(<<>>, t) = <<t>> /\ <<>> \o t = t
  OBVIOUS
<1> QED
  BY <1>1, FlattenAppend, FlattenNone

\* What is where behind a place of a sequence.
LEMMA TailAt ==
  ASSUME NEW T, NEW s \in Seq(T), NEW n \in 0 .. Len(s)
  PROVE  /\ SubSeq(s, n + 1, Len(s)) \in Seq(T)
         /\ Len(SubSeq(s, n + 1, Len(s))) = Len(s) - n
         /\ Len(s) \in Nat
         /\ \A i \in 1 .. Len(s) - n : SubSeq(s, n + 1, Len(s))[i] = s[n + i]
  OBVIOUS

\* What is where in a concatenation.
LEMMA ConcatAt ==
  ASSUME NEW T, NEW s \in Seq(T), NEW t \in Seq(T)
  PROVE  /\ s \o t \in Seq(T) /\ Len(s \o t) = Len(s) + Len(t)
         /\ Len(s) \in Nat /\ Len(t) \in Nat
         /\ \A i \in 1 .. Len(s) : (s \o t)[i] = s[i] /\ i \in 1 .. Len(s \o t)
         /\ \A i \in 1 .. Len(t) :
              (s \o t)[Len(s) + i] = t[i] /\ Len(s) + i \in 1 .. Len(s \o t)
<1>1. s \o t \in Seq(T) /\ Len(s \o t) = Len(s) + Len(t) /\ Len(s) \in Nat /\ Len(t) \in Nat
  OBVIOUS
<1>2. \A i \in 1 .. Len(s) : (s \o t)[i] = s[i] /\ i \in 1 .. Len(s \o t)
  BY <1>1
<1>3. \A i \in 1 .. Len(t) :
        (s \o t)[Len(s) + i] = t[i] /\ Len(s) + i \in 1 .. Len(s \o t)
  <2> TAKE i \in 1 .. Len(t)
  <2>1. Len(s) + i \in Len(s) + 1 .. Len(s) + Len(t) /\ (Len(s) + i) - Len(s) = i
    BY <1>1
  <2> QED
    BY <1>1, <2>1
<1> QED
  BY <1>1, <1>2, <1>3

\* The sequence of the first of its sequences.
FirstOf(ss, k) == [i \in 1 .. k |-> ss[i]]

LEMMA FlattenFirst ==
  ASSUME NEW T, NEW ss \in Seq(Seq(T)), NEW k \in 1 .. Len(ss)
  PROVE  /\ FirstOf(ss, k - 1) \in Seq(Seq(T))
         /\ FlattenSeq(FirstOf(ss, k)) = FlattenSeq(FirstOf(ss, k - 1)) \o ss[k]
<1>1. Len(ss) \in Nat /\ k - 1 \in Nat /\ ss[k] \in Seq(T)
  OBVIOUS
<1>2. FirstOf(ss, k - 1) \in Seq(Seq(T)) /\ Len(FirstOf(ss, k - 1)) = k - 1
  BY DEF FirstOf
<1>3. FirstOf(ss, k) = Append(FirstOf(ss, k - 1), ss[k])
  BY <1>1 DEF FirstOf
<1> QED
  BY <1>1, <1>2, <1>3, FlattenAppend

\* s is where t begins.
Begins(s, t) == Len(s) <= Len(t) /\ \A i \in 1 .. Len(s) : t[i] = s[i]

LEMMA FlattenBegins ==
  ASSUME NEW T, NEW ss \in Seq(Seq(T)), NEW k \in 0 .. Len(ss)
  PROVE  Begins(FlattenSeq(FirstOf(ss, k)), FlattenSeq(ss))
<1> DEFINE F(j) == FlattenSeq(FirstOf(ss, j))
           N == {j \in Nat : j >= k /\ j <= Len(ss) => Begins(F(k), F(j))}
<1>1. Len(ss) \in Nat /\ k \in Nat
  OBVIOUS
<1>2. \A j \in 0 .. Len(ss) : F(j) \in Seq(T)
  <2> TAKE j \in 0 .. Len(ss)
  <2>1. FirstOf(ss, j) \in Seq(Seq(T))
    BY DEF FirstOf
  <2> QED
    BY <2>1, FlattenType
<1>3. 0 \in N
  BY <1>1, <1>2 DEF Begins
<1>4. ASSUME NEW j \in Nat, j \in N
      PROVE  j + 1 \in N
  <2> SUFFICES ASSUME j + 1 >= k, j + 1 <= Len(ss)
               PROVE  Begins(F(k), F(j + 1))
    OBVIOUS
  <2>1. F(j + 1) = F(j) \o ss[j + 1] /\ ss[j + 1] \in Seq(T)
    <3>1. j + 1 \in 1 .. Len(ss) /\ (j + 1) - 1 = j
      BY <1>1
    <3>2. FlattenSeq(FirstOf(ss, j + 1)) = FlattenSeq(FirstOf(ss, (j + 1) - 1)) \o ss[j + 1]
      BY <3>1, FlattenFirst
    <3> QED
      BY <3>1, <3>2
  <2> HIDE DEF F
  <2>2. CASE j + 1 = k
    BY <1>2, <2>2 DEF Begins
  <2>3. CASE j + 1 # k
    <3>1. Begins(F(k), F(j)) /\ F(j) \in Seq(T) /\ F(k) \in Seq(T)
      BY <1>1, <1>2, <1>4, <2>3
    <3> QED
      BY <2>1, <3>1 DEF Begins
  <2> QED
    BY <2>2, <2>3
<1>5. Len(ss) \in N
  <2> HIDE DEF N
  <2> QED
    BY <1>1, <1>3, <1>4, SetInduction
<1>6. F(Len(ss)) = FlattenSeq(ss)
  <2>1. FirstOf(ss, Len(ss)) = ss
    BY DEF FirstOf
  <2> QED
    BY <2>1
<1> HIDE DEF F
<1> QED
  BY <1>1, <1>5, <1>6 DEF F

\* Each sequence lies behind those before it.
LenBefore(ss, k) == Len(FlattenSeq(FirstOf(ss, k - 1)))

LEMMA FlattenParts ==
  ASSUME NEW T, NEW ss \in Seq(Seq(T)), NEW k \in 1 .. Len(ss)
  PROVE  /\ LenBefore(ss, k) \in Nat
         /\ LenBefore(ss, k + 1) = LenBefore(ss, k) + Len(ss[k])
         /\ LenBefore(ss, k + 1) <= Len(FlattenSeq(ss))
         /\ \A i \in 1 .. Len(ss[k]) : FlattenSeq(ss)[LenBefore(ss, k) + i] = ss[k][i]
<1> DEFINE before == FlattenSeq(FirstOf(ss, k - 1))
           to == FlattenSeq(FirstOf(ss, k))
           all == FlattenSeq(ss)
           t == ss[k]
<1>1. before \in Seq(T) /\ to = before \o t /\ t \in Seq(T) /\ all \in Seq(T)
  <2>1. FirstOf(ss, k - 1) \in Seq(Seq(T)) /\ to = before \o ss[k]
    BY FlattenFirst
  <2>2. before \in Seq(T) /\ all \in Seq(T)
    BY <2>1, FlattenType
  <2>3. t \in Seq(T)
    OBVIOUS
  <2> QED
    BY <2>1, <2>2, <2>3
<1>2. Begins(to, all)
  BY FlattenBegins
<1>3. LenBefore(ss, k) = Len(before) /\ LenBefore(ss, k + 1) = Len(to)
  <2>1. (k + 1) - 1 = k
    OBVIOUS
  <2> QED
    BY <2>1 DEF LenBefore
<1> HIDE DEF before, to, all, t
<1>4. /\ Len(to) = Len(before) + Len(t) /\ Len(before) \in Nat
      /\ \A i \in 1 .. Len(t) : /\ (before \o t)[Len(before) + i] = t[i]
                                /\ Len(before) + i \in 1 .. Len(before \o t)
  BY <1>1, ConcatAt
<1>5. \A i \in 1 .. Len(t) : all[Len(before) + i] = t[i]
  <2> TAKE i \in 1 .. Len(t)
  <2>1. to[Len(before) + i] = t[i] /\ Len(before) + i \in 1 .. Len(to)
    BY <1>1, <1>4, Zenon
  <2> QED
    BY <1>2, <2>1 DEF Begins
<1>6. Len(to) <= Len(all)
  BY <1>2 DEF Begins
<1>7. /\ LenBefore(ss, k) \in Nat
      /\ LenBefore(ss, k + 1) = LenBefore(ss, k) + Len(t)
      /\ LenBefore(ss, k + 1) <= Len(all)
      /\ \A i \in 1 .. Len(t) : all[LenBefore(ss, k) + i] = t[i]
  BY <1>3, <1>4, <1>5, <1>6, Zenon
<1> QED
  BY <1>7, Zenon DEF all, t
-----------------------------------------------------------------------------
(* Work that gets less.                                                      *)

\* Of four numbers the first that differs decides.
LEMMA BelowFour ==
  ASSUME NEW s1 \in Nat, NEW s2 \in Nat, NEW s3 \in Nat, NEW s4 \in Nat,
         NEW t1 \in Nat, NEW t2 \in Nat, NEW t3 \in Nat, NEW t4 \in Nat,
         \/ s1 < t1
         \/ s1 = t1 /\ s2 < t2
         \/ s1 = t1 /\ s2 = t2 /\ s3 < t3
         \/ s1 = t1 /\ s2 = t2 /\ s3 = t3 /\ s4 < t4
  PROVE  Below(<<s1, s2, s3, s4>>, <<t1, t2, t3, t4>>)
<1> DEFINE s == <<s1, s2, s3, s4>>
           t == <<t1, t2, t3, t4>>
           first(i) == s[i] < t[i] /\ \A j \in 1 .. i - 1 : s[j] = t[j]
<1>1. first(1) \/ first(2) \/ first(3) \/ first(4)
  OBVIOUS
<1>2. \E i \in 1 .. 4 : first(i)
  BY <1>1
<1> QED
  BY <1>2 DEF Below

\* And of two.
LEMMA BelowTwo ==
  ASSUME NEW s1 \in Nat, NEW s2 \in Nat, NEW t1 \in Nat, NEW t2 \in Nat,
         s1 < t1 \/ (s1 = t1 /\ s2 < t2)
  PROVE  Below(<<s1, s2>>, <<t1, t2>>)
<1> DEFINE s == <<s1, s2>>
           t == <<t1, t2>>
           first(i) == s[i] < t[i] /\ \A j \in 1 .. i - 1 : s[j] = t[j]
<1>1. first(1) \/ first(2)
  OBVIOUS
<1>2. \E i \in 1 .. 2 : first(i)
  BY <1>1
<1> QED
  BY <1>2 DEF Below

\* And of three.
LEMMA BelowThree ==
  ASSUME NEW s1 \in Nat, NEW s2 \in Nat, NEW s3 \in Nat,
         NEW t1 \in Nat, NEW t2 \in Nat, NEW t3 \in Nat,
         \/ s1 < t1
         \/ s1 = t1 /\ s2 < t2
         \/ s1 = t1 /\ s2 = t2 /\ s3 < t3
  PROVE  Below(<<s1, s2, s3>>, <<t1, t2, t3>>)
<1> DEFINE s == <<s1, s2, s3>>
           t == <<t1, t2, t3>>
           first(i) == s[i] < t[i] /\ \A j \in 1 .. i - 1 : s[j] = t[j]
<1>1. first(1) \/ first(2) \/ first(3)
  OBVIOUS
<1>2. \E i \in 1 .. 3 : first(i)
  BY <1>1
<1> QED
  BY <1>2 DEF Below
============================================================================

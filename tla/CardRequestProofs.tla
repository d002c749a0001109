-------------------------- MODULE CardRequestProofs --------------------------
(***************************************************************************)
(* That a request writes nothing behind the buffer for the body, and that  *)
(* what it returns is of one answer, and the whole of an answer that       *)
(* arrived, whatever the service answers, wherever reads end and the       *)
(* network fails.                                                          *)
(***************************************************************************)
EXTENDS CardRequest, InductionLemmas

-----------------------------------------------------------------------------
(* Where things are in an answer                                             *)

LEMMA AnswerFields ==
  ASSUME NEW a \in Answers
  PROVE  /\ a.status \in Nat /\ a.coded \in {"length", "chunked", "none"} /\ a.close \in BOOLEAN
         /\ a.untold \in Seq(Symbols)
         /\ a.coded = "none" => a.chunks = <<>>
         /\ a.untold # <<>> => a.coded = "none" /\ a.close
         /\ a.chunks \in Seq(Seq(Symbols)) /\ Len(a.chunks) \in Nat
         /\ \A i \in 1 .. Len(a.chunks) : a.chunks[i] \in Seq(Symbols) /\ Len(a.chunks[i]) > 0
<1>1. a \in AnswerType
  BY RequestAssumption
<1>2. a.chunks \in Seq(Seq(Symbols) \ {<<>>})
  BY <1>1 DEF AnswerType
<1> DEFINE cs == a.chunks
<1>3. cs \in Seq(Seq(Symbols) \ {<<>>})
  BY <1>2
<1> HIDE DEF cs
<1>4. Len(cs) \in Nat /\ \A i \in 1 .. Len(cs) : cs[i] \in Seq(Symbols) /\ cs[i] # <<>>
  BY <1>3
<1>5. \A i \in 1 .. Len(cs) : Len(cs[i]) > 0
  BY <1>4
<1>6. cs \in Seq(Seq(Symbols))
  BY <1>3
<1> QED
  BY <1>1, <1>4, <1>5, <1>6 DEF AnswerType, cs

LEMMA SymIn == \A k \in Kinds, n \in Nat : Sym(k, n) \in Symbols /\ Sym(k, n).is = k /\ Sym(k, n).n = n
  BY DEF Sym, Symbols

LEMMA BreakShape ==
  ASSUME NEW n \in Nat
  PROVE  /\ Break(n) \in Seq(Symbols) /\ Len(Break(n)) = 2
         /\ Break(n)[1] = Sym("cr", n) /\ Break(n)[2] = Sym("lf", n)
<1>1. Sym("cr", n) \in Symbols /\ Sym("lf", n) \in Symbols
  BY SymIn DEF Kinds
<1> QED
  BY <1>1 DEF Break

\* s has a line break of kind n behind position p.
BreakAt(s, p, n) == s[p + 1] = Sym("cr", n) /\ s[p + 2] = Sym("lf", n)

\* u is s with t behind it.
Joined(u, s, t) ==
  /\ u \in Seq(Symbols) /\ Len(u) = Len(s) + Len(t) /\ Len(s) \in Nat /\ Len(t) \in Nat
  /\ \A i \in 1 .. Len(s) : u[i] = s[i]
  /\ \A i \in 1 .. Len(t) : u[Len(s) + i] = t[i]

LEMMA Joins == \A s, t \in Seq(Symbols) : Joined(s \o t, s, t)
<1> TAKE s \in Seq(Symbols), t \in Seq(Symbols)
<1> DEFINE u == s \o t
<1>1. /\ u \in Seq(Symbols) /\ Len(u) = Len(s) + Len(t)
      /\ Len(s) \in Nat /\ Len(t) \in Nat
      /\ \A i \in 1 .. Len(s) : u[i] = s[i] /\ i \in 1 .. Len(u)
      /\ \A i \in 1 .. Len(t) : u[Len(s) + i] = t[i] /\ Len(s) + i \in 1 .. Len(u)
  BY ConcatAt
<1> HIDE DEF u
<1>2. Joined(u, s, t)
  BY <1>1 DEF Joined
<1> QED
  BY <1>2 DEF u

LEMMA LineShape ==
  ASSUME NEW k \in Kinds, NEW n \in Nat
  PROVE  /\ Line(k, n) \in Seq(Symbols) /\ Len(Line(k, n)) = 3
         /\ Line(k, n)[1] = Sym(k, n) /\ BreakAt(Line(k, n), 1, 0)
<1>1. Sym(k, n) \in Symbols
  BY SymIn
<1> DEFINE s == <<Sym(k, n)>>
           t == Break(0)
           u == s \o t
<1>2. s \in Seq(Symbols) /\ Len(s) = 1 /\ s[1] = Sym(k, n)
  BY <1>1
<1>3. t \in Seq(Symbols) /\ Len(t) = 2 /\ t[1] = Sym("cr", 0) /\ t[2] = Sym("lf", 0)
  BY BreakShape
<1>4. u = Line(k, n)
  BY DEF Line
<1> HIDE DEF s, t
<1>5. Joined(u, s, t)
  BY <1>2, <1>3, Joins
<1> HIDE DEF u
<1>6. u \in Seq(Symbols) /\ Len(u) = 3 /\ u[1] = s[1] /\ u[2] = t[1] /\ u[3] = t[2]
  BY <1>2, <1>3, <1>5 DEF Joined
<1> QED
  BY <1>2, <1>3, <1>4, <1>6 DEF BreakAt

LEMMA BodyType ==
  ASSUME NEW a \in Answers
  PROVE  /\ BodyOf(a) \in Seq(Symbols) /\ Len(BodyOf(a)) \in Nat
         /\ a.coded = "none" => BodyOf(a) = <<>>
<1>1. BodyOf(a) \in Seq(Symbols)
  BY AnswerFields, FlattenType DEF BodyOf
<1>2. a.coded = "none" => BodyOf(a) = <<>>
  BY AnswerFields, FlattenNone DEF BodyOf
<1> QED
  BY <1>1, <1>2

HeaderLen(a) == IF a.close THEN 11 ELSE 8
Coding(a) ==
  CASE a.coded = "length" -> Sym("length", Len(BodyOf(a)))
    [] a.coded = "chunked" -> Sym("chunked", 0)
    [] OTHER -> Sym("other", 0)

LEMMA CodingIs ==
  ASSUME NEW a \in Answers
  PROVE  /\ Coding(a).is # "cr"
         /\ a.coded = "length" => Coding(a).is = "length" /\ Coding(a).n = Len(BodyOf(a))
         /\ a.coded = "chunked" => Coding(a).is = "chunked"
         /\ a.coded = "none" => Coding(a).is = "other"
<1>1. CASE a.coded = "length"
  BY <1>1, BodyType, SymIn DEF Kinds, Coding
<1>2. CASE a.coded = "chunked"
  BY <1>2, SymIn DEF Kinds, Coding
<1>3. CASE a.coded = "none"
  BY <1>3, SymIn DEF Kinds, Coding
<1> QED
  BY <1>1, <1>2, <1>3, AnswerFields

\* The header has three symbols for each line and two for the break at its end.
LEMMA HeaderShape ==
  ASSUME NEW a \in Answers, NEW h, h = HeaderOf(a)
  PROVE  /\ h \in Seq(Symbols) /\ Len(h) = HeaderLen(a)
         /\ h[1] = Sym("status", a.status) /\ BreakAt(h, 1, 0)
         /\ h[4] = Coding(a) /\ BreakAt(h, 4, 0)
         /\ a.close => h[7] = Sym("close", 0) /\ BreakAt(h, 7, 0)
         /\ BreakAt(h, HeaderLen(a) - 2, 0)
<1> DEFINE s1 == Line("status", a.status)
           s2 == CASE a.coded = "length" -> Line("length", Len(BodyOf(a)))
                   [] a.coded = "chunked" -> Line("chunked", 0)
                   [] OTHER -> Line("other", 0)
           s3 == IF a.close THEN Line("close", 0) ELSE <<>>
           s4 == Break(0)
           u == s1 \o s2
           v == u \o s3
<1>1. /\ s1 \in Seq(Symbols) /\ Len(s1) = 3
      /\ s1[1] = Sym("status", a.status) /\ BreakAt(s1, 1, 0)
  BY AnswerFields, LineShape DEF Kinds
<1>2. s2 \in Seq(Symbols) /\ Len(s2) = 3 /\ s2[1] = Coding(a) /\ BreakAt(s2, 1, 0)
  <2>1. CASE a.coded = "length"
    BY <2>1, BodyType, LineShape DEF Kinds, Coding
  <2>2. CASE a.coded = "chunked"
    BY <2>2, LineShape DEF Kinds, Coding
  <2>3. CASE a.coded = "none"
    BY <2>3, LineShape DEF Kinds, Coding
  <2> QED
    BY <2>1, <2>2, <2>3, AnswerFields
<1>3. /\ s3 \in Seq(Symbols)
      /\ a.close => Len(s3) = 3 /\ s3[1] = Sym("close", 0) /\ BreakAt(s3, 1, 0)
      /\ ~a.close => Len(s3) = 0
  BY LineShape DEF Kinds
<1>4. s4 \in Seq(Symbols) /\ Len(s4) = 2 /\ BreakAt(s4, 0, 0)
  BY BreakShape DEF BreakAt
<1>5. h = v \o s4
  BY DEF HeaderOf
<1> HIDE DEF s1, s2, s3, s4
<1>6. Joined(u, s1, s2)
  BY <1>1, <1>2, Joins
<1> HIDE DEF u
<1>7. /\ u \in Seq(Symbols) /\ Len(u) = 6
      /\ u[1] = s1[1] /\ u[2] = s1[2] /\ u[3] = s1[3]
      /\ u[4] = s2[1] /\ u[5] = s2[2] /\ u[6] = s2[3]
  BY <1>1, <1>2, <1>6 DEF Joined
<1>8. Joined(v, u, s3)
  BY <1>3, <1>7, Joins
<1> HIDE DEF v
<1>9. /\ v \in Seq(Symbols) /\ Len(v) = 6 + Len(s3)
      /\ \A i \in 1 .. 6 : v[i] = u[i]
      /\ a.close => v[7] = s3[1] /\ v[8] = s3[2] /\ v[9] = s3[3]
  BY <1>3, <1>7, <1>8 DEF Joined
<1>10. Joined(h, v, s4)
  BY <1>4, <1>5, <1>9, Joins
<1>11. /\ h \in Seq(Symbols) /\ Len(h) = 8 + Len(s3)
       /\ \A i \in 1 .. 6 : h[i] = v[i]
       /\ a.close => h[7] = v[7] /\ h[8] = v[8] /\ h[9] = v[9]
       /\ h[7 + Len(s3)] = s4[1] /\ h[8 + Len(s3)] = s4[2]
  <2>1. Len(s3) \in Nat
    BY <1>3
  <2>2. h \in Seq(Symbols) /\ Len(h) = 8 + Len(s3)
    BY <1>4, <1>9, <1>10, <2>1 DEF Joined
  <2>3. /\ \A i \in 1 .. 6 : h[i] = v[i]
        /\ a.close => h[7] = v[7] /\ h[8] = v[8] /\ h[9] = v[9]
    BY <1>3, <1>4, <1>9, <1>10, <2>1 DEF Joined
  <2>4. h[(6 + Len(s3)) + 1] = s4[1] /\ h[(6 + Len(s3)) + 2] = s4[2]
    BY <1>4, <1>9, <1>10, <2>1 DEF Joined
  <2> QED
    BY <2>1, <2>2, <2>3, <2>4
<1>12. /\ h[1] = s1[1] /\ h[2] = s1[2] /\ h[3] = s1[3]
       /\ h[4] = s2[1] /\ h[5] = s2[2] /\ h[6] = s2[3]
  BY <1>7, <1>9, <1>11
<1>13. HeaderLen(a) = 8 + Len(s3)
  <2>1. CASE a.close
    <3>1. Len(s3) = 3 /\ HeaderLen(a) = 11
      BY <1>3, <2>1, Zenon DEF HeaderLen
    <3> QED
      BY <3>1
  <2>2. CASE ~a.close
    BY <1>3, <2>2 DEF HeaderLen
  <2> QED
    BY <2>1, <2>2
<1>14. BreakAt(h, HeaderLen(a) - 2, 0)
  <2>1. Len(s3) \in Nat
    BY <1>3
  <2>2. (HeaderLen(a) - 2) + 1 = 7 + Len(s3) /\ (HeaderLen(a) - 2) + 2 = 8 + Len(s3)
    BY <1>13, <2>1
  <2> QED
    BY <1>4, <1>11, <2>2 DEF BreakAt
<1> QED
  BY <1>1, <1>2, <1>3, <1>9, <1>11, <1>12, <1>13, <1>14 DEF BreakAt

LEMMA ChunkShape ==
  ASSUME NEW d \in Seq(Symbols), NEW s, s = ChunkOf(d)
  PROVE  /\ s \in Seq(Symbols) /\ Len(s) = Len(d) + 5 /\ Len(d) \in Nat
         /\ s[1] = Sym("size", Len(d)) /\ BreakAt(s, 1, 0)
         /\ \A i \in 1 .. Len(d) : s[3 + i] = d[i]
         /\ BreakAt(s, 3 + Len(d), 1)
<1> DEFINE l == Line("size", Len(d))
           u == l \o d
           b == Break(1)
<1>1. Len(d) \in Nat
  OBVIOUS
<1>2. l \in Seq(Symbols) /\ Len(l) = 3 /\ l[1] = Sym("size", Len(d)) /\ BreakAt(l, 1, 0)
  BY <1>1, LineShape DEF Kinds
<1>3. b \in Seq(Symbols) /\ Len(b) = 2 /\ BreakAt(b, 0, 1)
  BY BreakShape DEF BreakAt
<1>4. s = u \o b
  BY DEF ChunkOf
<1> HIDE DEF l, b
<1>5. Joined(u, l, d)
  BY <1>2, Joins
<1> HIDE DEF u
<1>6. /\ u \in Seq(Symbols) /\ Len(u) = 3 + Len(d)
      /\ \A i \in 1 .. 3 : u[i] = l[i]
      /\ \A i \in 1 .. Len(d) : u[3 + i] = d[i]
  BY <1>2, <1>5 DEF Joined
<1>7. Joined(s, u, b)
  BY <1>3, <1>4, <1>6, Joins
<1>8. /\ s \in Seq(Symbols) /\ Len(s) = Len(d) + 5
      /\ \A i \in 1 .. 3 + Len(d) : s[i] = u[i]
      /\ s[(3 + Len(d)) + 1] = b[1] /\ s[(3 + Len(d)) + 2] = b[2]
  BY <1>1, <1>3, <1>6, <1>7 DEF Joined
<1>9. \A i \in 1 .. 3 : s[i] = l[i]
  BY <1>1, <1>6, <1>8
<1>10. \A i \in 1 .. Len(d) : s[3 + i] = d[i]
  BY <1>1, <1>6, <1>8
<1>11. s[1] = Sym("size", Len(d)) /\ BreakAt(s, 1, 0)
  BY <1>2, <1>9 DEF BreakAt
<1>12. BreakAt(s, 3 + Len(d), 1)
  BY <1>3, <1>8 DEF BreakAt
<1> QED
  BY <1>1, <1>8, <1>10, <1>11, <1>12

Codes(a) == [i \in DOMAIN a.chunks |-> ChunkOf(a.chunks[i])]

LEMMA CodesType ==
  ASSUME NEW a \in Answers
  PROVE  /\ Codes(a) \in Seq(Seq(Symbols)) /\ Len(Codes(a)) = Len(a.chunks)
         /\ \A i \in 1 .. Len(a.chunks) : Codes(a)[i] = ChunkOf(a.chunks[i])
<1> DEFINE cs == a.chunks
           n == Len(a.chunks)
<1>1. DOMAIN cs = 1 .. n /\ n \in Nat
  BY AnswerFields
<1>2. \A i \in 1 .. n : ChunkOf(cs[i]) \in Seq(Symbols)
  BY AnswerFields, ChunkShape
<1>3. Codes(a) = [i \in 1 .. n |-> ChunkOf(cs[i])]
  BY <1>1 DEF Codes
<1> HIDE DEF cs, n
<1> DEFINE f == [i \in 1 .. n |-> ChunkOf(cs[i])]
<1>4. f \in [1 .. n -> Seq(Symbols)] /\ DOMAIN f = 1 .. n /\ \A i \in 1 .. n : f[i] = ChunkOf(cs[i])
  BY <1>2
<1> HIDE DEF f
<1>5. f \in Seq(Seq(Symbols)) /\ Len(f) = n
  BY <1>1, <1>4
<1> QED
  BY <1>3, <1>4, <1>5 DEF f, cs, n

\* What is behind the header.
Content(a) ==
  IF a.coded = "chunked"
  THEN FlattenSeq([i \in DOMAIN a.chunks |-> ChunkOf(a.chunks[i])])
       \o Line("size", 0) \o Break(2)
  ELSE BodyOf(a) \o a.untold

LEMMA ContentShape ==
  ASSUME NEW a \in Answers, NEW t, t = Content(a)
  PROVE  /\ t \in Seq(Symbols)
         /\ a.coded # "chunked" =>
              /\ Len(t) = Len(BodyOf(a)) + Len(a.untold)
              /\ \A i \in 1 .. Len(BodyOf(a)) : t[i] = BodyOf(a)[i]
         /\ a.coded = "chunked" =>
              LET n == Len(FlattenSeq(Codes(a))) IN
              /\ n \in Nat /\ Len(t) = n + 5
              /\ \A i \in 1 .. n : t[i] = FlattenSeq(Codes(a))[i]
              /\ t[n + 1] = Sym("size", 0) /\ BreakAt(t, n + 1, 0) /\ BreakAt(t, n + 3, 2)
<1>1. CASE a.coded # "chunked"
  <2>1. a.untold \in Seq(Symbols) /\ BodyOf(a) \in Seq(Symbols)
    BY AnswerFields, BodyType
  <2>2. t = BodyOf(a) \o a.untold
    BY <1>1 DEF Content
  <2>3. Joined(t, BodyOf(a), a.untold)
    BY <2>1, <2>2, Joins
  <2> QED
    BY <1>1, <2>3 DEF Joined
<1>2. CASE a.coded = "chunked"
  <2> DEFINE f == FlattenSeq(Codes(a))
             l == Line("size", 0)
             u == f \o l
             b == Break(2)
             n == Len(f)
  <2>1. f \in Seq(Symbols) /\ n \in Nat
    <3>1. f \in Seq(Symbols)
      BY CodesType, FlattenType
    <3> QED
      BY <3>1
  <2>2. l \in Seq(Symbols) /\ Len(l) = 3 /\ l[1] = Sym("size", 0) /\ BreakAt(l, 1, 0)
    BY LineShape DEF Kinds
  <2>3. b \in Seq(Symbols) /\ Len(b) = 2 /\ BreakAt(b, 0, 2)
    BY BreakShape DEF BreakAt
  <2>4. t = u \o b
    BY <1>2 DEF Content, Codes
  <2> HIDE DEF l, b, f
  <2>5. Joined(u, f, l)
    BY <2>1, <2>2, Joins
  <2> HIDE DEF u
  <2>6. /\ u \in Seq(Symbols) /\ Len(u) = n + 3
        /\ \A i \in 1 .. n : u[i] = f[i]
        /\ u[n + 1] = l[1] /\ u[n + 2] = l[2] /\ u[n + 3] = l[3]
    BY <2>1, <2>2, <2>5 DEF Joined
  <2>7. Joined(t, u, b)
    BY <2>3, <2>4, <2>6, Joins
  <2>8. /\ t \in Seq(Symbols) /\ Len(t) = n + 5
        /\ \A i \in 1 .. n + 3 : t[i] = u[i]
        /\ t[(n + 3) + 1] = b[1] /\ t[(n + 3) + 2] = b[2]
    BY <2>1, <2>3, <2>6, <2>7 DEF Joined
  <2>9. /\ \A i \in 1 .. n : t[i] = f[i]
        /\ t[n + 1] = l[1] /\ t[n + 2] = l[2] /\ t[n + 3] = l[3]
    <3>1. \A i \in 1 .. n : i \in 1 .. n + 3
      BY <2>1
    <3>2. n + 1 \in 1 .. n + 3 /\ n + 2 \in 1 .. n + 3 /\ n + 3 \in 1 .. n + 3
      BY <2>1
    <3> QED
      BY <2>6, <2>8, <3>1, <3>2
  <2>10. t[n + 1] = Sym("size", 0) /\ BreakAt(t, n + 1, 0)
    <3>1. (n + 1) + 1 = n + 2 /\ (n + 1) + 2 = n + 3
      BY <2>1
    <3> QED
      BY <2>2, <2>9, <3>1 DEF BreakAt
  <2>11. BreakAt(t, n + 3, 2)
    BY <2>3, <2>8 DEF BreakAt
  <2> QED
    BY <1>2, <2>1, <2>8, <2>9, <2>10, <2>11 DEF f
<1> QED
  BY <1>1, <1>2, AnswerFields

\* What an answer begins with.
LEMMA AnswerShape ==
  ASSUME NEW a \in Answers, NEW s, s = Encoded(a), NEW h, h = HeaderLen(a)
  PROVE  /\ s \in Seq(Symbols) /\ h \in {8, 11} /\ Len(s) = h + Len(Content(a))
         /\ s[1] = Sym("status", a.status) /\ BreakAt(s, 1, 0)
         /\ s[4] = Coding(a) /\ BreakAt(s, 4, 0)
         /\ a.close => h = 11 /\ s[7] = Sym("close", 0) /\ BreakAt(s, 7, 0)
         /\ ~a.close => h = 8
         /\ BreakAt(s, h - 2, 0)
         /\ \A i \in 1 .. Len(Content(a)) : s[h + i] = Content(a)[i]
<1> DEFINE hd == HeaderOf(a)
           t == Content(a)
<1>1. s = hd \o t
  BY DEF Encoded, Content
<1>2. /\ hd \in Seq(Symbols) /\ Len(hd) = h
      /\ hd[1] = Sym("status", a.status) /\ BreakAt(hd, 1, 0)
      /\ hd[4] = Coding(a) /\ BreakAt(hd, 4, 0)
      /\ a.close => hd[7] = Sym("close", 0) /\ BreakAt(hd, 7, 0)
      /\ BreakAt(hd, h - 2, 0)
  BY HeaderShape
<1>3. h \in {8, 11} /\ (a.close => h = 11) /\ (~a.close => h = 8)
  BY DEF HeaderLen
<1>4. t \in Seq(Symbols) /\ Len(t) \in Nat
  <2>1. t \in Seq(Symbols)
    BY ContentShape
  <2> QED
    BY <2>1
<1> HIDE DEF hd, t
<1>5. Joined(s, hd, t)
  BY <1>1, <1>2, <1>4, Joins
<1>6. /\ s \in Seq(Symbols) /\ Len(s) = h + Len(t)
      /\ \A i \in 1 .. h : s[i] = hd[i]
      /\ \A i \in 1 .. Len(t) : s[h + i] = t[i]
  BY <1>2, <1>5 DEF Joined
<1>7. \A i \in 1 .. 6 : s[i] = hd[i]
  BY <1>3, <1>6
<1>8. s[h - 1] = hd[h - 1] /\ s[h] = hd[h] /\ (h - 2) + 1 = h - 1 /\ (h - 2) + 2 = h
  BY <1>3, <1>6
<1>9. h = 11 => s[7] = hd[7] /\ s[8] = hd[8] /\ s[9] = hd[9]
  BY <1>6
<1>10. s[1] = hd[1] /\ s[4] = hd[4]
  BY <1>7
<1>11. BreakAt(s, 1, 0) /\ BreakAt(s, 4, 0)
  <2>1. /\ s[1 + 1] = hd[1 + 1] /\ s[1 + 2] = hd[1 + 2]
        /\ s[4 + 1] = hd[4 + 1] /\ s[4 + 2] = hd[4 + 2]
    BY <1>7
  <2> QED
    BY <1>2, <2>1, Zenon DEF BreakAt
<1>12. BreakAt(s, h - 2, 0)
  BY <1>2, <1>8 DEF BreakAt
<1>13. a.close => s[7] = Sym("close", 0) /\ BreakAt(s, 7, 0)
  BY <1>2, <1>3, <1>9 DEF BreakAt
<1> QED
  BY <1>2, <1>3, <1>6, <1>10, <1>11, <1>12, <1>13 DEF t

\* Where a body ends that is not in chunks.
BodyEnd(a) == Len(HeaderOf(a)) + Len(BodyOf(a))

LEMMA BodyEndIs ==
  ASSUME NEW a \in Answers
  PROVE  /\ BodyEnd(a) = HeaderLen(a) + Len(BodyOf(a)) /\ BodyEnd(a) \in Nat
         /\ a.coded # "chunked" =>
              /\ Len(Encoded(a)) = BodyEnd(a) + Len(a.untold)
              /\ a.untold = <<>> => Len(Encoded(a)) = BodyEnd(a)
              /\ \A i \in 1 .. Len(BodyOf(a)) : Encoded(a)[HeaderLen(a) + i] = BodyOf(a)[i]
<1> DEFINE s == Encoded(a)
           b == BodyOf(a)
           u == a.untold
           h == HeaderLen(a)
           t == Content(a)
<1>1. Len(HeaderOf(a)) = h /\ h \in {8, 11} /\ Len(b) \in Nat
  BY HeaderShape, AnswerShape, BodyType
<1>2. /\ Len(s) = h + Len(t) /\ \A i \in 1 .. Len(t) : s[h + i] = t[i]
  BY AnswerShape
<1>3. a.coded # "chunked" => Len(t) = Len(b) + Len(u) /\ \A i \in 1 .. Len(b) : t[i] = b[i]
  BY ContentShape
<1>4. Len(u) \in Nat /\ (u = <<>> => Len(u) = 0)
  BY AnswerFields
<1>5. BodyEnd(a) = h + Len(b)
  BY <1>1 DEF BodyEnd
<1> HIDE DEF s, b, u, h, t
<1>6. a.coded # "chunked" =>
        /\ Len(s) = h + Len(b) + Len(u)
        /\ u = <<>> => Len(s) = h + Len(b)
        /\ \A i \in 1 .. Len(b) : s[h + i] = b[i]
  <2> SUFFICES ASSUME a.coded # "chunked"
               PROVE  /\ Len(s) = h + Len(b) + Len(u)
                      /\ u = <<>> => Len(s) = h + Len(b)
                      /\ \A i \in 1 .. Len(b) : s[h + i] = b[i]
    OBVIOUS
  <2>1. \A i \in 1 .. Len(b) : i \in 1 .. Len(t)
    BY <1>1, <1>3, <1>4
  <2> QED
    BY <1>1, <1>2, <1>3, <1>4, <2>1
<1> QED
  BY <1>1, <1>5, <1>6 DEF s, b, u, h

\* The bytes of a chunk in the body.
LEMMA Bytes ==
  ASSUME NEW a \in Answers, NEW c \in 1 .. Len(a.chunks)
  PROVE  /\ BytesBefore(a, c) \in Nat
         /\ BytesBefore(a, c + 1) = BytesBefore(a, c) + Len(a.chunks[c])
         /\ BytesBefore(a, c + 1) <= Len(BodyOf(a))
         /\ \A i \in 1 .. Len(a.chunks[c]) : BodyOf(a)[BytesBefore(a, c) + i] = a.chunks[c][i]
<1> DEFINE cs == a.chunks
<1>1. cs \in Seq(Seq(Symbols)) /\ c \in 1 .. Len(cs)
  BY AnswerFields
<1>2. BytesBefore(a, c) = LenBefore(cs, c) /\ BytesBefore(a, c + 1) = LenBefore(cs, c + 1)
  BY DEF BytesBefore, LenBefore, FirstOf
<1>3. BodyOf(a) = FlattenSeq(cs)
  BY DEF BodyOf
<1> HIDE DEF cs
<1>4. /\ LenBefore(cs, c) \in Nat
      /\ LenBefore(cs, c + 1) = LenBefore(cs, c) + Len(cs[c])
      /\ LenBefore(cs, c + 1) <= Len(FlattenSeq(cs))
      /\ \A i \in 1 .. Len(cs[c]) : FlattenSeq(cs)[LenBefore(cs, c) + i] = cs[c][i]
  BY <1>1, FlattenParts
<1> QED
  BY <1>2, <1>3, <1>4, Zenon DEF cs

LEMMA BytesEnds ==
  ASSUME NEW a \in Answers
  PROVE  BytesBefore(a, 1) = 0 /\ BytesBefore(a, Len(a.chunks) + 1) = Len(BodyOf(a))
<1> DEFINE cs == a.chunks
           n == Len(cs)
<1>1. cs \in Seq(Seq(Symbols)) /\ n \in Nat
  BY AnswerFields
<1>2. [i \in 1 .. 1 - 1 |-> cs[i]] = <<>>
  OBVIOUS
<1>3. BytesBefore(a, 1) = 0
  BY <1>2, FlattenNone DEF BytesBefore
<1>4. [i \in 1 .. (n + 1) - 1 |-> cs[i]] = cs
  <2> HIDE DEF cs
  <2> QED
    BY <1>1
<1> QED
  BY <1>3, <1>4 DEF BytesBefore, BodyOf

\* Each chunk is sent with five symbols more.
LEMMA CodesBefore ==
  ASSUME NEW a \in Answers
  PROVE  \A k \in 0 .. Len(a.chunks) :
           LenBefore(Codes(a), k + 1) = BytesBefore(a, k + 1) + 5 * k
<1> DEFINE m == Len(a.chunks)
           F(k) == LenBefore(Codes(a), k + 1)
           N == {k \in Nat : k <= m => F(k) = BytesBefore(a, k + 1) + 5 * k}
<1>1. m \in Nat
  BY AnswerFields
<1>2. 0 \in N
  <2>1. FirstOf(Codes(a), (0 + 1) - 1) = <<>>
    BY DEF FirstOf
  <2>2. F(0) = 0
    BY <2>1, FlattenNone DEF LenBefore
  <2> QED
    BY <2>2, BytesEnds
<1>3. ASSUME NEW k \in Nat, k \in N
      PROVE  k + 1 \in N
  <2> SUFFICES ASSUME k + 1 <= m
               PROVE  F(k + 1) = BytesBefore(a, (k + 1) + 1) + 5 * (k + 1)
    OBVIOUS
  <2>1. k + 1 \in 1 .. m
    BY <1>1
  <2>2. /\ Codes(a) \in Seq(Seq(Symbols)) /\ Len(Codes(a)) = m
        /\ Codes(a)[k + 1] = ChunkOf(a.chunks[k + 1])
    BY <2>1, CodesType
  <2>3. F(k + 1) = F(k) + Len(Codes(a)[k + 1])
    BY <2>1, <2>2, FlattenParts
  <2>4. Len(Codes(a)[k + 1]) = Len(a.chunks[k + 1]) + 5 /\ Len(a.chunks[k + 1]) \in Nat
    <3>1. a.chunks[k + 1] \in Seq(Symbols)
      BY <2>1, AnswerFields
    <3> QED
      BY <2>2, <3>1, ChunkShape
  <2>5. /\ BytesBefore(a, (k + 1) + 1) = BytesBefore(a, k + 1) + Len(a.chunks[k + 1])
        /\ BytesBefore(a, k + 1) \in Nat
    BY <2>1, Bytes
  <2>6. F(k) = BytesBefore(a, k + 1) + 5 * k
    BY <1>1, <1>3
  <2> HIDE DEF F
  <2> QED
    BY <2>3, <2>4, <2>5, <2>6
<1>4. \A k \in Nat : k \in N
  <2> HIDE DEF N
  <2> QED
    BY <1>2, <1>3, SetInduction
<1> QED
  BY <1>1, <1>4

LEMMA Starts ==
  ASSUME NEW a \in Answers
  PROVE  /\ StartOf(a, 1) = HeaderLen(a)
         /\ \A c \in 1 .. Len(a.chunks) + 1 :
              StartOf(a, c) \in Nat /\ StartOf(a, c) = HeaderLen(a) + LenBefore(Codes(a), c)
<1>1. Len(HeaderOf(a)) = HeaderLen(a) /\ HeaderLen(a) \in Nat
  BY HeaderShape DEF HeaderLen
<1>2. StartOf(a, 1) = HeaderLen(a)
  BY <1>1, BytesEnds DEF StartOf
<1>3. ASSUME NEW c \in 1 .. Len(a.chunks) + 1
      PROVE  StartOf(a, c) \in Nat /\ StartOf(a, c) = HeaderLen(a) + LenBefore(Codes(a), c)
  <2>1. c - 1 \in 0 .. Len(a.chunks) /\ (c - 1) + 1 = c /\ c \in Nat /\ Len(a.chunks) \in Nat
    BY AnswerFields
  <2>2. LenBefore(Codes(a), (c - 1) + 1) = BytesBefore(a, (c - 1) + 1) + 5 * (c - 1)
    BY <2>1, CodesBefore
  <2>3. BytesBefore(a, c) \in Nat
    <3>1. CASE c \in 1 .. Len(a.chunks)
      BY <3>1, Bytes
    <3>2. CASE c = Len(a.chunks) + 1
      BY <3>2, BytesEnds, BodyType
    <3> QED
      BY <2>1, <3>1, <3>2
  <2>4. LenBefore(Codes(a), c) = BytesBefore(a, c) + 5 * (c - 1)
    BY <2>1, <2>2
  <2> QED
    BY <1>1, <2>1, <2>3, <2>4 DEF StartOf
<1> QED
  BY <1>2, <1>3

\* Where a chunk is in a chunked answer.
LEMMA ChunkPlace ==
  ASSUME NEW a \in Answers, a.coded = "chunked", NEW c \in 1 .. Len(a.chunks)
  PROVE  LET s == Encoded(a)
             p == StartOf(a, c)
             d == a.chunks[c]
             l == Len(d)
         IN
         /\ p \in Nat /\ l \in Nat /\ l > 0
         /\ StartOf(a, c + 1) = p + l + 5 /\ p + l + 10 <= Len(s)
         /\ s[p + 1] = Sym("size", l) /\ BreakAt(s, p + 1, 0)
         /\ \A i \in 1 .. l : s[p + 3 + i] = d[i]
         /\ BreakAt(s, p + 3 + l, 1)
<1> DEFINE s == Encoded(a)
           p == StartOf(a, c)
           d == a.chunks[c]
           l == Len(d)
           h == HeaderLen(a)
           t == Content(a)
           ss == Codes(a)
           f == FlattenSeq(ss)
           sent == ss[c]
<1>1. d \in Seq(Symbols) /\ l \in Nat /\ l > 0 /\ Len(a.chunks) \in Nat
  <2>1. d \in Seq(Symbols) /\ Len(d) > 0 /\ Len(a.chunks) \in Nat
    BY AnswerFields
  <2> QED
    BY <2>1
<1>2. /\ ss \in Seq(Seq(Symbols)) /\ c \in 1 .. Len(ss) /\ sent = ChunkOf(d)
  BY CodesType
<1>3. /\ Len(sent) = l + 5 /\ sent[1] = Sym("size", l) /\ BreakAt(sent, 1, 0)
      /\ \A i \in 1 .. l : sent[3 + i] = d[i]
      /\ BreakAt(sent, 3 + l, 1)
  BY <1>1, <1>2, ChunkShape
<1> HIDE DEF sent
<1>4. /\ LenBefore(ss, c) \in Nat /\ LenBefore(ss, c + 1) = LenBefore(ss, c) + Len(sent)
      /\ LenBefore(ss, c + 1) <= Len(f)
      /\ \A i \in 1 .. Len(sent) : f[LenBefore(ss, c) + i] = sent[i]
  <2> HIDE DEF ss
  <2> QED
    BY <1>2, FlattenParts DEF sent
<1>5. /\ Len(t) = Len(f) + 5 /\ Len(f) \in Nat
      /\ \A i \in 1 .. Len(f) : t[i] = f[i]
  BY ContentShape
<1>6. /\ Len(s) = h + Len(t) /\ h \in {8, 11}
      /\ \A i \in 1 .. Len(t) : s[h + i] = t[i]
  BY AnswerShape
<1> DEFINE n == LenBefore(ss, c)
           m == LenBefore(ss, c + 1)
<1>7. p = h + n /\ StartOf(a, c + 1) = h + m
  <2>1. c \in 1 .. Len(a.chunks) + 1 /\ c + 1 \in 1 .. Len(a.chunks) + 1
    BY <1>1
  <2> QED
    BY <2>1, Starts
<1>8. n \in Nat /\ m = n + Len(sent) /\ m <= Len(f) /\ \A i \in 1 .. Len(sent) : f[n + i] = sent[i]
  BY <1>4
<1> HIDE DEF h, t, f, n, m, ss, s, p, d, l
<1>9. Len(sent) = l + 5 /\ l \in Nat /\ l > 0
  BY <1>1, <1>3
<1>10. p \in Nat /\ StartOf(a, c + 1) = p + l + 5 /\ p + l + 10 <= Len(s)
  <2>1. Len(t) = Len(f) + 5 /\ Len(f) \in Nat /\ Len(s) = h + Len(t) /\ h \in {8, 11}
    BY <1>5, <1>6
  <2>2. n \in Nat /\ m = n + (l + 5) /\ m <= Len(f)
    BY <1>8, <1>9
  <2> QED
    BY <1>7, <1>9, <2>1, <2>2
<1>11. \A i \in 1 .. l + 5 : s[p + i] = sent[i]
  <2> TAKE i \in 1 .. l + 5
  <2>1. n + i \in 1 .. Len(f) /\ n + i \in 1 .. Len(t) /\ p + i = h + (n + i)
    <3>1. n \in Nat /\ m = n + (l + 5) /\ m <= Len(f) /\ Len(f) \in Nat /\ Len(t) = Len(f) + 5
      BY <1>5, <1>8, <1>9
    <3>2. h \in {8, 11}
      BY <1>6
    <3> QED
      BY <1>7, <1>9, <3>1, <3>2
  <2>2. s[p + i] = t[n + i] /\ t[n + i] = f[n + i]
    BY <1>5, <1>6, <2>1
  <2> QED
    BY <1>8, <1>9, <2>2
<1>12. s[p + 1] = Sym("size", l)
  <2>1. 1 \in 1 .. l + 5
    BY <1>9
  <2> QED
    BY <1>3, <1>11, <2>1
<1>13. BreakAt(s, p + 1, 0)
  <2>1. /\ 1 + 1 \in 1 .. l + 5 /\ 1 + 2 \in 1 .. l + 5
        /\ p + (1 + 1) = (p + 1) + 1 /\ p + (1 + 2) = (p + 1) + 2
    BY <1>9, <1>10
  <2>2. s[p + (1 + 1)] = sent[1 + 1] /\ s[p + (1 + 2)] = sent[1 + 2]
    BY <1>11, <2>1
  <2> QED
    BY <1>3, <2>1, <2>2, Zenon DEF BreakAt
<1>14. \A i \in 1 .. l : s[p + 3 + i] = d[i]
  <2> TAKE i \in 1 .. l
  <2>1. 3 + i \in 1 .. l + 5 /\ p + (3 + i) = p + 3 + i
    BY <1>9, <1>10
  <2>2. s[p + (3 + i)] = sent[3 + i]
    BY <1>11, <2>1
  <2> QED
    BY <1>3, <2>1, <2>2
<1>15. BreakAt(s, p + 3 + l, 1)
  <2>1. /\ 3 + l + 1 \in 1 .. l + 5 /\ 3 + l + 2 \in 1 .. l + 5
        /\ p + (3 + l + 1) = p + 3 + l + 1 /\ p + (3 + l + 2) = p + 3 + l + 2
    BY <1>9, <1>10
  <2>2. s[p + (3 + l + 1)] = sent[3 + l + 1] /\ s[p + (3 + l + 2)] = sent[3 + l + 2]
    BY <1>11, <2>1
  <2> QED
    BY <1>3, <2>1, <2>2, Zenon DEF BreakAt
<1> QED
  BY <1>1, <1>10, <1>12, <1>13, <1>14, <1>15 DEF s, p, d, l

\* What is behind the chunks.
LEMMA LastPlace ==
  ASSUME NEW a \in Answers, a.coded = "chunked", NEW s, s = Encoded(a),
         NEW p, p = StartOf(a, Len(a.chunks) + 1)
  PROVE  /\ p \in Nat /\ Len(s) = p + 5
         /\ s[p + 1] = Sym("size", 0) /\ BreakAt(s, p + 1, 0) /\ BreakAt(s, p + 3, 2)
<1> DEFINE h == HeaderLen(a)
           t == Content(a)
           m == Len(a.chunks)
           n == Len(FlattenSeq(Codes(a)))
<1>1. /\ n \in Nat /\ Len(t) = n + 5
      /\ t[n + 1] = Sym("size", 0) /\ BreakAt(t, n + 1, 0) /\ BreakAt(t, n + 3, 2)
  BY ContentShape
<1>2. /\ Len(s) = h + Len(t) /\ h \in {8, 11}
      /\ \A i \in 1 .. Len(t) : s[h + i] = t[i]
  BY AnswerShape
<1>3. p = h + n
  <2>1. m \in Nat /\ m + 1 \in 1 .. m + 1 /\ (m + 1) - 1 = m
    BY AnswerFields
  <2>2. StartOf(a, m + 1) = h + Len(FlattenSeq(FirstOf(Codes(a), (m + 1) - 1)))
    BY <2>1, Starts DEF LenBefore
  <2>3. FirstOf(Codes(a), m) = Codes(a)
    <3> DEFINE ss == Codes(a)
    <3>1. ss \in Seq(Seq(Symbols)) /\ Len(ss) = m
      BY CodesType
    <3> HIDE DEF ss
    <3>2. FirstOf(ss, m) = ss
      BY <3>1 DEF FirstOf
    <3> QED
      BY <3>2 DEF ss
  <2> QED
    BY <2>1, <2>2, <2>3
<1> HIDE DEF h, t, n
<1>4. \A i \in 1 .. 5 : s[p + i] = t[n + i]
  <2> TAKE i \in 1 .. 5
  <2>1. n + i \in 1 .. Len(t) /\ h + (n + i) = p + i
    BY <1>1, <1>2, <1>3
  <2> QED
    BY <1>2, <2>1
<1>5. p \in Nat /\ Len(s) = p + 5
  BY <1>1, <1>2, <1>3
<1>6. /\ s[p + 1] = t[n + 1] /\ s[(p + 1) + 1] = t[(n + 1) + 1] /\ s[(p + 1) + 2] = t[(n + 1) + 2]
      /\ s[(p + 3) + 1] = t[(n + 3) + 1] /\ s[(p + 3) + 2] = t[(n + 3) + 2]
  <2>1. /\ (p + 1) + 1 = p + 2 /\ (p + 1) + 2 = p + 3 /\ (p + 3) + 1 = p + 4 /\ (p + 3) + 2 = p + 5
        /\ (n + 1) + 1 = n + 2 /\ (n + 1) + 2 = n + 3 /\ (n + 3) + 1 = n + 4 /\ (n + 3) + 2 = n + 5
    BY <1>1, <1>5
  <2>2. /\ s[p + 1] = t[n + 1] /\ s[p + 2] = t[n + 2] /\ s[p + 3] = t[n + 3]
        /\ s[p + 4] = t[n + 4] /\ s[p + 5] = t[n + 5]
    BY <1>4
  <2> QED
    BY <2>1, <2>2
<1> QED
  BY <1>1, <1>5, <1>6 DEF BreakAt

LEMMA EncodedType == \A a \in Answers : Encoded(a) \in Seq(Symbols)
  BY AnswerShape

-----------------------------------------------------------------------------
(* The two buffers                                                           *)

\* A line ends inside the bytes that were read.
LEMMA LineInside ==
  ASSUME buf \in Seq(Symbols), HasLine
  PROVE  LineLen \in 0 .. Len(buf) - 2
<1> DEFINE I == {i \in 1 .. Len(buf) - 1 : IsBreak(i)}
<1>1. Len(buf) \in Nat
  OBVIOUS
<1>2. I \in SUBSET Nat /\ I # {}
  BY <1>1 DEF HasLine
<1>3. Min(I) \in I
  BY <1>2, MinIsLeast
<1> QED
  BY <1>1, <1>3 DEF LineLen

\* What is behind a part of the bytes is no longer than they are.
LEMMA BehindInside ==
  ASSUME buf \in Seq(Symbols), NEW n \in 0 .. Len(buf)
  PROVE  Behind(n) \in Seq(Symbols) /\ Len(Behind(n)) <= Len(buf)
  BY DEF Behind

\* The NUL behind a full r_buf does not shorten it.
LEMMA ReadTakes ==
  ASSUME IInv, NEW n \in 1 .. Len(wire), Read(n)
  PROVE  /\ buf' = buf \o SubSeq(wire, 1, n) /\ buf' \in Seq(Symbols)
         /\ Len(buf') = Len(buf) + n
<1> DEFINE t == buf \o SubSeq(wire, 1, n)
           m == Len(buf) + n
<1>1. buf \in Seq(Symbols) /\ wire \in Seq(Symbols)
  BY DEF IInv, TypeOK
<1>2. SubSeq(wire, 1, n) \in Seq(Symbols) /\ Len(SubSeq(wire, 1, n)) = n
  BY <1>1
<1>3. t \in Seq(Symbols) /\ Len(t) = m /\ m \in Nat
  BY <1>1, <1>2
<1>4. buf' = SubSeq(t, 1, Terminated(m))
  BY DEF Read
<1>5. Terminated(m) = m
  <2>1. ReadSize \in Nat /\ ReadSize % ByteRange = 0
    BY RequestAssumption, Zenon
  <2> HIDE DEF m
  <2> QED
    BY <1>3, <2>1 DEF Terminated
<1> HIDE DEF t, m
<1>6. SubSeq(t, 1, m) = t
  BY <1>3
<1> QED
  BY <1>3, <1>4, <1>5, <1>6 DEF t, m

\* A copy leaves room for the NUL.
LEMMA CopyInside ==
  ASSUME IInv, NEW n \in 0 .. Len(buf), Copy(n), size' = size
  PROVE  body' \in Seq(Symbols) /\ Len(body') < size'
<1> DEFINE room == size - 1 - Len(body)
           m == IF n < room THEN n ELSE room
<1>1. /\ buf \in Seq(Symbols) /\ body \in Seq(Symbols)
      /\ Len(buf) \in Nat /\ Len(body) \in Nat /\ size \in Nat /\ room \in Nat
  BY DEF IInv, TypeOK, WritesInBounds
<1>2. CASE room > 0
  <2>1. m \in 0 .. Len(buf) /\ m <= room
    BY <1>1, <1>2
  <2>2. /\ SubSeq(buf, 1, m) \in Seq(Symbols) /\ Len(SubSeq(buf, 1, m)) = m
    BY <1>1, <2>1
  <2>3. body' = body \o SubSeq(buf, 1, m)
    BY <1>2 DEF Copy
  <2> HIDE DEF m
  <2>4. Len(body') = Len(body) + m /\ body' \in Seq(Symbols)
    BY <1>1, <2>2, <2>3
  <2> QED
    BY <1>1, <2>1, <2>4
<1>3. CASE ~(room > 0)
  BY <1>1, <1>3 DEF Copy, IInv, WritesInBounds
<1> QED
  BY <1>2, <1>3

LEMMA CleanHeader == NoHeader \in Headers
  BY DEF NoHeader, Headers

LEMMA HeaderFields ==
  ASSUME IInv
  PROVE  hdr.status \in Nat /\ hdr.contentLength \in Nat
  BY DEF IInv, TypeOK, Headers

LEMMA SizesPositive ==
  InitialSize \in Nat /\ ReadSize \in Nat /\ 0 < InitialSize /\ 0 < ReadSize
  BY RequestAssumption

LEMMA EmptyString == <<>> \in Seq(Symbols) /\ Len(<<>>) = 0
  OBVIOUS

\* Connections, requests and reads.
LEMMA NetworkKeeps ==
  ASSUME IInv,
         \/ ServiceCloses \/ ConnectionBreaks
         \/ Connect \/ ConnectFails \/ Reuse \/ SendFails
         \/ \E a \in Answers : Send(a)
         \/ \E n \in 1 .. Len(wire) : Read(n)
         \/ ReadEnds \/ ReadFails
  PROVE  IInv'
<1> USE DEF IInv, TypeOK, WritesInBounds
<1>1. <<>> \in Seq(Symbols) /\ Len(<<>>) = 0
  OBVIOUS
<1>2. CASE ServiceCloses
  <2>1. PICK n \in 0 .. Len(wire) : wire' = SubSeq(wire, 1, n)
    BY <1>2 DEF ServiceCloses
  <2>2. wire' \in Seq(Symbols)
    BY <2>1
  <2> QED
    BY <1>2, <2>2 DEF ServiceCloses
<1>3. CASE ConnectionBreaks \/ Reuse
  BY <1>3 DEF ConnectionBreaks, Reuse
<1>4. CASE Connect \/ ConnectFails
  <2>1. wire' \in Seq(Symbols) /\ buf' \in Seq(Symbols) /\ Len(buf') = 0
    BY <1>1, <1>4 DEF Connect, ConnectFails, Fail
  <2>2. hdr' \in Headers
    BY <1>4, CleanHeader DEF Connect, ConnectFails
  <2>3. /\ headerEnd' \in BOOLEAN /\ length' = 0 /\ UNCHANGED <<size, body>>
        /\ code' \in Nat \cup {-1}
        /\ pc' \in {"send", "decide"} /\ conn' \in {"none", "open"}
    BY <1>4 DEF Connect, ConnectFails, Fail
  <2>4. WritesInBounds'
    BY <2>1, <2>3, SizesPositive
  <2>5. TypeOK'
    BY <2>1, <2>2, <2>3, SizesPositive
  <2> QED
    BY <2>4, <2>5
<1>5. CASE SendFails \/ ReadFails
  BY <1>1, <1>5 DEF SendFails, ReadFails, Fail
<1>6. ASSUME NEW a \in Answers, Send(a) PROVE IInv'
  <2>1. wire' \in Seq(Symbols)
    <3>1. Encoded(a) \in Seq(Symbols)
      BY EncodedType
    <3>2. wire \o Encoded(a) \in Seq(Symbols)
      BY <3>1
    <3>3. wire' = wire \o Encoded(a) \/ wire' = wire
      BY <1>6 DEF Send
    <3> QED
      BY <3>2, <3>3
  <2>2. hdr' \in Headers
    BY <1>6 DEF Send, Headers
  <2> QED
    <3>1. /\ buf' \in Seq(Symbols) /\ Len(buf') = 0
          /\ body' \in Seq(Symbols) /\ Len(body') = 0
      BY <1>1, <1>6 DEF Send
    <3>2. /\ headerEnd' \in BOOLEAN /\ pc' = "read"
          /\ UNCHANGED <<conn, length, size, code>>
      BY <1>6 DEF Send
    <3>3. WritesInBounds'
      BY <3>1, <3>2, SizesPositive
    <3>4. TypeOK'
      BY <2>1, <2>2, <3>1, <3>2, SizesPositive
    <3> QED
      BY <3>3, <3>4
<1>7. ASSUME NEW n \in 1 .. Len(wire), Read(n) PROVE IInv'
  <2>1. SubSeq(wire, n + 1, Len(wire)) \in Seq(Symbols)
    OBVIOUS
  <2>2. buf' \in Seq(Symbols) /\ Len(buf') = Len(buf) + n
    BY <1>7, ReadTakes
  <2> QED
    BY <1>7, <2>1, <2>2 DEF Read
<1>8. CASE ReadEnds
  BY <1>1, <1>8, HeaderFields DEF ReadEnds
<1> QED
  BY <1>2, <1>3, <1>4, <1>5, <1>6, <1>7, <1>8

\* What http_get leaves when the loop has ended.
LEMMA GotKeeps ==
  ASSUME IInv, Got
  PROVE  /\ pc' = "decide" /\ conn' \in {"none", "open", "closing", "broken"}
         /\ wire' \in Seq(Symbols) /\ code' \in Nat \cup {-1}
<1>1. <<>> \in Seq(Symbols)
  OBVIOUS
<1>2. hdr.status \in Nat
  BY DEF IInv, TypeOK, Headers
<1> QED
  BY <1>1, <1>2 DEF Got, IInv, TypeOK

\* The loop of http_parse.
LEMMA ParseKeeps ==
  ASSUME IInv, Parse
  PROVE  IInv'
<1>1. /\ buf \in Seq(Symbols) /\ Len(buf) \in Nat /\ Len(buf) <= ReadSize
      /\ hdr \in Headers /\ length \in Nat \cup {-1} /\ ReadSize \in Nat
      /\ <<>> \in Seq(Symbols) /\ Len(<<>>) = 0
  BY RequestAssumption DEF IInv, TypeOK, WritesInBounds
<1>2. CASE HeaderLine
  <2>1. LineLen + 2 \in 0 .. Len(buf) /\ Len(buf) >= 2
    BY <1>1, <1>2, LineInside DEF HeaderLine
  <2>2. buf' \in Seq(Symbols) /\ Len(buf') <= Len(buf)
    BY <1>1, <1>2, <2>1, BehindInside DEF HeaderLine
  <2>3. buf[1] \in Symbols
    BY <1>1, <2>1
  <2>4. buf[1].n \in Nat
    BY <2>3 DEF Symbols
  <2>5. WithHeader(buf[1]) \in Headers
    BY <1>1, <2>4 DEF WithHeader, Headers
  <2>6. hdr' \in Headers
    BY <1>2, <2>5 DEF HeaderLine
  <2> QED
    BY <1>1, <1>2, <2>2, <2>6 DEF HeaderLine, IInv, TypeOK, WritesInBounds
<1>3. CASE HeaderEnds
  <2>1. 2 \in 0 .. Len(buf)
    BY <1>1, <1>3, LineInside DEF HeaderEnds
  <2>2. buf' \in Seq(Symbols) /\ Len(buf') <= Len(buf)
    BY <1>1, <1>3, <2>1, BehindInside DEF HeaderEnds
  <2> QED
    BY <1>1, <1>3, <2>2, HeaderFields DEF HeaderEnds, IInv, TypeOK, WritesInBounds
<1>4. CASE LineToCome
  BY <1>4 DEF LineToCome, IInv, TypeOK, WritesInBounds
<1>5. CASE ChunkSize
  <2>1. LineLen + 2 \in 0 .. Len(buf) /\ LineLen \in Nat
    BY <1>1, <1>5, LineInside DEF ChunkSize
  <2>2. buf' \in Seq(Symbols) /\ Len(buf') <= Len(buf)
    BY <1>1, <1>5, <2>1, BehindInside DEF ChunkSize
  <2>3. \A i \in 1 .. Len(buf) : buf[i].n \in Nat
    <3>1. \A i \in 1 .. Len(buf) : buf[i] \in Symbols
      BY <1>1
    <3> QED
      BY <3>1 DEF Symbols
  <2>4. SizeIn(LineLen) \in Nat
    BY <1>1, <2>1, <2>3 DEF SizeIn
  <2>5. length' \in Nat /\ hdr' \in Headers
    <3>1. /\ length' = SizeIn(LineLen)
          /\ \/ hdr' = [hdr EXCEPT !.chunked = FALSE]
             \/ hdr' = [hdr EXCEPT !.contentLength = @ + length']
      BY <1>5 DEF ChunkSize
    <3>2. length' \in Nat
      BY <2>4, <3>1
    <3>3. hdr.contentLength + length' \in Nat
      BY <3>2, HeaderFields
    <3>4. hdr' \in Headers
      BY <1>1, <3>1, <3>3 DEF Headers
    <3> QED
      BY <3>2, <3>4
  <2> QED
    BY <1>1, <1>5, <2>2, <2>5 DEF ChunkSize, IInv, TypeOK, WritesInBounds
<1>6. CASE CopyAll
  <2>1. body' \in Seq(Symbols) /\ Len(body') < size'
    BY <1>1, <1>6, CopyInside DEF CopyAll
  <2>2. length' \in Nat
    BY <1>1, <1>6 DEF CopyAll
  <2>3. /\ conn' \in {"none", "open", "closing", "broken"} /\ wire' \in Seq(Symbols)
        /\ code' \in Nat \cup {-1} /\ pc' \in {"read", "decide"}
    <3>1. CASE Got
      BY <3>1, GotKeeps
    <3>2. CASE pc' = "read" /\ UNCHANGED <<conn, wire, code>>
      BY <3>2 DEF IInv, TypeOK
    <3> QED
      BY <1>6, <3>1, <3>2 DEF CopyAll
  <2> QED
    BY <1>1, <1>6, <2>1, <2>2, <2>3 DEF CopyAll, IInv, TypeOK, WritesInBounds
<1>7. CASE CopyChunk
  <2>1. length \in 1 .. Len(buf)
    BY <1>1, <1>7 DEF CopyChunk, AtData
  <2>2. body' \in Seq(Symbols) /\ Len(body') < size'
    BY <1>1, <1>7, <2>1, CopyInside DEF CopyChunk
  <2>3. buf' \in Seq(Symbols) /\ Len(buf') <= Len(buf)
    <3>1. CASE hdr.chunked /\ Len(buf) >= length + 2
      <4>1. length + 2 \in 0 .. Len(buf)
        BY <1>1, <2>1, <3>1
      <4> QED
        BY <1>1, <1>7, <3>1, <4>1, BehindInside DEF CopyChunk
    <3>2. CASE ~(hdr.chunked /\ Len(buf) >= length + 2)
      BY <1>1, <1>7, <3>2 DEF CopyChunk
    <3> QED
      BY <3>1, <3>2
  <2>4. /\ conn' \in {"none", "open", "closing", "broken"} /\ wire' \in Seq(Symbols)
        /\ code' \in Nat \cup {-1} /\ pc' \in {"parse", "decide"}
        /\ length' \in Nat \cup {-1}
    <3>1. CASE Got /\ UNCHANGED length
      BY <1>1, <3>1, GotKeeps
    <3>2. CASE length' = -1 /\ UNCHANGED <<pc, conn, wire, code>>
      BY <1>7, <3>2 DEF CopyChunk, IInv, TypeOK
    <3> QED
      BY <1>7, <3>1, <3>2 DEF CopyChunk
  <2> QED
    BY <1>1, <1>7, <2>2, <2>3, <2>4 DEF CopyChunk, IInv, TypeOK, WritesInBounds
<1>8. CASE ChunkBreak
  <2>1. buf' \in Seq(Symbols) /\ Len(buf') <= Len(buf)
    BY <1>1, <1>8, BehindInside DEF ChunkBreak
  <2> QED
    BY <1>1, <1>8, <2>1 DEF ChunkBreak, IInv, TypeOK, WritesInBounds
<1>9. CASE BodyEnds
  BY <1>1, <1>9, GotKeeps DEF BodyEnds, IInv, TypeOK, WritesInBounds
<1> QED
  BY <1>2, <1>3, <1>4, <1>5, <1>6, <1>7, <1>8, <1>9 DEF Parse

\* The loop of api_json_response.
LEMMA LoopKeeps ==
  ASSUME IInv, Repeat \/ Return
  PROVE  IInv'
<1>1. CASE Repeat
  BY <1>1, HeaderFields DEF Repeat, IInv, TypeOK, WritesInBounds
<1>2. CASE Return
  BY <1>2 DEF Return, IInv, TypeOK, WritesInBounds
<1> QED
  BY <1>1, <1>2

\* The invariant of a call of api_json_response.
LEMMA InitInside == Init => IInv
<1> SUFFICES ASSUME Init
             PROVE  IInv
  OBVIOUS
<1>1. WritesInBounds
  BY SizesPositive, EmptyString DEF Init, WritesInBounds
<1>2. TypeOK
  <2>1. /\ wire \in Seq(Symbols) /\ buf \in Seq(Symbols) /\ body \in Seq(Symbols)
        /\ Len(buf) <= ReadSize
    BY EmptyString, SizesPositive DEF Init
  <2>2. hdr \in Headers
    BY CleanHeader DEF Init
  <2>3. headerEnd \in BOOLEAN
    BY DEF Init
  <2>4. length \in Nat \cup {-1} /\ size \in Nat \ {0} /\ code \in Nat \cup {-1}
    BY SizesPositive DEF Init
  <2> QED
    BY <2>1, <2>2, <2>3, <2>4 DEF Init, TypeOK
<1> QED
  BY <1>1, <1>2 DEF IInv

LEMMA NextInside == IInv /\ [Next]_vars => IInv'
<1> SUFFICES ASSUME IInv, [Next]_vars
             PROVE  IInv'
  OBVIOUS
<1>1. CASE UNCHANGED vars
  BY <1>1 DEF vars, IInv, TypeOK, WritesInBounds
<1>2. CASE Client \/ ServiceCloses \/ ConnectionBreaks
  BY <1>2, NetworkKeeps, ParseKeeps, LoopKeeps DEF Client
<1> QED
  BY <1>1, <1>2 DEF Next, Done

LEMMA RequestInvariant == Spec => []IInv
  BY InitInside, NextInside, PTL DEF Spec

\* http_get never writes behind the buffer for the body, its NUL included, whatever
\* the answers, the sizes of the buffers, the ends of the reads and the network's
\* failures, and although the request is repeated with another buffer (https.c
\* 293-365, scryfall.c 27-38).
THEOREM RequestInBounds == Spec => []WritesInBounds
<1>1. IInv => WritesInBounds
  BY DEF IInv
<1> QED
  BY <1>1, RequestInvariant, PTL

\* Whatever the service sends, a symbol of it is taken for what it is or for
\* nothing: no length, size or status becomes negative but the two -1 of the code
\* (https.c 177-400, 701-827).
THEOREM TypeCorrect == Spec => []TypeOK
<1>1. IInv => TypeOK
  BY DEF IInv
<1> QED
  BY <1>1, RequestInvariant, PTL

-----------------------------------------------------------------------------
(* Answers                                                                   *)

LEMMA LeftBehind ==
  ASSUME IInv, NEW s \in Seq(Symbols), NEW p \in Nat, Left(s, p),
         NEW k \in 0 .. Len(buf), buf' = Behind(k), wire' = wire
  PROVE  Left(s, p + k)'
<1> DEFINE n == Len(buf)
           m == Len(wire)
           b == buf'
<1>1. buf \in Seq(Symbols) /\ wire \in Seq(Symbols) /\ n \in Nat /\ m \in Nat /\ k \in Nat
  BY DEF IInv, TypeOK
<1>2. b \in Seq(Symbols) /\ Len(b) = n - k /\ \A i \in 1 .. n - k : b[i] = buf[k + i]
  BY <1>1 DEF Behind
<1>3. /\ p + n + m <= Len(s) /\ \A i \in 1 .. n : buf[i] = s[p + i]
      /\ \A i \in 1 .. m : wire[i] = s[p + n + i]
  BY DEF Left
<1> HIDE DEF n, m, b
<1>4. p + k + (n - k) + m <= Len(s)
  BY <1>1, <1>3
<1>5. \A i \in 1 .. n - k : b[i] = s[p + k + i]
  <2> TAKE i \in 1 .. n - k
  <2>1. k + i \in 1 .. n /\ p + (k + i) = p + k + i
    BY <1>1
  <2>2. buf[k + i] = s[p + (k + i)]
    BY <1>3, <2>1
  <2> QED
    BY <1>2, <2>1, <2>2
<1>6. \A i \in 1 .. m : wire[i] = s[p + k + (n - k) + i]
  <2> TAKE i \in 1 .. m
  <2>1. p + k + (n - k) + i = p + n + i
    BY <1>1
  <2> QED
    BY <1>3, <2>1
<1> QED
  BY <1>2, <1>4, <1>5, <1>6 DEF Left, b, m

LEMMA LeftRead ==
  ASSUME IInv, NEW s \in Seq(Symbols), NEW p \in Nat, Left(s, p),
         NEW n \in 1 .. Len(wire), Read(n)
  PROVE  Left(s, p)'
<1> DEFINE k == Len(buf)
           m == Len(wire)
           b == buf'
           w == wire'
           front == SubSeq(wire, 1, n)
<1>1. buf \in Seq(Symbols) /\ wire \in Seq(Symbols) /\ k \in Nat /\ m \in Nat /\ n \in 1 .. m
  BY DEF IInv, TypeOK
<1>2. w = SubSeq(wire, n + 1, Len(wire)) /\ b = buf \o front
  BY ReadTakes DEF Read
<1>3. Len(w) = m - n /\ \A i \in 1 .. m - n : w[i] = wire[n + i]
  BY <1>1, <1>2, TailAt
<1>4. front \in Seq(Symbols) /\ Len(front) = n /\ \A i \in 1 .. n : front[i] = wire[i]
  BY <1>1
<1>5. /\ p + k + m <= Len(s) /\ \A i \in 1 .. k : buf[i] = s[p + i]
      /\ \A i \in 1 .. m : wire[i] = s[p + k + i]
  BY DEF Left
<1> HIDE DEF front
<1>6. Joined(b, buf, front)
  BY <1>1, <1>2, <1>4, Joins
<1>7. /\ Len(b) = k + n /\ \A i \in 1 .. k : b[i] = buf[i]
      /\ \A i \in 1 .. n : b[k + i] = front[i]
  BY <1>1, <1>4, <1>6 DEF Joined
<1> HIDE DEF k, m, b, w
<1>8. p + (k + n) + (m - n) <= Len(s)
  BY <1>1, <1>5
<1>9. \A i \in 1 .. k + n : b[i] = s[p + i]
  <2> TAKE i \in 1 .. k + n
  <2>1. CASE i \in 1 .. k
    BY <1>5, <1>7, <2>1
  <2>2. CASE i \notin 1 .. k
    <3>1. i - k \in 1 .. n /\ i - k \in 1 .. m /\ k + (i - k) = i /\ p + k + (i - k) = p + i
      BY <1>1, <2>2
    <3>2. b[k + (i - k)] = front[i - k] /\ front[i - k] = wire[i - k]
      BY <1>4, <1>7, <3>1
    <3> QED
      BY <1>5, <3>1, <3>2
  <2> QED
    BY <2>1, <2>2
<1>10. \A i \in 1 .. m - n : w[i] = s[p + (k + n) + i]
  <2> TAKE i \in 1 .. m - n
  <2>1. n + i \in 1 .. m /\ p + k + (n + i) = p + (k + n) + i
    BY <1>1
  <2> QED
    BY <1>3, <1>5, <2>1
<1> QED
  BY <1>3, <1>7, <1>8, <1>9, <1>10 DEF Left, b, w

LEMMA LeftCut ==
  ASSUME IInv, NEW s \in Seq(Symbols), NEW p \in Nat, Left(s, p),
         NEW n \in 0 .. Len(wire), wire' = SubSeq(wire, 1, n), buf' = buf
  PROVE  Left(s, p)'
<1>1. buf \in Seq(Symbols) /\ wire \in Seq(Symbols) /\ Len(buf) \in Nat /\ Len(wire) \in Nat
  BY DEF IInv, TypeOK
<1> DEFINE w == wire'
<1>2. Len(w) = n /\ \A i \in 1 .. n : w[i] = wire[i]
  BY <1>1
<1>3. /\ p + Len(buf) + Len(wire) <= Len(s) /\ \A i \in 1 .. Len(buf) : buf[i] = s[p + i]
      /\ \A i \in 1 .. Len(wire) : wire[i] = s[p + Len(buf) + i]
  BY DEF Left
<1> HIDE DEF w
<1>4. p + Len(buf) + n <= Len(s) /\ \A i \in 1 .. n : w[i] = s[p + Len(buf) + i]
  <2>1. Len(s) \in Nat
    OBVIOUS
  <2>2. p + Len(buf) + n <= Len(s)
    BY <1>1, <1>3, <2>1
  <2>3. ASSUME NEW i \in 1 .. n
        PROVE  w[i] = s[p + Len(buf) + i]
    <3>1. i \in 1 .. Len(wire)
      BY <1>1
    <3> QED
      BY <1>2, <1>3, <3>1
  <2> QED
    BY <2>2, <2>3
<1> QED
  BY <1>2, <1>3, <1>4 DEF Left, w

LEMMA LineIs ==
  \A s : \A p \in Nat : BreakAt(s, p, 0) => s[p + 1].is = "cr" /\ s[p + 2].is = "lf"
  BY SymIn DEF BreakAt, Kinds

\* In front of a line the parser finds just that.
LEMMA LineNext ==
  ASSUME IInv, NEW s \in Seq(Symbols), NEW p \in Nat, Left(s, p), HasLine,
         BreakAt(s, p + 1, 0), s[p + 1].is # "cr"
  PROVE  LineLen = 1 /\ Len(buf) >= 3 /\ buf[1] = s[p + 1]
<1> DEFINE I == {i \in 1 .. Len(buf) - 1 : IsBreak(i)}
<1>1. Len(buf) \in Nat /\ I \in SUBSET Nat /\ I # {}
  BY DEF IInv, TypeOK, HasLine
<1>2. \A i \in 1 .. Len(buf) : buf[i] = s[p + i]
  BY DEF Left
<1>3. Min(I) \in I /\ \A x \in I : Min(I) <= x
  BY <1>1, MinIsLeast
<1>4. Len(buf) >= 2 /\ buf[1] = s[p + 1]
  BY <1>1, <1>2
<1>5. 1 \notin I
  BY <1>4 DEF IsBreak
<1>6. Min(I) \in 2 .. Len(buf) - 1
  BY <1>1, <1>3, <1>5
<1>7. Len(buf) >= 3
  BY <1>1, <1>6
<1>8. buf[2].is = "cr" /\ buf[2 + 1].is = "lf"
  <2>1. buf[2] = s[p + 2] /\ buf[2 + 1] = s[p + 3]
    BY <1>1, <1>2, <1>7
  <2>2. s[(p + 1) + 1].is = "cr" /\ s[(p + 1) + 2].is = "lf"
    BY LineIs
  <2>3. (p + 1) + 1 = p + 2 /\ (p + 1) + 2 = p + 3
    OBVIOUS
  <2> QED
    BY <2>1, <2>2, <2>3
<1>9. 2 \in I
  BY <1>1, <1>7, <1>8 DEF IsBreak
<1>10. Min(I) = 2
  BY <1>3, <1>6, <1>9
<1> QED
  BY <1>4, <1>7, <1>10 DEF LineLen

\* In front of a break it finds no line.
LEMMA EndNext ==
  ASSUME IInv, NEW s \in Seq(Symbols), NEW p \in Nat, Left(s, p), HasLine, BreakAt(s, p, 0)
  PROVE  LineLen = 0 /\ Len(buf) >= 2
<1> DEFINE I == {i \in 1 .. Len(buf) - 1 : IsBreak(i)}
<1>1. Len(buf) \in Nat /\ I \in SUBSET Nat /\ I # {}
  BY DEF IInv, TypeOK, HasLine
<1>2. \A i \in 1 .. Len(buf) : buf[i] = s[p + i]
  BY DEF Left
<1>3. Min(I) \in I /\ \A x \in I : Min(I) <= x
  BY <1>1, MinIsLeast
<1>4. Len(buf) >= 2 /\ buf[1] = s[p + 1] /\ buf[1 + 1] = s[p + 2]
  BY <1>1, <1>2
<1>5. 1 \in I
  <2>1. buf[1].is = "cr" /\ buf[1 + 1].is = "lf"
    BY <1>4, LineIs
  <2> QED
    BY <1>1, <1>4, <2>1 DEF IsBreak
<1>6. Min(I) = 1
  BY <1>1, <1>3, <1>5
<1> QED
  BY <1>4, <1>6 DEF LineLen

\* What is copied is the next part of the body, or as much of it as fits.
LEMMA StoredMore ==
  ASSUME IInv, size > 1, NEW b \in Seq(Symbols), NEW n \in Nat, NEW k \in 0 .. Len(buf),
         n + k <= Len(b), Stored(b, n), Copy(k), size' = size,
         \A i \in 1 .. k : buf[i] = b[n + i]
  PROVE  Stored(b, n + k)' /\ (response' = response \/ IsPrefix(response', b))
<1> DEFINE had == IF n < size THEN n ELSE size - 1
           has == IF n + k < size THEN n + k ELSE size - 1
           room == size - 1 - Len(body)
           m == IF k < room THEN k ELSE room
<1>1. /\ buf \in Seq(Symbols) /\ body \in Seq(Symbols) /\ Len(buf) \in Nat /\ Len(b) \in Nat
      /\ size \in Nat /\ k \in Nat
  BY DEF IInv, TypeOK
<1>2. body = SubSeq(b, 1, had) /\ (n > 0 => response = body)
  BY DEF Stored
<1>3. had \in Nat /\ had <= Len(b) /\ had <= size - 1 /\ had <= n
  BY <1>1
<1>4. has \in Nat /\ has <= Len(b) /\ had <= has
  BY <1>1
<1>5. Len(body) = had /\ \A i \in 1 .. had : body[i] = b[i]
  <2> HIDE DEF had
  <2> QED
    BY <1>2, <1>3
<1>6. IsPrefix(SubSeq(b, 1, has), b)
  <2> HIDE DEF has
  <2>1. Len(SubSeq(b, 1, has)) = has
    BY <1>1, <1>4
  <2>2. SubSeq(SubSeq(b, 1, has), 1, has) = SubSeq(b, 1, has)
    BY <1>1, <1>4
  <2> QED
    BY <1>4, <2>1, <2>2 DEF IsPrefix
<1>7. CASE room > 0
  <2>1. had = n /\ m \in 0 .. k /\ n + m = has
    BY <1>1, <1>5, <1>7
  <2>2. body' = body \o SubSeq(buf, 1, m) /\ response' = body'
    BY <1>7 DEF Copy
  <2> DEFINE t == SubSeq(buf, 1, m)
             c == body'
             e == SubSeq(b, 1, has)
  <2> HIDE DEF had, has, m
  <2>3. t \in Seq(Symbols) /\ Len(t) = m /\ \A i \in 1 .. m : t[i] = buf[i]
    BY <1>1, <2>1
  <2>4. c = body \o t
    BY <2>2
  <2>5. e \in Seq(Symbols) /\ Len(e) = has /\ \A i \in 1 .. has : e[i] = b[i]
    BY <1>1, <1>4
  <2> HIDE DEF t, c, e
  <2>6. Joined(c, body, t)
    BY <1>1, <2>3, <2>4, Joins
  <2>7. /\ c \in Seq(Symbols) /\ Len(c) = has
        /\ \A i \in 1 .. n : c[i] = body[i]
        /\ \A i \in 1 .. m : c[n + i] = t[i]
    BY <1>5, <2>1, <2>3, <2>6 DEF Joined
  <2>8. \A i \in 1 .. has : c[i] = b[i]
    <3> TAKE i \in 1 .. has
    <3>1. CASE i \in 1 .. n
      BY <1>5, <2>1, <2>7, <3>1
    <3>2. CASE i \notin 1 .. n
      <4>1. i - n \in 1 .. m /\ i - n \in 1 .. k /\ n + (i - n) = i
        BY <1>1, <1>4, <2>1, <3>2
      <4>2. c[n + (i - n)] = t[i - n] /\ t[i - n] = buf[i - n] /\ buf[i - n] = b[n + (i - n)]
        BY <2>3, <2>7, <4>1
      <4> QED
        BY <4>1, <4>2
    <3> QED
      BY <3>1, <3>2
  <2>9. c = e
    BY <1>4, <2>5, <2>7, <2>8
  <2>10. body' = SubSeq(b, 1, has) /\ response' = body'
    BY <2>2, <2>9 DEF c, e
  <2>11. body' = SubSeq(b, 1, IF n + k < size' THEN n + k ELSE size' - 1)
    BY <2>10 DEF has
  <2>12. Stored(b, n + k)'
    BY <2>10, <2>11 DEF Stored
  <2> QED
    BY <1>6, <2>10, <2>12
<1>8. CASE ~(room > 0)
  <2>1. had = has /\ n > 0
    BY <1>1, <1>3, <1>5, <1>8
  <2>2. body' = body /\ response' = response
    BY <1>8 DEF Copy
  <2>3. body' = SubSeq(b, 1, IF n + k < size' THEN n + k ELSE size' - 1)
    BY <1>2, <2>1, <2>2
  <2>4. Stored(b, n + k)'
    BY <1>2, <2>1, <2>2, <2>3 DEF Stored
  <2> QED
    BY <2>2, <2>4
<1> QED
  BY <1>7, <1>8

\* The client keeps its place while bytes come or the connection ends.
LEMMA WithinKept ==
  ASSUME NEW a \in Answers, Within(a),
         UNCHANGED <<hdr, headerEnd, length, body, response, size>>,
         \A s \in Seq(Symbols), p \in Nat : Left(s, p) => Left(s, p)',
         pc' = "parse" => buf' # <<>> \/ (pc = "parse" /\ buf' = buf)
  PROVE  Within(a)'
<1>1. Encoded(a) \in Seq(Symbols)
  BY EncodedType
<1>2. ASSUME NEW p \in {0, 3, 6} \cup (IF a.close THEN {9} ELSE {}), InHeader(a, p)
      PROVE  InHeader(a, p)'
  <2>1. p \in Nat
    OBVIOUS
  <2>2. Left(Encoded(a), p)'
    BY <1>1, <1>2, <2>1 DEF InHeader
  <2> QED
    BY <1>2, <2>2 DEF InHeader
<1>3. ASSUME InBody(a)
      PROVE  InBody(a)'
  <2>1. Len(HeaderOf(a)) + Len(BodyOf(a)) - length \in Nat
    <3>1. Len(HeaderOf(a)) = HeaderLen(a) /\ HeaderLen(a) \in {8, 11}
      BY AnswerShape, HeaderShape
    <3>2. Len(BodyOf(a)) \in Nat /\ length \in 0 .. Len(BodyOf(a))
      BY <1>3, BodyType DEF InBody
    <3> QED
      BY <3>1, <3>2
  <2>2. Left(Encoded(a), Len(HeaderOf(a)) + Len(BodyOf(a)) - length)'
    BY <1>1, <1>3, <2>1 DEF InBody
  <2>3. Stored(BodyOf(a), Len(BodyOf(a)) - length)'
    BY <1>3 DEF InBody, Stored
  <2> QED
    BY <1>3, <2>2, <2>3 DEF InBody
<1>4. ASSUME NEW c \in 1 .. Len(a.chunks) + 1, AtChunk(a, c)
      PROVE  AtChunk(a, c)'
  <2>1. StartOf(a, c) \in Nat
    BY Starts
  <2>2. Left(Encoded(a), StartOf(a, c))'
    BY <1>1, <1>4, <2>1 DEF AtChunk
  <2>3. Stored(BodyOf(a), BytesBefore(a, c))'
    BY <1>4 DEF AtChunk, Stored
  <2> QED
    BY <1>4, <2>2, <2>3 DEF AtChunk
<1>5. ASSUME NEW c \in 1 .. Len(a.chunks), InChunk(a, c)
      PROVE  InChunk(a, c)'
  <2>1. StartOf(a, c) + 3 + Len(a.chunks[c]) - length \in Nat
    <3>1. StartOf(a, c) \in Nat /\ Len(a.chunks[c]) \in Nat
      BY <1>5, ChunkPlace DEF InChunk
    <3>2. length \in 0 .. Len(a.chunks[c])
      BY <1>5 DEF InChunk
    <3> QED
      BY <3>1, <3>2
  <2>2. Left(Encoded(a), StartOf(a, c) + 3 + Len(a.chunks[c]) - length)'
    BY <1>1, <1>5, <2>1 DEF InChunk
  <2>3. Stored(BodyOf(a), BytesBefore(a, c + 1) - length)'
    BY <1>5 DEF InChunk, Stored
  <2>4. length' = 0 /\ pc' = "parse" => buf' # <<>>
    BY <1>5 DEF InChunk
  <2> QED
    BY <1>5, <2>2, <2>3, <2>4 DEF InChunk
<1>6. ASSUME BehindChunks(a)
      PROVE  BehindChunks(a)'
  <2>1. Len(Encoded(a)) - 2 \in Nat
    BY AnswerShape, ContentShape, <1>6 DEF BehindChunks
  <2>2. Left(Encoded(a), Len(Encoded(a)) - 2)'
    BY <1>1, <1>6, <2>1 DEF BehindChunks
  <2>3. Stored(BodyOf(a), Len(BodyOf(a)))'
    BY <1>6 DEF BehindChunks, Stored
  <2> QED
    BY <1>6, <2>2, <2>3 DEF BehindChunks
<1> QED
  BY <1>2, <1>3, <1>4, <1>5, <1>6 DEF Within

LEMMA LastAnswer ==
  ASSUME answers \in Seq(Answers), answers # <<>>
  PROVE  /\ Last(answers) \in Answers /\ Len(answers) \in DOMAIN answers
         /\ Last(answers) = answers[Len(answers)]
  BY DEF Last

\* While the loop of http_parse runs, the client is at a place of the last answer.
LEMMA Parsing ==
  ASSUME AnswerInv, ~cut, pc = "parse"
  PROVE  /\ IInv /\ Followed /\ size > 1 /\ answers \in Seq(Answers) /\ answers # <<>>
         /\ Last(answers) \in Answers /\ Within(Last(answers))
<1>1. IInv /\ Followed /\ size > 1 /\ answers \in Seq(Answers)
  BY DEF AnswerInv
<1>2. answers # <<>> /\ Within(Last(answers))
  BY <1>1 DEF Followed, Placed, Silent
<1> QED
  BY <1>1, <1>2, LastAnswer

LEMMA NetworkFollows ==
  ASSUME AnswerInv, ~cut',
         \/ ServiceCloses \/ ConnectionBreaks
         \/ Connect \/ ConnectFails \/ Reuse \/ SendFails
         \/ \E a \in Answers : Send(a)
         \/ \E n \in 1 .. Len(wire) : Read(n)
         \/ ReadEnds \/ ReadFails
  PROVE  Followed'
<1>1. ~cut
  BY DEF ServiceCloses, ConnectionBreaks, Connect, ConnectFails, Reuse, SendFails,
         Send, Read, ReadEnds, ReadFails
<1>2. IInv /\ size > 1 /\ answers \in Seq(Answers) /\ Placed /\ Uncut /\ KeptClean /\ Fetched /\ OfOneAnswer
  BY <1>1 DEF AnswerInv, Followed
<1>3. /\ buf \in Seq(Symbols) /\ wire \in Seq(Symbols)
      /\ Len(buf) \in Nat /\ Len(wire) \in Nat
  BY <1>2 DEF IInv, TypeOK
<1>4. CASE ServiceCloses
  <2>1. PICK n \in 0 .. Len(wire) : wire' = SubSeq(wire, 1, n)
    BY <1>4 DEF ServiceCloses
  <2>2. conn = "open" /\ pc # "done" /\ conn' = "closing"
        /\ UNCHANGED <<pc, hdr, headerEnd, length, buf, size, body, response, code, answers, failed, cut>>
    BY <1>4 DEF ServiceCloses
  <2>3. Placed'
    <3> SUFFICES ASSUME pc' \in {"read", "parse"}
                 PROVE  (answers # <<>> /\ Within(Last(answers)))'
      BY DEF Placed
    <3>1. answers # <<>> /\ Within(Last(answers))
      BY <1>2, <2>2 DEF Placed, Silent
    <3>2. PICK a \in Answers : a = Last(answers)
      BY <1>2, <3>1, LastAnswer
    <3>3. \A s \in Seq(Symbols), p \in Nat : Left(s, p) => Left(s, p)'
      BY <1>2, <2>1, <2>2, LeftCut
    <3>4. Last(answers)' = a
      BY <2>2, <3>2 DEF Last
    <3>5. Within(a)
      BY <3>1, <3>2
    <3>6. Within(a)'
      BY <2>2, <3>2, <3>3, <3>5, WithinKept
    <3> QED
      BY <2>2, <3>1, <3>4, <3>6
  <2>4. Uncut'
    <3>1. buf' # <<>> => ~(Last(buf').is = "cr" /\ Last(buf').n > 0)
      BY <1>2, <2>2 DEF Uncut
    <3>2. wire' # <<>> => wire # <<>> /\ wire'[1] = wire[1]
      BY <1>3, <2>1
    <3> QED
      BY <1>2, <3>1, <3>2 DEF Uncut
  <2>5. KeptClean'
    BY <1>2, <1>3, <2>1, <2>2 DEF KeptClean
  <2>6. Fetched' /\ OfOneAnswer'
    BY <1>2, <2>2 DEF Fetched, Stored, OfOneAnswer, LastBody
  <2> QED
    BY <2>3, <2>4, <2>5, <2>6 DEF Followed
<1>5. CASE ConnectionBreaks
  <2>1. /\ conn = "open" /\ conn' = "broken"
        /\ UNCHANGED <<pc, wire, hdr, headerEnd, length, buf, size, body, response, code, answers, failed, cut>>
    BY <1>5 DEF ConnectionBreaks
  <2>2. Placed'
    <3> SUFFICES ASSUME pc' \in {"read", "parse"}
                 PROVE  (answers # <<>> /\ Within(Last(answers)))'
      BY DEF Placed
    <3>1. answers # <<>> /\ Within(Last(answers))
      BY <1>2, <2>1 DEF Placed, Silent
    <3>2. PICK a \in Answers : a = Last(answers)
      BY <1>2, <3>1, LastAnswer
    <3>3. \A s \in Seq(Symbols), p \in Nat : Left(s, p) => Left(s, p)'
      BY <2>1 DEF Left
    <3>4. Last(answers)' = a
      BY <2>1, <3>2 DEF Last
    <3>5. Within(a)
      BY <3>1, <3>2
    <3>6. Within(a)'
      BY <2>1, <3>2, <3>3, <3>5, WithinKept
    <3> QED
      BY <2>1, <3>1, <3>4, <3>6
  <2>3. Uncut' /\ KeptClean' /\ Fetched' /\ OfOneAnswer'
    BY <1>2, <2>1 DEF Uncut, KeptClean, Fetched, Stored, OfOneAnswer, LastBody
  <2> QED
    BY <2>2, <2>3 DEF Followed
<1>6. CASE Connect
  <2>1. /\ wire' = <<>> /\ hdr' = NoHeader /\ buf' = <<>> /\ pc' = "send" /\ conn' = "open"
        /\ UNCHANGED <<response, answers, failed>>
    BY <1>6 DEF Connect
  <2>2. OfOneAnswer'
    BY <1>2, <2>1 DEF OfOneAnswer
  <2> QED
    BY <2>1, <2>2 DEF Followed, Placed, Uncut, KeptClean, Fetched, NoHeader
<1>7. CASE ConnectFails \/ SendFails \/ ReadFails
  <2>1. /\ wire' = <<>> /\ buf' \in {<<>>, buf} /\ pc' = "decide" /\ conn' = "none"
        /\ response' = <<Sym("error", 0)>> /\ failed' = TRUE
    BY <1>7 DEF ConnectFails, SendFails, ReadFails, Fail
  <2>2. Uncut'
    BY <1>2, <2>1 DEF Uncut
  <2> QED
    BY <2>1, <2>2 DEF Followed, Placed, KeptClean, Fetched, OfOneAnswer
<1>8. CASE Reuse
  <2>1. /\ pc = "connect" /\ pc' = "send" /\ UNCHANGED <<conn, wire, hdr, buf, response, answers, failed>>
    BY <1>8 DEF Reuse
  <2>2. OfOneAnswer' /\ Uncut'
    BY <1>2, <2>1 DEF OfOneAnswer, Uncut
  <2> QED
    BY <1>2, <2>1, <2>2 DEF Followed, Placed, KeptClean, Fetched
<1>9. ASSUME NEW a \in Answers, Send(a)
      PROVE  Followed'
  <2>1. /\ pc = "send" /\ conn \in {"open", "closing"} /\ wire = <<>> /\ ~hdr.chunked
    BY <1>2, <1>9 DEF Send, KeptClean
  <2>2. /\ buf' = <<>> /\ headerEnd' = FALSE /\ body' = <<>> /\ pc' = "read"
        /\ UNCHANGED <<conn, size, response, failed>>
        /\ hdr' = [hdr EXCEPT !.status = 0, !.contentLength = 0, !.close = FALSE]
    BY <1>9 DEF Send
  <2>3. KeptClean' /\ Fetched'
    BY <2>2 DEF KeptClean, Fetched
  <2>4. CASE conn = "open"
    <3>1. answers' = Append(answers, a) /\ wire' = wire \o Encoded(a)
      BY <1>9, <2>4 DEF Send
    <3>2. Encoded(a) \in Seq(Symbols)
      BY EncodedType
    <3>3. wire' = Encoded(a)
      BY <2>1, <3>1, <3>2
    <3>4. answers' # <<>> /\ Last(answers') = a
      BY <1>2, <3>1 DEF Last
    <3>5. InHeader(a, 0)'
      <4>1. hdr'.status = 0 /\ hdr'.contentLength = 0 /\ ~hdr'.chunked /\ ~hdr'.close
        BY <1>2, <2>1, <2>2 DEF IInv, TypeOK, Headers
      <4>2. Left(Encoded(a), 0)'
        BY <2>2, <3>2, <3>3 DEF Left
      <4> QED
        BY <2>2, <4>1, <4>2 DEF InHeader
    <3>6. Placed'
      BY <3>4, <3>5 DEF Placed, Within
    <3>7. Uncut'
      <4>1. Encoded(a)[1].is = "status"
        <5>1. Encoded(a)[1] = Sym("status", a.status) /\ a.status \in Nat
          BY AnswerShape, AnswerFields
        <5> QED
          BY <5>1, SymIn DEF Kinds
      <4> QED
        BY <2>2, <3>3, <4>1 DEF Uncut
    <3>8. OfOneAnswer'
      <4>1. \A i \in DOMAIN answers : i \in DOMAIN answers' /\ answers'[i] = answers[i]
        BY <1>2, <3>1
      <4> QED
        BY <1>2, <2>2, <4>1 DEF OfOneAnswer
    <3> QED
      BY <2>3, <3>6, <3>7, <3>8 DEF Followed
  <2>5. CASE conn = "closing"
    <3>1. answers' = answers /\ wire' = <<>>
      BY <1>9, <2>1, <2>5 DEF Send
    <3>2. Placed' /\ Uncut'
      BY <2>2, <2>5, <3>1 DEF Placed, Silent, Uncut
    <3>3. OfOneAnswer'
      BY <1>2, <2>2, <3>1 DEF OfOneAnswer
    <3> QED
      BY <2>3, <3>2, <3>3 DEF Followed
  <2> QED
    BY <2>1, <2>4, <2>5
<1>10. ASSUME NEW n \in 1 .. Len(wire), Read(n)
       PROVE  Followed'
  <2>1. /\ pc = "read" /\ pc' = "parse"
        /\ UNCHANGED <<conn, hdr, headerEnd, length, size, body, response, code, answers, failed>>
    BY <1>10 DEF Read
  <2> DEFINE front == SubSeq(wire, 1, n)
  <2>2. buf' = buf \o front /\ wire' = SubSeq(wire, n + 1, Len(wire))
    <3>1. IInv
      BY <1>2
    <3>2. buf' = buf \o front
      BY <1>10, <3>1, ReadTakes
    <3> QED
      BY <1>10, <3>2 DEF Read
  <2>3. front \in Seq(Symbols) /\ Len(front) = n /\ \A i \in 1 .. n : front[i] = wire[i]
    BY <1>3
  <2>4. n \in Nat /\ n > 0 /\ n <= Len(wire)
    BY <1>3
  <2> HIDE DEF front
  <2>5. Joined(buf', buf, front)
    BY <1>3, <2>2, <2>3, Joins
  <2>6. buf' \in Seq(Symbols) /\ buf' # <<>> /\ Last(buf') = wire[n]
    <3>1. /\ buf' \in Seq(Symbols) /\ Len(buf') = Len(buf) + n
          /\ buf'[Len(buf) + n] = front[n]
      <4>1. /\ buf' \in Seq(Symbols) /\ Len(buf') = Len(buf) + n
            /\ \A i \in 1 .. n : buf'[Len(buf) + i] = front[i]
        BY <2>3, <2>5 DEF Joined
      <4> QED
        BY <2>4, <4>1
    <3>2. front[n] = wire[n]
      BY <2>3, <2>4
    <3>3. Len(buf') # 0
      BY <1>3, <2>4, <3>1
    <3> QED
      BY <3>1, <3>2, <3>3 DEF Last
  <2>7. Placed'
    <3>1. answers # <<>> /\ Within(Last(answers))
      BY <1>2, <2>1, <2>4 DEF Placed, Silent
    <3>2. PICK a \in Answers : a = Last(answers)
      BY <1>2, <3>1, LastAnswer
    <3>3. \A s \in Seq(Symbols), p \in Nat : Left(s, p) => Left(s, p)'
      BY <1>2, <1>10, LeftRead
    <3>4. Last(answers)' = a
      BY <2>1, <3>2 DEF Last
    <3>5. Within(a)
      BY <3>1, <3>2
    <3>6. Within(a)'
      BY <2>1, <2>6, <3>2, <3>3, <3>5, WithinKept
    <3> QED
      BY <2>1, <3>1, <3>4, <3>6 DEF Placed
  <2>8. Uncut'
    <3>1. /\ ~(wire[n].is = "cr" /\ wire[n].n > 0)
          /\ ~(n < Len(wire) /\ wire[n + 1].is = "cr" /\ wire[n + 1].n = 2)
      BY <1>10 DEF Read
    <3>2. wire' # <<>> => n < Len(wire) /\ wire'[1] = wire[n + 1]
      BY <1>3, <2>2, <2>4
    <3> QED
      BY <2>6, <3>1, <3>2 DEF Uncut
  <2>9. KeptClean' /\ Fetched'
    BY <2>1 DEF KeptClean, Fetched
  <2>10. OfOneAnswer'
    BY <1>2, <2>1 DEF OfOneAnswer
  <2> QED
    BY <2>7, <2>8, <2>9, <2>10 DEF Followed
<1>11. CASE ReadEnds
  <2>1. /\ pc' = "decide" /\ conn' = "none" /\ wire' = <<>> /\ failed' = TRUE
        /\ UNCHANGED <<buf, response, answers>>
    BY <1>11 DEF ReadEnds
  <2>2. Uncut'
    BY <1>2, <2>1 DEF Uncut
  <2>3. OfOneAnswer'
    BY <1>2, <2>1 DEF OfOneAnswer
  <2> QED
    BY <2>1, <2>2, <2>3 DEF Followed, Placed, KeptClean, Fetched
<1> QED
  BY <1>4, <1>5, <1>6, <1>7, <1>8, <1>9, <1>10, <1>11

LEMMA UncutBehind ==
  ASSUME IInv, Uncut, NEW k \in 0 .. Len(buf), buf' = Behind(k), wire' = wire
  PROVE  Uncut'
<1>1. buf \in Seq(Symbols) /\ Len(buf) \in Nat
  BY DEF IInv, TypeOK
<1>2. buf' # <<>> => buf # <<>> /\ Last(buf') = Last(buf)
  <2> DEFINE b == SubSeq(buf, k + 1, Len(buf))
  <2>1. Len(b) = Len(buf) - k /\ \A i \in 1 .. Len(buf) - k : b[i] = buf[k + i]
    BY <1>1
  <2>2. buf' = b
    BY DEF Behind
  <2> HIDE DEF b
  <2> SUFFICES ASSUME b # <<>>
               PROVE  buf # <<>> /\ Last(b) = Last(buf)
    BY <2>2
  <2>3. k < Len(buf)
    <3>1. Len(b) # 0
      BY <2>2, <1>1 DEF Behind
    <3> QED
      BY <1>1, <2>1, <3>1
  <2>4. b[Len(buf) - k] = buf[k + (Len(buf) - k)] /\ k + (Len(buf) - k) = Len(buf)
    BY <1>1, <2>1, <2>3
  <2> QED
    BY <1>1, <2>1, <2>3, <2>4 DEF Last
<1> QED
  BY <1>2 DEF Uncut

\* The loop goes on.
LEMMA GoesOnParsing ==
  ASSUME Followed, answers \in Seq(Answers), answers # <<>>,
         NEW a \in Answers, a = Last(answers), Within(a)', Uncut',
         pc' \in {"read", "parse"}, answers' = answers, failed' = failed,
         response' = response \/ IsPrefix(response', BodyOf(a))
  PROVE  Followed'
<1>1. Placed'
  <2>1. Last(answers') = a
    BY DEF Last
  <2> QED
    BY <2>1 DEF Placed
<1>2. OfOneAnswer'
  <2>1. CASE response' = response
    BY <2>1 DEF Followed, OfOneAnswer
  <2>2. CASE IsPrefix(response', BodyOf(a))
    BY <2>2, LastAnswer DEF OfOneAnswer
  <2> QED
    BY <2>1, <2>2
<1> QED
  BY <1>1, <1>2 DEF Followed, KeptClean, Fetched

LEMMA HeaderLineFollows ==
  ASSUME AnswerInv, ~cut, HeaderLine
  PROVE  Followed'
<1>1. /\ IInv /\ Followed /\ size > 1 /\ answers \in Seq(Answers) /\ answers # <<>>
      /\ Last(answers) \in Answers /\ Within(Last(answers)) /\ ~headerEnd /\ HasLine
  BY Parsing DEF HeaderLine
<1>2. PICK a \in Answers : a = Last(answers)
  BY <1>1
<1>3. PICK p \in {0, 3, 6} \cup (IF a.close THEN {9} ELSE {}) : InHeader(a, p)
  BY <1>1, <1>2 DEF Within, InBody, AtChunk, InChunk, BehindChunks
<1> DEFINE s == Encoded(a)
           h == HeaderLen(a)
<1>4. /\ s \in Seq(Symbols) /\ h \in {8, 11}
      /\ s[1] = Sym("status", a.status) /\ BreakAt(s, 1, 0)
      /\ s[4] = Coding(a) /\ BreakAt(s, 4, 0)
      /\ a.close => h = 11 /\ s[7] = Sym("close", 0) /\ BreakAt(s, 7, 0)
      /\ ~a.close => h = 8
      /\ BreakAt(s, h - 2, 0)
  BY AnswerShape
<1>5. Left(s, p) /\ p \in Nat
  BY <1>3 DEF InHeader
<1> HIDE DEF s, h
<1>6. p # h - 2
  <2> SUFFICES ASSUME p = h - 2
               PROVE  FALSE
    OBVIOUS
  <2>1. BreakAt(s, p, 0)
    BY <1>4
  <2>2. LineLen = 0
    BY <1>1, <1>4, <1>5, <2>1, EndNext
  <2> QED
    BY <2>2 DEF HeaderLine
<1>7. p \in {0, 3, 6} /\ (p = 6 => a.close)
  BY <1>3, <1>4, <1>6
<1>8. BreakAt(s, p + 1, 0)
  BY <1>4, <1>7
<1>9. /\ s[p + 1].is # "cr"
      /\ p = 0 => s[p + 1].is = "status" /\ s[p + 1].n = a.status
      /\ p = 3 /\ a.coded = "length" => s[p + 1].is = "length" /\ s[p + 1].n = Len(BodyOf(a))
      /\ p = 3 /\ a.coded = "chunked" => s[p + 1].is = "chunked"
      /\ p = 3 /\ a.coded = "none" => s[p + 1].is = "other"
      /\ p = 6 => s[p + 1].is = "close"
  <2>1. CASE p = 0
    BY <1>4, <2>1, AnswerFields, SymIn DEF Kinds
  <2>2. CASE p = 3
    BY <1>4, <2>2, CodingIs
  <2>3. CASE p = 6
    BY <1>4, <1>7, <2>3, SymIn DEF Kinds
  <2> QED
    BY <1>7, <2>1, <2>2, <2>3
<1>10. LineLen = 1 /\ Len(buf) >= 3 /\ buf[1] = s[p + 1]
  BY <1>1, <1>4, <1>5, <1>8, <1>9, LineNext
<1>11. /\ buf' = Behind(3) /\ 3 \in 0 .. Len(buf) /\ hdr' = WithHeader(s[p + 1])
       /\ UNCHANGED <<pc, wire, headerEnd, length, size, body, response, answers, failed>>
  <2>1. Len(buf) \in Nat
    BY <1>1 DEF IInv, TypeOK
  <2> QED
    BY <1>10, <2>1 DEF HeaderLine
<1>12. InHeader(a, p + 3)'
  <2>1. Left(s, p + 3)'
    BY <1>1, <1>4, <1>5, <1>11, LeftBehind
  <2>2. ~headerEnd' /\ body' = <<>>
    BY <1>3, <1>11 DEF InHeader
  <2>3. hdr \in Headers
    BY <1>1 DEF IInv, TypeOK
  <2>4. CASE p = 0
    <3>1. hdr' = [hdr EXCEPT !.status = a.status]
      BY <1>9, <1>11, <2>4 DEF WithHeader
    <3>2. hdr'.status = a.status /\ hdr'.contentLength = 0 /\ ~hdr'.chunked /\ ~hdr'.close
      BY <1>3, <2>3, <2>4, <3>1 DEF InHeader, Headers
    <3> QED
      BY <2>1, <2>2, <2>4, <3>2 DEF InHeader, s
  <2>5. CASE p = 3 /\ a.coded = "length"
    <3>1. hdr' = [hdr EXCEPT !.contentLength = Len(BodyOf(a))]
      BY <1>9, <1>11, <2>5 DEF WithHeader
    <3>2. hdr'.status = a.status /\ hdr'.contentLength = Len(BodyOf(a)) /\ ~hdr'.chunked /\ ~hdr'.close
      BY <1>3, <2>3, <2>5, <3>1 DEF InHeader, Headers
    <3> QED
      BY <2>1, <2>2, <2>5, <3>2 DEF InHeader, s
  <2>6. CASE p = 3 /\ a.coded = "chunked"
    <3>1. hdr' = [hdr EXCEPT !.chunked = TRUE]
      BY <1>9, <1>11, <2>6 DEF WithHeader
    <3>2. hdr'.status = a.status /\ hdr'.contentLength = 0 /\ hdr'.chunked /\ ~hdr'.close
      BY <1>3, <2>3, <2>6, <3>1 DEF InHeader, Headers
    <3> QED
      BY <2>1, <2>2, <2>6, <3>2 DEF InHeader, s
  <2>7. CASE p = 3 /\ a.coded = "none"
    <3>1. hdr' = hdr
      BY <1>9, <1>11, <2>7 DEF WithHeader
    <3>2. hdr'.status = a.status /\ hdr'.contentLength = 0 /\ ~hdr'.chunked /\ ~hdr'.close
      BY <1>3, <2>3, <2>7, <3>1 DEF InHeader, Headers
    <3> QED
      BY <2>1, <2>2, <2>7, <3>2 DEF InHeader, s
  <2>8. CASE p = 6
    <3>1. hdr' = [hdr EXCEPT !.close = TRUE]
      BY <1>9, <1>11, <2>8 DEF WithHeader
    <3>2. /\ hdr'.status = hdr.status /\ hdr'.contentLength = hdr.contentLength
          /\ hdr'.chunked = hdr.chunked /\ hdr'.close
      BY <2>3, <3>1 DEF Headers
    <3> QED
      BY <1>3, <2>1, <2>2, <2>8, <3>2 DEF InHeader, s
  <2> QED
    BY <1>7, <2>4, <2>5, <2>6, <2>7, <2>8, AnswerFields
<1>13. Within(a)'
  <2>1. p + 3 \in {0, 3, 6} \cup (IF a.close THEN {9} ELSE {})
    BY <1>7
  <2> QED
    BY <1>12, <2>1 DEF Within
<1>14. Uncut'
  BY <1>1, <1>11, UncutBehind DEF Followed
<1>15. pc = "parse"
  BY DEF HeaderLine
<1> QED
  BY <1>1, <1>2, <1>11, <1>13, <1>14, <1>15, GoesOnParsing

LEMMA HeaderEndsFollows ==
  ASSUME AnswerInv, ~cut, HeaderEnds
  PROVE  Followed'
<1>1. /\ IInv /\ Followed /\ size > 1 /\ answers \in Seq(Answers) /\ answers # <<>>
      /\ Last(answers) \in Answers /\ Within(Last(answers)) /\ ~headerEnd /\ HasLine
      /\ LineLen = 0
  BY Parsing DEF HeaderEnds
<1>2. PICK a \in Answers : a = Last(answers)
  BY <1>1
<1>3. PICK p \in {0, 3, 6} \cup (IF a.close THEN {9} ELSE {}) : InHeader(a, p)
  BY <1>1, <1>2 DEF Within, InBody, AtChunk, InChunk, BehindChunks
<1> DEFINE s == Encoded(a)
           h == HeaderLen(a)
<1>4. /\ s \in Seq(Symbols) /\ h \in {8, 11} /\ Len(s) = h + Len(Content(a))
      /\ s[1] = Sym("status", a.status) /\ BreakAt(s, 1, 0)
      /\ s[4] = Coding(a) /\ BreakAt(s, 4, 0)
      /\ a.close => h = 11 /\ s[7] = Sym("close", 0) /\ BreakAt(s, 7, 0)
      /\ ~a.close => h = 8
      /\ BreakAt(s, h - 2, 0)
  BY AnswerShape
<1>5. Left(s, p) /\ p \in Nat
  BY <1>3 DEF InHeader
<1> HIDE DEF s, h
<1>6. p = h - 2
  <2> SUFFICES ASSUME p # h - 2
               PROVE  FALSE
    OBVIOUS
  <2>1. p \in {0, 3, 6} /\ (p = 6 => a.close)
    BY <1>3, <1>4
  <2>2. BreakAt(s, p + 1, 0)
    BY <1>4, <2>1
  <2>3. s[p + 1].is # "cr"
    <3>1. CASE p = 0
      BY <1>4, <3>1, AnswerFields, SymIn DEF Kinds
    <3>2. CASE p = 3
      BY <1>4, <3>2, CodingIs
    <3>3. CASE p = 6
      BY <1>4, <2>1, <3>3, SymIn DEF Kinds
    <3> QED
      BY <2>1, <3>1, <3>2, <3>3
  <2>4. LineLen = 1
    BY <1>1, <1>4, <1>5, <2>2, <2>3, LineNext
  <2> QED
    BY <1>1, <2>4
<1>7. Len(buf) >= 2
  BY <1>1, <1>4, <1>5, <1>6, EndNext
<1>8. /\ buf' = Behind(2) /\ 2 \in 0 .. Len(buf) /\ headerEnd' = TRUE
      /\ length' = (IF hdr.chunked THEN -1 ELSE hdr.contentLength)
      /\ UNCHANGED <<pc, wire, hdr, size, body, response, answers, failed>>
  <2>1. Len(buf) \in Nat
    BY <1>1 DEF IInv, TypeOK
  <2> QED
    BY <1>7, <2>1 DEF HeaderEnds
<1>9. Left(s, h)'
  <2>1. Left(s, p + 2)'
    BY <1>1, <1>4, <1>5, <1>8, LeftBehind
  <2>2. p + 2 = h
    BY <1>4, <1>6
  <2> QED
    BY <2>1, <2>2
<1>10. /\ hdr.status = a.status /\ hdr.close = a.close /\ hdr \in Headers
       /\ a.coded # "chunked" => hdr.contentLength = Len(BodyOf(a)) /\ hdr.chunked = FALSE
       /\ a.coded = "chunked" => hdr.contentLength = 0 /\ hdr.chunked = TRUE
  <2>1. hdr \in Headers
    BY <1>1 DEF IInv, TypeOK
  <2>2. hdr.close \in BOOLEAN /\ hdr.chunked \in BOOLEAN
    BY <2>1 DEF Headers
  <2>3. p \in {6, 9} /\ (p = 9 <=> a.close)
    BY <1>3, <1>4, <1>6
  <2>4. hdr.close <=> a.close
    BY <1>3, <2>3 DEF InHeader
  <2>5. hdr.close = a.close
    BY <2>2, <2>4, AnswerFields
  <2>6. p > 0 /\ p > 3
    BY <2>3
  <2>7. a.coded = "none" => Len(BodyOf(a)) = 0
    BY BodyType
  <2>8. a.coded # "chunked" => hdr.contentLength = Len(BodyOf(a))
    BY <1>3, <2>6, <2>7, AnswerFields DEF InHeader
  <2> QED
    BY <1>3, <2>1, <2>2, <2>5, <2>6, <2>8 DEF InHeader
<1>11. Stored(BodyOf(a), 0)'
  <2>1. SubSeq(BodyOf(a), 1, 0) = <<>>
    BY BodyType
  <2>2. 0 < size'
    <3>1. size \in Nat /\ size' = size
      BY <1>1, <1>8 DEF IInv, TypeOK
    <3> QED
      BY <1>1, <3>1
  <2> QED
    BY <1>3, <1>8, <2>1, <2>2 DEF Stored, InHeader
<1>12. Within(a)'
  <2>1. CASE a.coded # "chunked"
    <3>1. hdr' = Header(a, Len(BodyOf(a)), FALSE)
      BY <1>8, <1>10, <2>1 DEF Header, Headers
    <3>2. length' = Len(BodyOf(a)) /\ Len(BodyOf(a)) \in Nat
      BY <1>8, <1>10, <2>1, BodyType
    <3>3. BodyEnd(a) - length' = h /\ Len(BodyOf(a)) - length' = 0
      BY <1>4, <2>1, <3>2, BodyEndIs DEF h
    <3>4. Left(s, BodyEnd(a) - length)' /\ Stored(BodyOf(a), Len(BodyOf(a)) - length)'
      <4>1. Left(s, BodyEnd(a) - length)'
        BY <1>9, <3>3 DEF Left, BodyEnd
      <4>2. Stored(BodyOf(a), Len(BodyOf(a)) - length)'
        BY <1>11, <3>3 DEF Stored
      <4> QED
        BY <4>1, <4>2
    <3>5. length' \in 0 .. Len(BodyOf(a))
      BY <3>2
    <3>6. Left(Encoded(a), Len(HeaderOf(a)) + Len(BodyOf(a)) - length)'
      <4>1. Len(HeaderOf(a)) + Len(BodyOf(a)) - length' = h
        <5>1. Len(HeaderOf(a)) = h /\ h \in Nat
          BY <1>4, HeaderShape DEF h
        <5> QED
          BY <3>2, <5>1
      <4>2. Left(Encoded(a), h)'
        BY <1>9 DEF s
      <4> QED
        BY <4>1, <4>2 DEF Left
    <3>7. InBody(a)'
      BY <1>8, <2>1, <3>1, <3>4, <3>5, <3>6 DEF InBody
    <3> QED
      BY <3>7 DEF Within
  <2>2. CASE a.coded = "chunked"
    <3>1. BytesBefore(a, 1) = 0 /\ StartOf(a, 1) = h
      BY BytesEnds, Starts DEF h
    <3>2. hdr' = Header(a, BytesBefore(a, 1), TRUE)
      BY <1>8, <1>10, <2>2, <3>1 DEF Header, Headers
    <3>3. AtChunk(a, 1)'
      BY <1>8, <1>9, <1>10, <1>11, <2>2, <3>1, <3>2 DEF AtChunk, s
    <3>4. 1 \in 1 .. Len(a.chunks) + 1
      BY AnswerFields
    <3> QED
      BY <3>3, <3>4 DEF Within
  <2> QED
    BY <2>1, <2>2, AnswerFields
<1>13. Uncut'
  BY <1>1, <1>8, UncutBehind DEF Followed
<1>14. pc = "parse"
  BY DEF HeaderEnds
<1> QED
  BY <1>1, <1>2, <1>8, <1>12, <1>13, <1>14, GoesOnParsing

LEMMA LineToComeFollows ==
  ASSUME AnswerInv, ~cut, LineToCome
  PROVE  Followed'
<1>1. /\ IInv /\ Followed /\ size > 1 /\ answers \in Seq(Answers) /\ answers # <<>>
      /\ Last(answers) \in Answers /\ Within(Last(answers))
  BY Parsing DEF LineToCome
<1>2. PICK a \in Answers : a = Last(answers)
  BY <1>1
<1>3. /\ pc' = "read"
      /\ UNCHANGED <<conn, wire, hdr, headerEnd, length, buf, size, body, response, answers, failed>>
  BY DEF LineToCome
<1>4. \A s \in Seq(Symbols), p \in Nat : Left(s, p) => Left(s, p)'
  BY <1>3 DEF Left
<1>5. Within(a)'
  BY <1>1, <1>2, <1>3, <1>4, WithinKept
<1>6. Uncut'
  BY <1>1, <1>3 DEF Followed, Uncut
<1> QED
  BY <1>1, <1>2, <1>3, <1>5, <1>6, GoesOnParsing

LEMMA ChunkSizeFollows ==
  ASSUME AnswerInv, ~cut, ChunkSize
  PROVE  Followed'
<1>1. /\ IInv /\ Followed /\ size > 1 /\ answers \in Seq(Answers) /\ answers # <<>>
      /\ Last(answers) \in Answers /\ Within(Last(answers)) /\ AtSize /\ HasLine
  BY Parsing DEF ChunkSize
<1>2. PICK a \in Answers : a = Last(answers)
  BY <1>1
<1>3. PICK c \in 1 .. Len(a.chunks) + 1 : AtChunk(a, c)
  BY <1>1, <1>2 DEF Within, InHeader, InBody, InChunk, BehindChunks, AtSize
<1> DEFINE s == Encoded(a)
           p == StartOf(a, c)
<1>4. s \in Seq(Symbols) /\ p \in Nat /\ a.coded = "chunked" /\ Left(s, p)
  BY <1>3, EncodedType, Starts DEF AtChunk
<1>5. c \in 1 .. Len(a.chunks) \/ c = Len(a.chunks) + 1
  BY AnswerFields
<1> DEFINE l == IF c \in 1 .. Len(a.chunks) THEN Len(a.chunks[c]) ELSE 0
<1>6. l \in Nat /\ s[p + 1] = Sym("size", l) /\ BreakAt(s, p + 1, 0)
  <2>1. CASE c \in 1 .. Len(a.chunks)
    BY <1>4, <2>1, ChunkPlace
  <2>2. CASE c = Len(a.chunks) + 1
    <3>1. c \notin 1 .. Len(a.chunks)
      BY <2>2, AnswerFields
    <3> QED
      BY <1>4, <2>2, <3>1, LastPlace
  <2> QED
    BY <1>5, <2>1, <2>2
<1> HIDE DEF s, p, l
<1>7. s[p + 1].is = "size" /\ s[p + 1].n = l
  BY <1>6, SymIn DEF Kinds
<1>8. LineLen = 1 /\ Len(buf) >= 3 /\ buf[1] = s[p + 1]
  BY <1>1, <1>4, <1>6, <1>7, LineNext
<1>9. SizeIn(LineLen) = l
  BY <1>7, <1>8 DEF SizeIn
<1>10. /\ buf' = Behind(3) /\ 3 \in 0 .. Len(buf) /\ length' = l
       /\ hdr' = (IF l = 0 THEN [hdr EXCEPT !.chunked = FALSE]
                  ELSE [hdr EXCEPT !.contentLength = @ + l])
       /\ UNCHANGED <<pc, wire, headerEnd, size, body, response, answers, failed>>
  <2>1. Len(buf) \in Nat
    BY <1>1 DEF IInv, TypeOK
  <2> QED
    BY <1>8, <1>9, <2>1 DEF ChunkSize
<1>11. Left(s, p + 3)'
  BY <1>1, <1>4, <1>10, LeftBehind
<1>12. /\ headerEnd /\ hdr = Header(a, BytesBefore(a, c), TRUE)
       /\ Stored(BodyOf(a), BytesBefore(a, c))
  BY <1>3 DEF AtChunk
<1>13. Stored(BodyOf(a), BytesBefore(a, c))'
  BY <1>10, <1>12 DEF Stored
<1>14. pc = "parse"
  BY DEF ChunkSize
<1>15. Within(a)'
  <2>1. CASE c \in 1 .. Len(a.chunks)
    <3>1. /\ l = Len(a.chunks[c]) /\ l > 0
      BY <1>4, <2>1, ChunkPlace DEF l
    <3>2. BytesBefore(a, c + 1) = BytesBefore(a, c) + l /\ BytesBefore(a, c) \in Nat
      BY <2>1, <3>1, Bytes
    <3>3. hdr' = Header(a, BytesBefore(a, c + 1), TRUE)
      <4>1. hdr' = [hdr EXCEPT !.contentLength = @ + l]
        BY <1>6, <1>10, <3>1
      <4>2. hdr.contentLength + l = BytesBefore(a, c + 1)
        BY <1>12, <3>2 DEF Header
      <4> HIDE DEF l
      <4> QED
        BY <1>12, <4>1, <4>2 DEF Header
    <3>4. p + 3 + Len(a.chunks[c]) - length' = p + 3
      BY <1>4, <1>6, <1>10, <3>1
    <3>5. BytesBefore(a, c + 1) - length' = BytesBefore(a, c)
      BY <1>6, <1>10, <3>2
    <3>6. length' \in 0 .. Len(a.chunks[c]) /\ length' # 0
      BY <1>6, <1>10, <3>1
    <3>7. InChunk(a, c)'
      BY <1>4, <1>10, <1>11, <1>12, <1>13, <3>3, <3>4, <3>5, <3>6 DEF InChunk, s, p
    <3> QED
      BY <2>1, <3>7 DEF Within
  <2>2. CASE c = Len(a.chunks) + 1
    <3>1. l = 0
      BY <2>2, AnswerFields DEF l
    <3>2. BytesBefore(a, c) = Len(BodyOf(a))
      BY <2>2, BytesEnds
    <3>3. hdr' = Header(a, Len(BodyOf(a)), FALSE)
      BY <1>10, <1>12, <3>1, <3>2 DEF Header
    <3>4. Len(s) - 2 = p + 3
      <4>1. Len(s) = p + 5
        BY <1>4, <2>2, LastPlace DEF s, p
      <4> QED
        BY <1>4, <4>1
    <3>5. BehindChunks(a)'
      BY <1>4, <1>10, <1>11, <1>12, <1>13, <3>1, <3>2, <3>3, <3>4 DEF BehindChunks, s
    <3> QED
      BY <3>5 DEF Within
  <2> QED
    BY <1>5, <2>1, <2>2
<1>16. Uncut'
  BY <1>1, <1>10, UncutBehind DEF Followed
<1> QED
  BY <1>1, <1>2, <1>10, <1>14, <1>15, <1>16, GoesOnParsing

\* What is left of the data that the client is at lies at p in s, and at n in b.
DataAt(s, b, p, n) ==
  /\ length \in Nat /\ Left(s, p) /\ Stored(b, n)
  /\ \A i \in 1 .. length : s[p + i] = b[n + i]

LEMMA BodyPlace ==
  ASSUME NEW a \in Answers, InBody(a)
  PROVE  /\ \E p \in Nat, n \in Nat :
              /\ DataAt(Encoded(a), BodyOf(a), p, n)
              /\ p + length = BodyEnd(a) /\ n + length = Len(BodyOf(a))
         /\ length > 0 => Len(Encoded(a)) = BodyEnd(a)
<1> DEFINE s == Encoded(a)
           b == BodyOf(a)
           h == HeaderLen(a)
           p == BodyEnd(a) - length
           n == Len(b) - length
<1>1. a.coded # "chunked" /\ length \in 0 .. Len(b) /\ Left(s, p) /\ Stored(b, n)
  BY DEF InBody, BodyEnd
<1>2. Len(b) \in Nat /\ (a.coded = "none" => Len(b) = 0)
  BY BodyType
<1>3. /\ h \in {8, 11} /\ BodyEnd(a) = h + Len(b) /\ \A i \in 1 .. Len(b) : s[h + i] = b[i]
      /\ Len(b) > 0 => Len(s) = BodyEnd(a)
  <2>1. a.coded # "none" => a.untold = <<>>
    BY AnswerFields
  <2>2. h \in {8, 11}
    BY DEF HeaderLen
  <2>3. BodyEnd(a) = h + Len(b)
    BY BodyEndIs
  <2>4. \A i \in 1 .. Len(b) : s[h + i] = b[i]
    BY <1>1, BodyEndIs
  <2>5. a.untold = <<>> => Len(s) = BodyEnd(a)
    BY <1>1, BodyEndIs
  <2> HIDE DEF s, b, h
  <2> QED
    BY <1>2, <2>1, <2>2, <2>3, <2>4, <2>5
<1> HIDE DEF s, b, h
<1>4. length \in Nat /\ p \in Nat /\ n \in Nat /\ p = h + n
  BY <1>1, <1>2, <1>3
<1>5. \A i \in 1 .. length : s[p + i] = b[n + i]
  <2> TAKE i \in 1 .. length
  <2>1. n + i \in 1 .. Len(b) /\ p + i = h + (n + i)
    <3>1. i \in Nat /\ i >= 1 /\ i <= length /\ length \in Nat /\ length <= Len(b)
      BY <1>1, <1>2
    <3>2. h \in Nat /\ Len(b) \in Nat /\ n = Len(b) - length /\ p = h + n
      BY <1>2, <1>3, <1>4
    <3> QED
      BY <3>1, <3>2
  <2> QED
    BY <1>3, <2>1
<1>6. p + length = BodyEnd(a) /\ n + length = Len(b)
  BY <1>1, <1>2, <1>3
<1>7. length > 0 => Len(s) = BodyEnd(a)
  BY <1>1, <1>2, <1>3
<1> HIDE DEF p, n
<1> QED
  BY <1>1, <1>4, <1>5, <1>6, <1>7 DEF DataAt, s, b

LEMMA DataPlace ==
  ASSUME NEW a \in Answers, NEW c \in 1 .. Len(a.chunks), InChunk(a, c)
  PROVE  \E p \in Nat, n \in Nat, q \in Nat, e \in Nat :
           /\ DataAt(Encoded(a), BodyOf(a), p, n)
           /\ q = StartOf(a, c) + 3 + Len(a.chunks[c]) /\ p + length = q
           /\ e = BytesBefore(a, c + 1) /\ n + length = e /\ e <= Len(BodyOf(a))
           /\ q + 2 = StartOf(a, c + 1) /\ BreakAt(Encoded(a), q, 1)
<1> DEFINE s == Encoded(a)
           b == BodyOf(a)
           d == a.chunks[c]
           l == Len(d)
           f == StartOf(a, c)
           m == BytesBefore(a, c)
           e == BytesBefore(a, c + 1)
           q == f + 3 + l
           p == q - length
           n == e - length
<1>1. a.coded = "chunked" /\ length \in 0 .. l /\ Left(s, p) /\ Stored(b, n)
  <2>1. a.coded = "chunked" /\ length \in 0 .. l
    BY DEF InChunk
  <2>2. Left(s, p)
    <3>1. Left(s, f + 3 + l - length)
      BY DEF InChunk
    <3>2. f \in Nat /\ l \in Nat
      BY <2>1, ChunkPlace
    <3> HIDE DEF f, l, s
    <3>3. f + 3 + l - length = p
      BY <2>1, <3>2
    <3> QED
      BY <3>1, <3>3
  <2>3. Stored(b, n)
    BY DEF InChunk
  <2> QED
    BY <2>1, <2>2, <2>3
<1>2. /\ f \in Nat /\ l \in Nat /\ StartOf(a, c + 1) = f + l + 5
      /\ \A i \in 1 .. l : s[f + 3 + i] = d[i]
      /\ BreakAt(s, q, 1)
  BY <1>1, ChunkPlace
<1>3. /\ m \in Nat /\ e = m + l /\ e <= Len(b)
      /\ \A i \in 1 .. l : b[m + i] = d[i]
  BY Bytes
<1> HIDE DEF s, b, d, l, f, m, e
<1>4. /\ length \in Nat /\ p \in Nat /\ n \in Nat /\ q \in Nat /\ e \in Nat
      /\ n + length = e /\ p + length = q /\ q + 2 = f + l + 5
  <2>1. f \in Nat /\ l \in Nat /\ m \in Nat /\ e = m + l /\ length \in 0 .. l
    BY <1>1, <1>2, <1>3
  <2> QED
    BY <2>1
<1>5. \A i \in 1 .. length : s[p + i] = b[n + i]
  <2> TAKE i \in 1 .. length
  <2> DEFINE j == l - length + i
  <2>1. j \in 1 .. l /\ p + i = f + 3 + j /\ n + i = m + j
    BY <1>1, <1>2, <1>3, <1>4
  <2> HIDE DEF j
  <2> QED
    BY <1>2, <1>3, <2>1
<1>6. q = StartOf(a, c) + 3 + Len(a.chunks[c]) /\ e = BytesBefore(a, c + 1)
      /\ StartOf(a, c + 1) = q + 2
  BY <1>2, <1>4 DEF f, d, l, e
<1>7. DataAt(s, b, p, n)
  BY <1>1, <1>4, <1>5 DEF DataAt
<1> HIDE DEF q, p, n
<1> QED
  BY <1>2, <1>3, <1>4, <1>6, <1>7 DEF s, b

\* The place that k bytes further is as many less from the end.
LEMMA FromTheEnd ==
  \A x, z, k, m, l \in Nat :
    x + l = z /\ k + m = l => x + k = z - m /\ m \in 0 .. z
  OBVIOUS

\* The answer has arrived, and nothing is left of it on the wire.
LEMMA ArrivedFollows ==
  ASSUME Followed, answers \in Seq(Answers), answers # <<>>,
         NEW a \in Answers, a = Last(answers), wire = <<>> \/ a.close,
         hdr = Header(a, Len(BodyOf(a)), FALSE), Got,
         Stored(BodyOf(a), Len(BodyOf(a)))', Uncut',
         hdr' = hdr, answers' = answers, failed' = failed,
         response' = response \/ IsPrefix(response', BodyOf(a))
  PROVE  Followed'
<1>1. pc' = "decide" /\ wire' = <<>> /\ code' = a.status /\ ~hdr'.chunked
      /\ hdr'.contentLength = Len(BodyOf(a))
  BY DEF Got, Header
<1>2. Last(answers') = a
  BY DEF Last
<1>3. Fetched'
  BY <1>1, <1>2 DEF Fetched, LastBody
<1>4. OfOneAnswer'
  <2>1. CASE response' = response
    BY <2>1 DEF Followed, OfOneAnswer
  <2>2. CASE IsPrefix(response', BodyOf(a))
    BY <2>2, LastAnswer DEF OfOneAnswer
  <2> QED
    BY <2>1, <2>2
<1> QED
  BY <1>1, <1>3, <1>4 DEF Followed, Placed, KeptClean

\* Data that goes on where the buffer ends is what the answer has there.
LEMMA DataIs ==
  ASSUME IInv, NEW s, NEW b, NEW p \in Nat, NEW n \in Nat, DataAt(s, b, p, n),
         NEW k \in 0 .. Len(buf), k <= length
  PROVE  \A i \in 1 .. k : buf[i] = b[n + i]
<1>1. Len(buf) \in Nat /\ length \in Nat
  BY DEF IInv, TypeOK, DataAt
<1> TAKE i \in 1 .. k
<1>2. i \in 1 .. Len(buf) /\ i \in 1 .. length
  BY <1>1
<1> QED
  BY <1>2 DEF DataAt, Left

LEMMA CopyAllFollows ==
  ASSUME AnswerInv, ~cut, CopyAll
  PROVE  Followed'
<1>1. /\ IInv /\ Followed /\ size > 1 /\ answers \in Seq(Answers) /\ answers # <<>>
      /\ Last(answers) \in Answers /\ Within(Last(answers))
      /\ headerEnd /\ ~AtSize /\ length > 0 /\ pc = "parse"
  BY Parsing DEF CopyAll, AtData
<1>2. PICK a \in Answers : a = Last(answers)
  BY <1>1
<1> DEFINE s == Encoded(a)
           b == BodyOf(a)
<1>3. /\ s \in Seq(Symbols) /\ b \in Seq(Symbols) /\ Len(s) \in Nat /\ Len(b) \in Nat
      /\ buf \in Seq(Symbols) /\ wire \in Seq(Symbols) /\ Len(buf) \in Nat /\ Len(wire) \in Nat
  BY <1>1, EncodedType, BodyType DEF IInv, TypeOK
<1> HIDE DEF s, b
<1>4. PICK k \in Nat : k = Len(buf)
  BY <1>3
<1>5. /\ k <= length /\ Copy(k) /\ length' = length - k /\ buf' = <<>>
      /\ UNCHANGED <<hdr, headerEnd, size, answers, failed>>
      /\ IF ~hdr.chunked /\ length' = 0 THEN Got ELSE pc' = "read" /\ wire' = wire
  BY <1>4 DEF CopyAll
<1>6. k \in 0 .. Len(buf) /\ buf' = Behind(k)
  BY <1>3, <1>4, <1>5 DEF Behind
<1>7. PICK l \in Nat, m \in Nat : l = length /\ m = length' /\ k + m = l
  <2>1. length \in Nat
    BY <1>1 DEF IInv, TypeOK
  <2>2. length' \in Nat /\ k + length' = length
    BY <1>5, <2>1
  <2> QED
    BY <2>1, <2>2
<1>8. Uncut'
  <2>1. wire' = wire \/ wire' = <<>>
    BY <1>5 DEF Got
  <2> QED
    BY <1>1, <1>5, <2>1 DEF Followed, Uncut
<1>9. ASSUME NEW p \in Nat, NEW n \in Nat, DataAt(s, b, p, n), n + l <= Len(b)
      PROVE  /\ Stored(b, n + k)' /\ (response' = response \/ IsPrefix(response', b))
             /\ wire' = wire => Left(s, p + k)'
  <2>1. Left(s, p) /\ Stored(b, n)
    BY <1>9 DEF DataAt
  <2>2. \A i \in 1 .. k : buf[i] = b[n + i]
    BY <1>1, <1>5, <1>6, <1>9, DataIs
  <2>3. n + k <= Len(b)
    <3> PICK z \in Nat : z = Len(b)
      BY <1>3
    <3>1. k + m = l /\ n + l <= z
      BY <1>7, <1>9
    <3>2. n + k <= z
      BY <3>1
    <3> QED
      BY <3>2
  <2>4. Stored(b, n + k)' /\ (response' = response \/ IsPrefix(response', b))
    BY <1>1, <1>3, <1>5, <1>6, <2>1, <2>2, <2>3, StoredMore
  <2>5. wire' = wire => Left(s, p + k)'
    BY <1>1, <1>3, <1>6, <2>1, LeftBehind
  <2> QED
    BY <2>4, <2>5
<1>10. CASE InBody(a)
  <2>1. PICK p \in Nat, n \in Nat :
             DataAt(s, b, p, n) /\ p + length = Len(s) /\ n + length = Len(b)
    BY <1>1, <1>10, BodyPlace DEF s, b
  <2>2. hdr = Header(a, Len(b), FALSE) /\ a.coded # "chunked" /\ Len(s) = BodyEnd(a)
    BY <1>1, <1>10, BodyPlace DEF InBody, s, b
  <2>3. p + l = Len(s) /\ n + l = Len(b)
    BY <1>7, <2>1
  <2>4. /\ Stored(b, n + k)' /\ (response' = response \/ IsPrefix(response', b))
        /\ wire' = wire => Left(s, p + k)'
    BY <1>3, <1>9, <2>1, <2>3
  <2>5. p + k = Len(s) - m /\ n + k = Len(b) - m /\ m \in 0 .. Len(b)
    <3>1. k + m = l
      BY <1>7
    <3> QED
      BY <1>3, <2>3, <3>1, FromTheEnd
  <2>6. CASE m = 0
    <3>1. Got
      BY <1>5, <1>7, <2>2, <2>6 DEF Header
    <3>2. n + k = Len(b) /\ p + k = Len(s)
      BY <1>3, <2>5, <2>6
    <3>3. wire = <<>>
      <4>1. p + k + Len(wire) <= Len(s)
        BY <1>4, <2>1 DEF DataAt, Left
      <4> QED
        BY <1>3, <3>2, <4>1
    <3>4. Stored(b, Len(b))'
      BY <2>4, <3>2
    <3> QED
      BY <1>1, <1>2, <1>5, <1>8, <2>2, <2>4, <3>1, <3>3, <3>4, ArrivedFollows DEF b
  <2>7. CASE m # 0
    <3>1. pc' = "read" /\ wire' = wire
      BY <1>5, <1>7, <2>7
    <3>2. Left(s, Len(s) - length)'
      BY <1>7, <2>4, <2>5, <3>1 DEF Left
    <3>3. Stored(b, Len(b) - length)'
      BY <1>7, <2>4, <2>5 DEF Stored
    <3>4. length' \in 0 .. Len(b)
      BY <1>7, <2>5
    <3>5. InBody(a)'
      BY <1>1, <1>5, <2>2, <3>2, <3>3, <3>4 DEF InBody, BodyEnd, s, b
    <3>6. Within(a)'
      BY <3>5 DEF Within
    <3> QED
      BY <1>1, <1>2, <1>5, <1>8, <2>4, <3>1, <3>6, GoesOnParsing DEF b
  <2> QED
    BY <2>6, <2>7
<1>11. ASSUME NEW c, c \in 1 .. Len(a.chunks) /\ InChunk(a, c)
       PROVE  Followed'
  <2>1. PICK p \in Nat, n \in Nat, q \in Nat, e \in Nat :
           /\ DataAt(s, b, p, n)
           /\ q = StartOf(a, c) + 3 + Len(a.chunks[c]) /\ p + length = q
           /\ e = BytesBefore(a, c + 1) /\ n + length = e /\ e <= Len(b)
    BY <1>11, DataPlace DEF s, b
  <2>2. /\ hdr = Header(a, BytesBefore(a, c + 1), TRUE) /\ a.coded = "chunked"
        /\ length \in 0 .. Len(a.chunks[c])
    BY <1>11 DEF InChunk
  <2>3. p + l = q /\ n + l = e
    BY <1>7, <2>1
  <2>4. /\ Stored(b, n + k)' /\ (response' = response \/ IsPrefix(response', b))
        /\ wire' = wire => Left(s, p + k)'
    BY <1>9, <2>1, <2>3
  <2>5. p + k = q - m /\ n + k = e - m
    <3>1. k + m = l
      BY <1>7
    <3> QED
      BY <2>3, <3>1, FromTheEnd
  <2>6. pc' = "read" /\ wire' = wire
    BY <1>5, <2>2 DEF Header
  <2>7. Left(s, StartOf(a, c) + 3 + Len(a.chunks[c]) - length)'
    <3> DEFINE f == StartOf(a, c)
               d == Len(a.chunks[c])
    <3>1. f \in Nat /\ d \in Nat
      BY <1>11, <2>2, ChunkPlace
    <3>2. q = f + 3 + d
      BY <2>1
    <3> HIDE DEF f, d
    <3>3. f + 3 + d - m = p + k
      BY <2>5, <3>1, <3>2
    <3>4. Left(s, p + k)'
      BY <2>4, <2>6
    <3>5. Left(s, f + 3 + d - length)'
      BY <1>7, <3>3, <3>4 DEF Left
    <3> QED
      BY <3>5 DEF f, d
  <2>8. Stored(b, BytesBefore(a, c + 1) - length)'
    BY <1>7, <2>1, <2>4, <2>5 DEF Stored
  <2>9. length' \in 0 .. Len(a.chunks[c])
    <3> PICK d \in Nat : d = Len(a.chunks[c])
      BY <1>11, AnswerFields
    <3>1. l \in 0 .. d /\ k + m = l
      BY <1>7, <2>2
    <3>2. m \in 0 .. d
      BY <3>1
    <3> QED
      BY <1>7, <3>2
  <2>10. InChunk(a, c)'
    BY <1>1, <1>5, <2>2, <2>6, <2>7, <2>8, <2>9 DEF InChunk, s, b
  <2>11. Within(a)'
    BY <1>11, <2>10 DEF Within
  <2> QED
    BY <1>1, <1>2, <1>5, <1>8, <2>4, <2>6, <2>11, GoesOnParsing DEF b
<1>12. InBody(a) \/ \E c \in 1 .. Len(a.chunks) : InChunk(a, c)
  BY <1>1, <1>2 DEF Within, InHeader, AtChunk, BehindChunks, AtSize, Header
<1> QED
  BY <1>10, <1>11, <1>12

LEMMA CopyChunkFollows ==
  ASSUME AnswerInv, ~cut, CopyChunk
  PROVE  Followed'
<1>1. /\ IInv /\ Followed /\ size > 1 /\ answers \in Seq(Answers) /\ answers # <<>>
      /\ Last(answers) \in Answers /\ Within(Last(answers))
      /\ headerEnd /\ ~AtSize /\ length > 0 /\ pc = "parse" /\ Len(buf) > length
  BY Parsing DEF CopyChunk, AtData
<1>2. PICK a \in Answers : a = Last(answers)
  BY <1>1
<1> DEFINE s == Encoded(a)
           b == BodyOf(a)
<1>3. /\ s \in Seq(Symbols) /\ b \in Seq(Symbols) /\ Len(s) \in Nat /\ Len(b) \in Nat
      /\ buf \in Seq(Symbols) /\ wire \in Seq(Symbols)
      /\ Len(buf) \in Nat /\ Len(wire) \in Nat
  BY <1>1, EncodedType, BodyType DEF IInv, TypeOK
<1>4. PICK l \in Nat : l = length
  <2>1. length \in Nat \cup {-1}
    BY <1>1 DEF IInv, TypeOK
  <2> QED
    BY <1>1, <2>1
<1> HIDE DEF s, b
<1>5. ~InBody(a)
  <2> SUFFICES ASSUME InBody(a)
               PROVE  FALSE
    OBVIOUS
  <2>1. Left(s, Len(s) - length)
    <3>1. Len(s) = BodyEnd(a)
      BY <1>1, BodyPlace DEF s
    <3> QED
      BY <3>1 DEF InBody, BodyEnd, s
  <2>2. Len(s) - l + Len(buf) + Len(wire) <= Len(s)
    BY <1>4, <2>1 DEF Left
  <2>3. Len(buf) > l
    BY <1>1, <1>4
  <2> QED
    BY <1>3, <1>4, <2>2, <2>3
<1>6. PICK c : c \in 1 .. Len(a.chunks) /\ InChunk(a, c)
  BY <1>1, <1>2, <1>5 DEF Within, InHeader, AtChunk, BehindChunks, AtSize, Header
<1>7. PICK p \in Nat, n \in Nat, q \in Nat, e \in Nat :
           /\ DataAt(s, b, p, n)
           /\ q = StartOf(a, c) + 3 + Len(a.chunks[c]) /\ p + length = q
           /\ e = BytesBefore(a, c + 1) /\ n + length = e /\ e <= Len(b)
           /\ q + 2 = StartOf(a, c + 1) /\ BreakAt(s, q, 1)
  BY <1>6, DataPlace DEF s, b
<1>8. /\ Left(s, p) /\ Stored(b, n) /\ p + l = q /\ n + l = e
      /\ \A i \in 1 .. l : s[p + i] = b[n + i]
  BY <1>4, <1>7 DEF DataAt
<1>9. hdr = Header(a, e, TRUE) /\ a.coded = "chunked"
  BY <1>6, <1>7 DEF InChunk
<1>10. Len(buf) >= l + 2
  <2> SUFFICES ASSUME Len(buf) = l + 1
               PROVE  FALSE
    BY <1>1, <1>3, <1>4
  <2>1. l + 1 \in 1 .. Len(buf) /\ p + (l + 1) = q + 1
    BY <1>8
  <2>2. buf[l + 1] = s[q + 1]
    BY <1>8, <2>1 DEF Left
  <2>3. Last(buf) = Sym("cr", 1)
    BY <1>7, <2>2 DEF BreakAt, Last
  <2>4. Last(buf).is = "cr" /\ Last(buf).n = 1
    BY <2>3, SymIn DEF Kinds
  <2>5. buf # <<>>
    BY <1>3, <1>4
  <2> QED
    BY <1>1, <2>4, <2>5 DEF Followed, Uncut
<1>11. /\ Copy(l) /\ buf' = Behind(l + 2) /\ length' = -1
       /\ UNCHANGED <<pc, wire, hdr, headerEnd, size, answers, failed>>
  BY <1>4, <1>9, <1>10 DEF CopyChunk, Header
<1>12. l \in 0 .. Len(buf) /\ l + 2 \in 0 .. Len(buf) /\ l <= l
  BY <1>3, <1>10
<1>13. \A i \in 1 .. l : buf[i] = b[n + i]
  <2> TAKE i \in 1 .. l
  <2>1. i \in 1 .. Len(buf)
    BY <1>3, <1>12
  <2>2. buf[i] = s[p + i]
    BY <1>8, <2>1 DEF Left
  <2> QED
    BY <1>8, <2>2
<1>14. Stored(b, n + l)' /\ (response' = response \/ IsPrefix(response', b))
  <2>1. n + l <= Len(b)
    BY <1>7, <1>8
  <2> QED
    BY <1>1, <1>3, <1>8, <1>11, <1>12, <1>13, <2>1, StoredMore
<1>15. Left(s, p + (l + 2))'
  BY <1>1, <1>3, <1>8, <1>11, <1>12, LeftBehind
<1>16. Left(s, StartOf(a, c + 1))'
  <2>1. p + (l + 2) = StartOf(a, c + 1)
    BY <1>7, <1>8
  <2> QED
    BY <1>15, <2>1
<1>17. AtChunk(a, c + 1)'
  <2>1. Stored(b, BytesBefore(a, c + 1))'
    BY <1>7, <1>8, <1>14
  <2>2. hdr' = Header(a, BytesBefore(a, c + 1), TRUE)
    BY <1>7, <1>9, <1>11
  <2> QED
    BY <1>1, <1>9, <1>11, <1>16, <2>1, <2>2 DEF AtChunk, s, b
<1>18. Within(a)'
  <2>1. c + 1 \in 1 .. Len(a.chunks) + 1
    BY <1>6, AnswerFields
  <2> QED
    BY <1>17, <2>1 DEF Within
<1>19. Uncut'
  BY <1>1, <1>11, <1>12, UncutBehind DEF Followed
<1> QED
  BY <1>1, <1>2, <1>11, <1>14, <1>18, <1>19, GoesOnParsing DEF b

LEMMA ChunkBreakFollows ==
  ASSUME AnswerInv, ~cut, ChunkBreak
  PROVE  Followed'
<1>1. /\ IInv /\ Followed /\ size > 1 /\ answers \in Seq(Answers) /\ answers # <<>>
      /\ Last(answers) \in Answers /\ Within(Last(answers))
      /\ headerEnd /\ hdr.chunked /\ length = 0 /\ pc = "parse"
  BY Parsing DEF ChunkBreak
<1>2. PICK a \in Answers : a = Last(answers)
  BY <1>1
<1>3. PICK c : c \in 1 .. Len(a.chunks) /\ InChunk(a, c)
  BY <1>1, <1>2 DEF Within, InHeader, InBody, AtChunk, BehindChunks, Header
<1> DEFINE s == Encoded(a)
           b == BodyOf(a)
<1>4. /\ s \in Seq(Symbols) /\ Len(s) \in Nat
      /\ buf \in Seq(Symbols) /\ Len(buf) # 0 /\ buf # <<>>
  BY <1>1, <1>3, EncodedType DEF IInv, TypeOK, InChunk
<1> PICK k \in Nat : k = Len(buf)
  BY <1>4
<1> HIDE DEF s, b
<1>5. PICK p \in Nat, n \in Nat, q \in Nat, e \in Nat :
           /\ DataAt(s, b, p, n)
           /\ q = StartOf(a, c) + 3 + Len(a.chunks[c]) /\ p + length = q
           /\ e = BytesBefore(a, c + 1) /\ n + length = e /\ e <= Len(b)
           /\ q + 2 = StartOf(a, c + 1) /\ BreakAt(s, q, 1)
  BY <1>3, DataPlace DEF s, b
<1>6. p = q /\ n = e /\ Left(s, q) /\ Stored(b, e)
  BY <1>1, <1>5 DEF DataAt
<1>7. hdr = Header(a, BytesBefore(a, c + 1), TRUE) /\ a.coded = "chunked"
  BY <1>3 DEF InChunk
<1>8. \A i \in 1 .. Len(buf) : buf[i] = s[q + i]
  BY <1>6 DEF Left
<1>9. k # 1
  <2> SUFFICES ASSUME Len(buf) = 1
               PROVE  FALSE
    OBVIOUS
  <2>2. Last(buf) = Sym("cr", 1)
    BY <1>5, <1>8 DEF BreakAt, Last
  <2>3. Last(buf).is = "cr" /\ Last(buf).n = 1
    BY <2>2, SymIn DEF Kinds
  <2> QED
    BY <1>1, <1>4, <2>3 DEF Followed, Uncut
<1>10. k >= 2
  <2>1. k # 0
    BY <1>4
  <2> QED
    BY <1>9, <2>1
<1>11. IsBreak(1)
  <2>1. buf[1] = Sym("cr", 1) /\ buf[2] = Sym("lf", 1)
    <3>1. 1 \in 1 .. Len(buf) /\ 2 \in 1 .. Len(buf)
      BY <1>10
    <3> QED
      BY <1>5, <1>8, <3>1 DEF BreakAt
  <2> QED
    BY <2>1, SymIn DEF IsBreak, Kinds
<1>12. buf' = Behind(2) /\ 2 \in 0 .. Len(buf)
  <2>1. buf' = IF Len(buf) > 2 THEN Behind(2) ELSE <<>>
    BY <1>11 DEF ChunkBreak
  <2>2. Len(buf) = 2 => Behind(2) = <<>>
    BY <1>4 DEF Behind
  <2>3. k = 2 \/ k > 2
    BY <1>10
  <2>4. buf' = Behind(2)
    BY <2>1, <2>2, <2>3
  <2> QED
    BY <1>4, <1>10, <2>4
<1>13. /\ length' = -1
       /\ UNCHANGED <<pc, wire, hdr, headerEnd, size, body, response, answers, failed>>
  BY DEF ChunkBreak
<1>14. Left(s, StartOf(a, c + 1))'
  <2>1. Left(s, q + 2)'
    BY <1>1, <1>4, <1>6, <1>12, <1>13, LeftBehind
  <2> QED
    BY <1>5, <2>1
<1>15. Stored(b, BytesBefore(a, c + 1))'
  BY <1>5, <1>6, <1>13 DEF Stored
<1>16. AtChunk(a, c + 1)'
  BY <1>1, <1>7, <1>13, <1>14, <1>15 DEF AtChunk, s, b
<1>17. Within(a)'
  <2>1. c + 1 \in 1 .. Len(a.chunks) + 1
    BY <1>3, AnswerFields
  <2> QED
    BY <1>16, <2>1 DEF Within
<1>18. Uncut'
  BY <1>1, <1>12, <1>13, UncutBehind DEF Followed
<1> QED
  BY <1>1, <1>2, <1>13, <1>17, <1>18, GoesOnParsing

LEMMA BodyEndsFollows ==
  ASSUME AnswerInv, ~cut, BodyEnds
  PROVE  Followed'
<1>1. /\ IInv /\ Followed /\ size > 1 /\ answers \in Seq(Answers) /\ answers # <<>>
      /\ Last(answers) \in Answers /\ Within(Last(answers))
      /\ headerEnd /\ ~hdr.chunked /\ length = 0
  BY Parsing DEF BodyEnds
<1>2. PICK a \in Answers : a = Last(answers)
  BY <1>1
<1> DEFINE s == Encoded(a)
           b == BodyOf(a)
<1>3. /\ Len(s) \in Nat /\ Len(b) \in Nat
      /\ buf \in Seq(Symbols) /\ wire \in Seq(Symbols) /\ Len(buf) \in Nat /\ Len(wire) \in Nat
  BY <1>1, EncodedType, BodyType DEF IInv, TypeOK
<1>4. hdr = Header(a, Len(b), FALSE) /\ (wire = <<>> \/ a.close) /\ Stored(b, Len(b))
  <2>1. CASE InBody(a)
    <3>1. /\ hdr = Header(a, Len(b), FALSE) /\ a.coded # "chunked"
          /\ Left(s, BodyEnd(a) - length) /\ Stored(b, Len(b) - length)
      BY <2>1 DEF InBody, BodyEnd
    <3>2. a.close \/ Len(s) = BodyEnd(a)
      BY <3>1, AnswerFields, BodyEndIs
    <3>3. BodyEnd(a) \in Nat
      BY BodyEndIs
    <3> HIDE DEF s, b
    <3>4. BodyEnd(a) - length = BodyEnd(a) /\ Len(b) - length = Len(b)
      BY <1>1, <1>3, <3>3
    <3>5. BodyEnd(a) + Len(buf) + Len(wire) <= Len(s)
      BY <3>1, <3>4 DEF Left
    <3>6. a.close \/ Len(wire) = 0
      BY <1>3, <3>2, <3>3, <3>5
    <3> QED
      BY <1>3, <3>1, <3>4, <3>6
  <2>2. CASE BehindChunks(a)
    <3>1. /\ hdr = Header(a, Len(b), FALSE) /\ Left(s, Len(s) - 2) /\ Stored(b, Len(b))
          /\ a.coded = "chunked"
      BY <2>2 DEF BehindChunks
    <3> DEFINE p == Len(s) - 2
    <3>2. s[p + 1] = Sym("cr", 2) /\ p \in Nat /\ p + 2 = Len(s)
      <4> DEFINE t == StartOf(a, Len(a.chunks) + 1)
      <4>1. t \in Nat /\ Len(s) = t + 5 /\ BreakAt(s, t + 3, 2)
        BY <3>1, LastPlace
      <4> HIDE DEF s, t
      <4>2. p = t + 3
        BY <4>1
      <4> QED
        BY <4>1, <4>2 DEF BreakAt
    <3>3. s[p + 1].is = "cr" /\ s[p + 1].n = 2
      BY <3>2, SymIn DEF Kinds
    <3> HIDE DEF s, b
    <3>4. /\ p + Len(buf) + Len(wire) <= Len(s)
          /\ \A i \in 1 .. Len(buf) : buf[i] = s[p + i]
          /\ \A i \in 1 .. Len(wire) : wire[i] = s[p + Len(buf) + i]
      BY <3>1 DEF Left
    <3> HIDE DEF p
    <3>5. Len(buf) # 0 \/ wire = <<>>
      <4> SUFFICES ASSUME Len(buf) = 0, wire # <<>>
                   PROVE  FALSE
        OBVIOUS
      <4>1. Len(wire) >= 1
        BY <1>3
      <4>2. wire[1] = s[p + Len(buf) + 1] /\ p + Len(buf) + 1 = p + 1
        BY <1>3, <3>2, <3>4, <4>1
      <4> QED
        BY <1>1, <3>3, <4>2 DEF Followed, Uncut
    <3>6. Len(buf) # 1
      <4> SUFFICES ASSUME Len(buf) = 1
                   PROVE  FALSE
        OBVIOUS
      <4>1. buf[1] = s[p + 1] /\ Last(buf) = buf[1] /\ buf # <<>>
        <5>1. 1 \in 1 .. Len(buf)
          OBVIOUS
        <5>2. buf[1] = s[p + 1]
          BY <3>4, <5>1
        <5>3. Last(buf) = buf[1]
          BY DEF Last
        <5>4. buf # <<>>
          OBVIOUS
        <5> QED
          BY <5>2, <5>3, <5>4
      <4> QED
        BY <1>1, <3>3, <4>1 DEF Followed, Uncut
    <3>7. wire = <<>>
      <4> SUFFICES ASSUME wire # <<>>
                   PROVE  FALSE
        OBVIOUS
      <4>1. Len(wire) >= 1 /\ Len(buf) >= 2
        <5>1. Len(wire) # 0 /\ Len(buf) # 0 /\ Len(buf) # 1
          BY <1>3, <3>5, <3>6
        <5>2. Len(wire) \in Nat /\ Len(buf) \in Nat
          BY <1>3
        <5> QED
          BY <5>1, <5>2
      <4>2. p + Len(buf) + Len(wire) <= p + 2
        BY <3>2, <3>4
      <4> QED
        BY <1>3, <3>2, <4>1, <4>2
    <3> QED
      BY <3>1, <3>7
  <2> QED
    BY <1>1, <1>2, <2>1, <2>2 DEF Within, InHeader, AtChunk, InChunk, Header
<1>5. Got /\ UNCHANGED <<hdr, buf, size, body, response, answers, failed>>
  BY DEF BodyEnds
<1>6. Stored(b, Len(b))'
  BY <1>4, <1>5 DEF Stored
<1>7. Uncut'
  BY <1>1, <1>4, <1>5 DEF Followed, Uncut, Got
<1> QED
  BY <1>1, <1>2, <1>4, <1>5, <1>6, <1>7, ArrivedFollows

LEMMA LoopFollows ==
  ASSUME AnswerInv, ~cut, Repeat \/ Return
  PROVE  Followed'
<1>1. Uncut /\ KeptClean /\ Fetched /\ OfOneAnswer /\ IInv
  BY DEF AnswerInv, Followed
<1>2. CASE Repeat
  <2>1. /\ pc = "decide" /\ pc' = "connect"
        /\ UNCHANGED <<conn, wire, hdr, buf, response, answers, failed>>
    BY <1>2 DEF Repeat
  <2> QED
    BY <1>1, <2>1 DEF Followed, Placed, Uncut, KeptClean, Fetched, OfOneAnswer
<1>3. CASE Return
  <2>1. /\ pc = "decide" /\ pc' = "done" /\ conn' = "none" /\ wire' = <<>>
        /\ UNCHANGED <<hdr, buf, size, body, response, code, answers, failed>>
    BY <1>3 DEF Return
  <2>2. Fetched'
    BY <1>1, <2>1 DEF Fetched, Stored, LastBody
  <2> QED
    BY <1>1, <2>1, <2>2 DEF Followed, Placed, Uncut, KeptClean, OfOneAnswer
<1> QED
  BY <1>2, <1>3

LEMMA FollowedStays ==
  ASSUME Followed, UNCHANGED vars, answers \in Seq(Answers)
  PROVE  Followed'
<1>1. Placed'
  <2> SUFFICES ASSUME pc' \in {"read", "parse"}, ~Silent'
               PROVE  (answers # <<>> /\ Within(Last(answers)))'
    BY DEF Placed
  <2>1. answers # <<>> /\ Within(Last(answers))
    BY DEF Followed, Placed, Silent, vars
  <2>2. PICK a \in Answers : a = Last(answers)
    BY <2>1, LastAnswer
  <2>3. \A s \in Seq(Symbols), p \in Nat : Left(s, p) => Left(s, p)'
    BY DEF Left, vars
  <2>4. Last(answers)' = a
    BY <2>2 DEF Last, vars
  <2>5. Within(a)
    BY <2>1, <2>2
  <2>6. Within(a)'
    BY <2>3, <2>5, WithinKept DEF vars
  <2> QED
    BY <2>1, <2>4, <2>6 DEF vars
<1>2. Uncut' /\ KeptClean' /\ OfOneAnswer'
  BY DEF Followed, Uncut, KeptClean, OfOneAnswer, vars
<1>3. Fetched'
  BY DEF Followed, Fetched, Stored, LastBody, vars
<1> QED
  BY <1>1, <1>2, <1>3 DEF Followed

\* What the invariant says of the buffer's size and of the answers, cut or not.
LEMMA AnswersKept ==
  ASSUME AnswerInv, [Next]_vars
  PROVE  /\ size' > 1 /\ answers' \in Seq(Answers)
         /\ pc' = "done" => hdr'.contentLength <= size'
<1>1. IInv /\ size > 1 /\ answers \in Seq(Answers) /\ size \in Nat
      /\ (pc = "done" => hdr.contentLength <= size) /\ hdr.contentLength \in Nat
  BY HeaderFields DEF AnswerInv, IInv, TypeOK
<1>2. ASSUME NEW a \in Answers, Send(a)
      PROVE  size' > 1 /\ answers' \in Seq(Answers) /\ pc' = "read"
  <2>1. answers' = Append(answers, a) \/ answers' = answers
    BY <1>2 DEF Send
  <2>2. size' = size /\ pc' = "read"
    BY <1>2 DEF Send
  <2>3. answers' \in Seq(Answers)
    BY <1>1, <2>1
  <2> QED
    BY <1>1, <2>2, <2>3
<1>3. CASE Repeat
  <2>1. hdr.contentLength > size /\ size' = hdr.contentLength + 1
        /\ pc' = "connect" /\ answers' = answers
    BY <1>3 DEF Repeat
  <2> QED
    BY <1>1, <2>1
<1>4. CASE Return
  BY <1>1, <1>4 DEF Return
<1>5. CASE \/ Connect \/ ConnectFails \/ Reuse \/ SendFails \/ ReadEnds \/ ReadFails
           \/ \E n \in 1 .. Len(wire) : Read(n)
  <2>1. size' = size /\ answers' = answers /\ pc' # "done"
    BY <1>5 DEF Connect, ConnectFails, Reuse, SendFails, ReadEnds, ReadFails, Read, Fail
  <2> QED
    BY <1>1, <2>1
<1>6. CASE Parse
  <2>1. size' = size /\ answers' = answers /\ pc' # "done"
    BY <1>6 DEF Parse, HeaderLine, HeaderEnds, LineToCome, ChunkSize, CopyAll, CopyChunk,
                ChunkBreak, BodyEnds, Got
  <2> QED
    BY <1>1, <2>1
<1>7. CASE ServiceCloses \/ ConnectionBreaks \/ Done \/ UNCHANGED vars
  <2>1. UNCHANGED <<size, answers, pc, hdr>>
    BY <1>7 DEF ServiceCloses, ConnectionBreaks, Done, vars
  <2> QED
    BY <1>1, <2>1
<1> QED
  BY <1>2, <1>3, <1>4, <1>5, <1>6, <1>7 DEF Next, Client

LEMMA AnswerInvariant == Spec => []AnswerInv
<1>1. Init => AnswerInv
  <2> SUFFICES ASSUME Init
               PROVE  AnswerInv
    OBVIOUS
  <2>1. IInv
    BY InitInside
  <2>2. size > 1 /\ answers \in Seq(Answers) /\ pc # "done"
    BY RequestAssumption DEF Init
  <2>3. Followed
    BY DEF Init, Followed, Placed, Uncut, KeptClean, Fetched, OfOneAnswer
  <2> QED
    BY <2>1, <2>2, <2>3 DEF AnswerInv
<1>2. AnswerInv /\ [Next]_vars => AnswerInv'
  <2> SUFFICES ASSUME AnswerInv, [Next]_vars
               PROVE  AnswerInv'
    OBVIOUS
  <2>1. IInv'
    BY NextInside DEF AnswerInv
  <2>2. /\ size' > 1 /\ answers' \in Seq(Answers)
        /\ pc' = "done" => hdr'.contentLength <= size'
    BY AnswersKept
  <2>3. ~cut' => Followed'
    <3> SUFFICES ASSUME ~cut'
                 PROVE  Followed'
      OBVIOUS
    <3>1. CASE \/ ServiceCloses \/ ConnectionBreaks
               \/ Connect \/ ConnectFails \/ Reuse \/ SendFails
               \/ \E a \in Answers : Send(a)
               \/ \E n \in 1 .. Len(wire) : Read(n)
               \/ ReadEnds \/ ReadFails
      BY <3>1, NetworkFollows
    <3>2. CASE Parse
      <4>1. ~cut
        BY <3>2 DEF Parse, HeaderLine, HeaderEnds, LineToCome, ChunkSize, CopyAll,
                    CopyChunk, ChunkBreak, BodyEnds
      <4> QED
        BY <3>2, <4>1, HeaderLineFollows, HeaderEndsFollows, LineToComeFollows,
           ChunkSizeFollows, CopyAllFollows, CopyChunkFollows, ChunkBreakFollows,
           BodyEndsFollows DEF Parse
    <3>3. CASE Repeat \/ Return
      <4>1. ~cut
        BY <3>3 DEF Repeat, Return
      <4> QED
        BY <3>3, <4>1, LoopFollows
    <3>4. CASE Done \/ UNCHANGED vars
      <4>1. UNCHANGED vars /\ Followed
        BY <3>4 DEF Done, AnswerInv, vars
      <4> QED
        BY <4>1, FollowedStays DEF AnswerInv
    <3> QED
      BY <3>1, <3>2, <3>3, <3>4 DEF Next, Client
  <2> QED
    BY <2>1, <2>2, <2>3 DEF AnswerInv
<1> QED
  BY <1>1, <1>2, PTL DEF Spec

\* If no connection failed and no read ended inside a break behind a chunk or in
\* front of the last one, the caller has the status and the whole body of the last
\* answer, however the other reads cut it and however often the request was repeated
\* (https.c 177-400, 701-827, scryfall.c 17-46).
THEOREM AnswerArrivesWhole == Spec => []ResponseIsWhole
<1>1. AnswerInv => ResponseIsWhole
  <2> SUFFICES ASSUME AnswerInv, Arrived, Len(LastBody) \notin {0, size}
               PROVE  code = Last(answers).status /\ response = LastBody
    BY DEF ResponseIsWhole
  <2>1. /\ IInv /\ answers \in Seq(Answers) /\ hdr.contentLength <= size /\ Fetched
        /\ pc = "done" /\ ~failed
    BY DEF AnswerInv, Followed, Arrived
  <2>2. /\ answers # <<>> /\ Stored(LastBody, Len(LastBody))
        /\ hdr.contentLength = Len(LastBody) /\ code = Last(answers).status
    BY <2>1 DEF Fetched
  <2>3. LastBody \in Seq(Symbols) /\ Len(LastBody) \in Nat /\ size \in Nat
    BY <2>1, <2>2, LastAnswer, BodyType DEF LastBody, IInv, TypeOK
  <2>4. Len(LastBody) > 0 /\ Len(LastBody) < size
    BY <2>1, <2>2, <2>3
  <2>5. response = SubSeq(LastBody, 1, Len(LastBody))
    BY <2>2, <2>4 DEF Stored
  <2> QED
    BY <2>2, <2>3, <2>5
<1> QED
  BY <1>1, AnswerInvariant, PTL

\* The caller never gets the beginning of one answer with the end of another: requests
\* share the buffer, but each starts it anew (scryfall.c 17-46, https.c 701-827).
THEOREM AnswersAreNotMixed == Spec => []ResponseIsOfOneAnswer
<1>1. AnswerInv => ResponseIsOfOneAnswer
  <2> SUFFICES ASSUME AnswerInv, pc = "done", ~cut
               PROVE  \/ response = <<Sym("error", 0)>> /\ failed
                      \/ response = <<Sym("unset", 0)>> /\ (failed \/ LastBody = <<>>)
                      \/ \E i \in DOMAIN answers : IsPrefix(response, BodyOf(answers[i]))
    BY DEF ResponseIsOfOneAnswer
  <2>1. /\ IInv /\ size > 1 /\ answers \in Seq(Answers) /\ Fetched /\ OfOneAnswer
    BY DEF AnswerInv, Followed
  <2>2. CASE failed
    BY <2>1, <2>2 DEF OfOneAnswer
  <2>3. CASE ~failed /\ LastBody = <<>>
    BY <2>1, <2>3 DEF OfOneAnswer
  <2>4. CASE ~failed /\ LastBody # <<>>
    <3>1. answers # <<>> /\ Stored(LastBody, Len(LastBody))
      BY <2>1, <2>4 DEF Fetched
    <3>2. PICK b \in Seq(Symbols) : b = LastBody
      BY <2>1, <3>1, LastAnswer, BodyType DEF LastBody
    <3>3. /\ Len(answers) \in DOMAIN answers /\ b = BodyOf(answers[Len(answers)])
      BY <2>1, <3>1, <3>2, LastAnswer DEF LastBody
    <3>4. PICK n \in 0 .. Len(b) : response = SubSeq(b, 1, n)
      <4> DEFINE n == IF Len(b) < size THEN Len(b) ELSE size - 1
      <4>1. Len(b) \in Nat /\ Len(b) > 0 /\ size \in Nat
        BY <2>1, <2>4, <3>2 DEF IInv, TypeOK
      <4>2. n \in 0 .. Len(b)
        BY <2>1, <4>1
      <4>3. response = SubSeq(b, 1, n)
        BY <3>1, <3>2, <4>1 DEF Stored
      <4> QED
        BY <4>2, <4>3
    <3>5. IsPrefix(response, b)
      <4>1. Len(SubSeq(b, 1, n)) = n /\ n <= Len(b)
        BY <3>4
      <4>2. SubSeq(SubSeq(b, 1, n), 1, n) = SubSeq(b, 1, n)
        BY <3>4
      <4> QED
        BY <3>4, <4>1, <4>2 DEF IsPrefix
    <3> QED
      BY <3>3, <3>5
  <2> QED
    BY <2>2, <2>3, <2>4
<1> QED
  BY <1>1, AnswerInvariant, PTL

-----------------------------------------------------------------------------
(* Work that runs out.                                                       *)

\* A content length that is being parsed is that of an answer, or of its chunks so far.
ParsedIsShort(longest) == pc = "parse" /\ ~cut => hdr.contentLength <= longest

LEMMA ParsedNow ==
  ASSUME NEW longest \in Nat, \A a \in Answers : Len(BodyOf(a)) <= longest
  PROVE  AnswerInv => ParsedIsShort(longest)
<1> SUFFICES ASSUME AnswerInv, pc = "parse", ~cut
             PROVE  hdr.contentLength <= longest
  BY DEF ParsedIsShort
<1>1. PICK a \in Answers : a = Last(answers) /\ Within(a)
  BY Parsing
<1>2. Len(BodyOf(a)) \in Nat /\ Len(BodyOf(a)) <= longest
  BY BodyType
<1>3. CASE \E p \in {0, 3, 6} \cup (IF a.close THEN {9} ELSE {}) : InHeader(a, p)
  BY <1>2, <1>3 DEF InHeader
<1>4. CASE InBody(a) \/ BehindChunks(a)
  BY <1>2, <1>4 DEF InBody, BehindChunks, Header
<1>5. ASSUME NEW c \in 1 .. Len(a.chunks) + 1, AtChunk(a, c)
      PROVE  hdr.contentLength <= longest
  <2>1. hdr.contentLength = BytesBefore(a, c)
    BY <1>5 DEF AtChunk, Header
  <2>2. CASE c \in 1 .. Len(a.chunks)
    <3>1. /\ BytesBefore(a, c) \in Nat /\ Len(a.chunks[c]) \in Nat
          /\ BytesBefore(a, c + 1) = BytesBefore(a, c) + Len(a.chunks[c])
          /\ BytesBefore(a, c + 1) <= Len(BodyOf(a))
      BY <2>2, Bytes, AnswerFields
    <3> QED
      BY <1>2, <2>1, <3>1
  <2>3. CASE c = Len(a.chunks) + 1
    BY <1>2, <2>1, <2>3, BytesEnds
  <2> QED
    BY <2>2, <2>3, AnswerFields
<1>6. ASSUME NEW c \in 1 .. Len(a.chunks), InChunk(a, c)
      PROVE  hdr.contentLength <= longest
  <2>1. hdr.contentLength = BytesBefore(a, c + 1)
    BY <1>6 DEF InChunk, Header
  <2>2. /\ BytesBefore(a, c) \in Nat /\ Len(a.chunks[c]) \in Nat
        /\ BytesBefore(a, c + 1) = BytesBefore(a, c) + Len(a.chunks[c])
        /\ BytesBefore(a, c + 1) <= Len(BodyOf(a))
    BY <1>6, Bytes, AnswerFields
  <2> QED
    BY <1>2, <2>1, <2>2
<1> QED
  BY <1>1, <1>3, <1>4, <1>5, <1>6 DEF Within

LEMMA ParsedAfter ==
  ASSUME NEW longest \in Nat, \A a \in Answers : Len(BodyOf(a)) <= longest
  PROVE  AnswerInv' => ParsedIsShort(longest)'
<1>1. AnswerInv => ParsedIsShort(longest)
  BY ParsedNow
<1> QED
  BY <1>1, PTL

\* So no buffer larger than the longest body is ever asked for.
ContentIsShort(longest) == ~cut => hdr.contentLength <= longest

LEMMA ContentStaysShort ==
  ASSUME NEW longest \in Nat, \A a \in Answers : Len(BodyOf(a)) <= longest,
         AnswerInv, AnswerInv', ContentIsShort(longest), [Next]_vars
  PROVE  ContentIsShort(longest)'
<1> SUFFICES ASSUME ~cut'
             PROVE  hdr'.contentLength <= longest
  BY DEF ContentIsShort
<1>1. CASE HeaderLine \/ ChunkSize
  <2>1. pc' = "parse"
    BY <1>1 DEF HeaderLine, ChunkSize
  <2> QED
    BY <2>1, ParsedAfter DEF ParsedIsShort
<1>2. CASE ~HeaderLine /\ ~ChunkSize
  <2>1. hdr.contentLength <= longest /\ hdr \in Headers
    BY DEF ContentIsShort, AnswerInv, IInv, TypeOK, Next, Client, Read, ServiceCloses,
      ConnectionBreaks, Connect, ConnectFails, Reuse, Send, SendFails, ReadEnds, ReadFails,
      Parse, HeaderLine, HeaderEnds, LineToCome, ChunkSize, CopyAll, CopyChunk, ChunkBreak,
      BodyEnds, Repeat, Return, Done, vars
  <2>2. \/ hdr' = hdr \/ hdr' = NoHeader
        \/ hdr' = [hdr EXCEPT !.status = 0, !.contentLength = 0, !.close = FALSE]
    BY <1>2 DEF Next, Client, Read, ServiceCloses,
      ConnectionBreaks, Connect, ConnectFails, Reuse, Send, SendFails, ReadEnds, ReadFails,
      Parse, HeaderEnds, LineToCome, CopyAll, CopyChunk, ChunkBreak,
      BodyEnds, Repeat, Return, Done, vars
  <2>3. CASE hdr' = hdr
    BY <2>1, <2>3
  <2>4. CASE hdr' = NoHeader
    BY <2>4 DEF NoHeader
  <2>5. CASE hdr' = [hdr EXCEPT !.status = 0, !.contentLength = 0, !.close = FALSE]
    BY <2>1, <2>5 DEF Headers
  <2> QED
    BY <2>2, <2>3, <2>4, <2>5
<1> QED
  BY <1>1, <1>2

\* What is left to do is counted in natural numbers.
Counted(longest) ==
  /\ Growth(longest) \in Nat /\ Phase \in Nat /\ Unparsed \in Nat
  /\ wire \in Seq(Symbols) /\ buf \in Seq(Symbols) /\ Len(wire) \in Nat /\ Len(buf) \in Nat
  /\ length \in Nat \cup {-1} /\ size \in Nat /\ hdr.contentLength \in Nat
  /\ Turn \in 0 .. 2

LEMMA CountedNow ==
  ASSUME NEW longest \in Nat
  PROVE  AnswerInv => Counted(longest)
<1> SUFFICES ASSUME AnswerInv
             PROVE  Counted(longest)
  OBVIOUS
<1>1. /\ wire \in Seq(Symbols) /\ buf \in Seq(Symbols) /\ Len(wire) \in Nat /\ Len(buf) \in Nat
      /\ length \in Nat \cup {-1} /\ size \in Nat /\ hdr.contentLength \in Nat
  BY HeaderFields DEF AnswerInv, IInv, TypeOK
<1>2. Growth(longest) \in Nat
  BY <1>1 DEF Growth
<1>3. Phase \in Nat
  BY DEF Phase
<1>4. Turn \in 0 .. 2
  BY DEF Turn
<1>5. Unparsed \in Nat
  BY <1>1, <1>4 DEF Unparsed
<1> QED
  BY <1>1, <1>2, <1>3, <1>4, <1>5 DEF Counted

LEMMA CountedAfter ==
  ASSUME NEW longest \in Nat
  PROVE  AnswerInv' => Counted(longest)'
<1>1. AnswerInv => Counted(longest)
  BY CountedNow
<1> QED
  BY <1>1, PTL

\* A way through the loop of http_parse takes something or ends the loop.
LEMMA ParseWorks ==
  ASSUME NEW longest \in Nat, AnswerInv, AnswerInv', Parse
  PROVE  Below(ToDo(longest)', ToDo(longest))
<1>1. Counted(longest) /\ Counted(longest)'
  BY CountedNow, CountedAfter
<1>2. pc = "parse" /\ size' = size
  BY DEF Parse, HeaderLine, HeaderEnds, LineToCome, ChunkSize, CopyAll, CopyChunk,
    ChunkBreak, BodyEnds
<1>3. Growth(longest)' = Growth(longest)
  BY <1>2 DEF Growth
<1>4. CASE pc' = "decide"
  <2>1. Phase' < Phase
    BY <1>2, <1>4 DEF Phase
  <2>2. Below(<<Growth(longest)', Phase', Unparsed'>>, <<Growth(longest), Phase, Unparsed>>)
    BY <1>1, <1>3, <2>1, BelowThree DEF Counted
  <2> QED
    BY <2>2 DEF ToDo
<1>5. CASE pc' # "decide"
  <2>1. pc' \in {"read", "parse"} /\ wire' = wire
    BY <1>5 DEF Parse, HeaderLine, HeaderEnds, LineToCome, ChunkSize, CopyAll, CopyChunk,
      ChunkBreak, BodyEnds, Got
  <2>2. Phase' = Phase
    BY <1>2, <2>1 DEF Phase
  <2>3. Unparsed = 4 * Len(wire) + Len(buf) + Turn /\ Unparsed' = 4 * Len(wire) + Len(buf') + Turn'
    BY <2>1 DEF Unparsed
  <2>4. /\ Len(wire) \in Nat /\ Len(buf) \in Nat /\ Len(buf') \in Nat
        /\ length \in Nat \cup {-1} /\ buf \in Seq(Symbols)
        /\ Turn \in 1 .. 2 /\ Turn' \in 0 .. 2
    BY <1>1, <1>2 DEF Counted, Turn
  <2>5. Unparsed' < Unparsed
    <3>1. ASSUME NEW n \in 1 .. Len(buf), buf' = Behind(n)
          PROVE  Len(buf') = Len(buf) - n
      BY <2>4, <3>1 DEF Behind
    <3>2. CASE HeaderLine \/ HeaderEnds \/ ChunkSize
      <4>1. LineLen \in 0 .. Len(buf) - 2 /\ pc' = "parse"
        BY <2>4, <3>2, LineInside DEF HeaderLine, HeaderEnds, ChunkSize
      <4>2. buf' = Behind(LineLen + 2)
        BY <3>2 DEF HeaderLine, HeaderEnds, ChunkSize
      <4>3. LineLen + 2 \in 1 .. Len(buf)
        BY <2>4, <4>1
      <4>4. Len(buf') = Len(buf) - (LineLen + 2)
        BY <3>1, <4>2, <4>3
      <4> QED
        BY <2>3, <2>4, <4>1, <4>4
    <3>3. CASE LineToCome
      <4>1. pc' = "read" /\ buf' = buf /\ Turn' = 0
        BY <3>3 DEF LineToCome, Turn
      <4> QED
        BY <2>3, <2>4, <4>1
    <3>4. CASE CopyAll
      <4>1. pc' = "read" /\ Len(buf') = 0 /\ Turn' = 0
        BY <1>5, <3>4, EmptyString DEF CopyAll, Got, Turn
      <4> QED
        BY <2>3, <2>4, <4>1, EmptyString
    <3>5. CASE CopyChunk
      <4>1. /\ length + 2 \in 1 .. Len(buf) /\ buf' = Behind(length + 2)
            /\ length > 0 /\ length' = -1
        BY <1>5, <2>4, <3>5 DEF CopyChunk, Got, AtData
      <4>2. Len(buf') = Len(buf) - (length + 2)
        BY <3>1, <4>1
      <4> QED
        BY <2>3, <2>4, <4>1, <4>2
    <3>6. CASE ChunkBreak
      <4>1. Turn = 2 /\ Turn' \in 0 .. 1
        <5>1. length = 0 /\ length' = -1
          BY <3>6 DEF ChunkBreak
        <5> QED
          BY <1>2, <5>1 DEF Turn
      <4>2. Len(buf') <= Len(buf)
        <5>1. CASE Len(buf) > 2 /\ IsBreak(1)
          <6>1. buf' = Behind(2) /\ 2 \in 1 .. Len(buf)
            BY <2>4, <3>6, <5>1 DEF ChunkBreak
          <6> QED
            BY <2>4, <3>1, <6>1
        <5>2. CASE ~(Len(buf) > 2 /\ IsBreak(1))
          BY <2>4, <3>6, <5>2, EmptyString DEF ChunkBreak
        <5> QED
          BY <5>1, <5>2
      <4> QED
        BY <2>3, <2>4, <4>1, <4>2
    <3>7. ~BodyEnds
      BY <1>5 DEF BodyEnds, Got
    <3> QED
      BY <3>2, <3>3, <3>4, <3>5, <3>6, <3>7 DEF Parse
  <2>6. Below(<<Growth(longest)', Phase', Unparsed'>>, <<Growth(longest), Phase, Unparsed>>)
    BY <1>1, <1>3, <2>2, <2>5, BelowThree DEF Counted
  <2> QED
    BY <2>6 DEF ToDo
<1> QED
  BY <1>4, <1>5

\* So does every other step of the client.
LEMMA RequestWorks ==
  ASSUME NEW longest \in Nat, AnswerInv, AnswerInv', ContentIsShort(longest), ~cut,
         \/ Connect \/ ConnectFails \/ Reuse \/ SendFails
         \/ \E a \in Answers : Send(a)
         \/ \E n \in 1 .. Len(wire) : Read(n)
         \/ ReadEnds \/ ReadFails \/ Repeat \/ Return
  PROVE  Below(ToDo(longest)', ToDo(longest))
<1>1. Counted(longest) /\ Counted(longest)'
  BY CountedNow, CountedAfter
<1>2. CASE Repeat
  <2>1. /\ hdr.contentLength > size /\ size' = hdr.contentLength + 1
        /\ hdr.contentLength <= longest /\ size \in Nat /\ hdr.contentLength \in Nat
    BY <1>1, <1>2 DEF Repeat, ContentIsShort, Counted
  <2>2. Growth(longest)' < Growth(longest)
    BY <2>1 DEF Growth
  <2>3. Below(<<Growth(longest)', Phase', Unparsed'>>, <<Growth(longest), Phase, Unparsed>>)
    BY <1>1, <2>2, BelowThree DEF Counted
  <2> QED
    BY <2>3 DEF ToDo
<1>3. CASE \E n \in 1 .. Len(wire) : Read(n)
  <2>1. PICK n \in 1 .. Len(wire) : Read(n)
    BY <1>3
  <2>2. /\ pc = "read" /\ pc' = "parse" /\ size' = size
        /\ buf' = buf \o SubSeq(wire, 1, n) /\ wire' = SubSeq(wire, n + 1, Len(wire))
    BY <2>1, ReadTakes DEF Read, AnswerInv
  <2>3. /\ wire \in Seq(Symbols) /\ buf \in Seq(Symbols) /\ Len(wire) \in Nat /\ Len(buf) \in Nat
    BY <1>1 DEF Counted
  <2>4. Len(buf') = Len(buf) + n /\ Len(wire') = Len(wire) - n /\ n \in Nat \ {0}
    BY <2>2, <2>3
  <2>5. Growth(longest)' = Growth(longest) /\ Phase' = Phase
    BY <2>2 DEF Growth, Phase
  <2>6. Unparsed' < Unparsed
    <3>1. Turn \in 0 .. 2 /\ Turn' \in 0 .. 2
      BY <1>1 DEF Counted
    <3>2. /\ Unparsed = 4 * Len(wire) + Len(buf) + Turn
          /\ Unparsed' = 4 * Len(wire') + Len(buf') + Turn'
      BY DEF Unparsed
    <3> QED
      BY <2>3, <2>4, <3>1, <3>2
  <2>7. Below(<<Growth(longest)', Phase', Unparsed'>>, <<Growth(longest), Phase, Unparsed>>)
    BY <1>1, <2>5, <2>6, BelowThree DEF Counted
  <2> QED
    BY <2>7 DEF ToDo
<1>4. CASE \/ Connect \/ ConnectFails \/ Reuse \/ SendFails
           \/ \E a \in Answers : Send(a)
           \/ ReadEnds \/ ReadFails \/ Return
  <2>1. /\ size' = size
        /\ \/ pc = "connect" /\ pc' \in {"send", "decide"}
           \/ pc = "send" /\ pc' \in {"read", "decide"}
           \/ pc = "read" /\ pc' = "decide"
           \/ pc = "decide" /\ pc' = "done"
    BY <1>4 DEF Connect, ConnectFails, Reuse, SendFails, Send, ReadEnds, ReadFails, Return, Fail
  <2>2. Growth(longest)' = Growth(longest) /\ Phase' < Phase
    BY <2>1 DEF Growth, Phase
  <2>3. Below(<<Growth(longest)', Phase', Unparsed'>>, <<Growth(longest), Phase, Unparsed>>)
    BY <1>1, <2>2, BelowThree DEF Counted
  <2> QED
    BY <2>3 DEF ToDo
<1> QED
  BY <1>2, <1>3, <1>4

\* The network.
LEMMA NetworkWorks ==
  ASSUME NEW longest \in Nat, AnswerInv, AnswerInv',
         ServiceCloses \/ ConnectionBreaks
  PROVE  \/ Below(ToDo(longest)', ToDo(longest))
         \/ ~Client /\ ToDo(longest)' = ToDo(longest)
<1>1. Counted(longest) /\ Counted(longest)'
  BY CountedNow, CountedAfter
<1>2. /\ UNCHANGED <<size, pc, buf, length>>
      /\ Len(wire') \in Nat /\ Len(wire') <= Len(wire) /\ Len(wire) \in Nat
  <2>1. CASE ServiceCloses
    <3>1. PICK n \in 0 .. Len(wire) : wire' = SubSeq(wire, 1, n)
      BY <2>1 DEF ServiceCloses
    <3> QED
      BY <1>1, <2>1, <3>1 DEF ServiceCloses, Counted
  <2>2. CASE ConnectionBreaks
    BY <1>1, <2>2 DEF ConnectionBreaks, Counted
  <2> QED
    BY <2>1, <2>2
<1>3. Growth(longest)' = Growth(longest) /\ Phase' = Phase
  BY <1>2 DEF Growth, Phase
<1>4. CASE Len(wire') = Len(wire)
  <2>1. ToDo(longest)' = ToDo(longest)
    BY <1>2, <1>3, <1>4 DEF ToDo, Unparsed, Turn
  <2>2. ~Client
    <3> SUFFICES ASSUME Client
                 PROVE  FALSE
      OBVIOUS
    <3>1. pc' = pc /\ conn' # conn /\ answers' = answers /\ conn = "open" /\ UNCHANGED <<buf, length, headerEnd>>
      BY DEF ServiceCloses, ConnectionBreaks
    <3>2. ~Parse
      BY <3>1 DEF Parse, HeaderLine, HeaderEnds, LineToCome, ChunkSize, CopyAll, CopyChunk,
        ChunkBreak, BodyEnds, Got
    <3> QED
      BY <3>1, <3>2 DEF Client, Connect, ConnectFails, Reuse, SendFails, Send, Read, ReadEnds,
        ReadFails, Repeat, Return, Fail
  <2> QED
    BY <2>1, <2>2
<1>5. CASE Len(wire') # Len(wire)
  <2>1. Unparsed' < Unparsed
    <3>1. Turn' = Turn /\ Turn \in 0 .. 2
      BY <1>1, <1>2 DEF Counted, Turn
    <3> QED
      BY <1>2, <1>5, <3>1 DEF Unparsed
  <2>2. Below(<<Growth(longest)', Phase', Unparsed'>>, <<Growth(longest), Phase, Unparsed>>)
    BY <1>1, <1>3, <2>1, BelowThree DEF Counted
  <2> QED
    BY <2>2 DEF ToDo
<1> QED
  BY <1>4, <1>5

\* For any answers of which none is longer than longest, and sizes of both buffers:
\* api_json_response cannot go round for ever while no read ends inside a break, neither
\* in http_parse nor from request to request (https.c 177-400, scryfall.c 17-46).
THEOREM RequestsRunOut ==
  ASSUME NEW longest \in Nat, \A a \in Answers : Len(BodyOf(a)) <= longest
  PROVE  Spec => RequestRunsOut(longest)
<1>1. Init => ContentIsShort(longest)
  BY DEF Init, ContentIsShort, NoHeader
<1>2. AnswerInv /\ AnswerInv' /\ ContentIsShort(longest) /\ [Next]_vars => ContentIsShort(longest)'
  BY ContentStaysShort
<1>3. AnswerInv /\ AnswerInv' /\ ContentIsShort(longest) /\ [Next]_vars =>
        [~cut' =>
           \/ Below(ToDo(longest)', ToDo(longest))
           \/ ~Client /\ ToDo(longest)' = ToDo(longest)]_vars
  <2> SUFFICES ASSUME AnswerInv, AnswerInv', ContentIsShort(longest), Next, ~cut',
                      ~UNCHANGED vars
               PROVE  \/ Below(ToDo(longest)', ToDo(longest))
                      \/ ~Client /\ ToDo(longest)' = ToDo(longest)
    OBVIOUS
  <2>1. CASE ServiceCloses \/ ConnectionBreaks
    BY <2>1, NetworkWorks
  <2>2. CASE Parse
    BY <2>2, ParseWorks
  <2>3. CASE Client /\ ~Parse
    <3>1. ~cut
      BY <2>3 DEF Client, Connect, ConnectFails, Reuse, SendFails, Send, Read, ReadEnds,
        ReadFails, Repeat, Return, Fail
    <3> QED
      BY <2>3, <3>1, RequestWorks DEF Client
  <2>4. ~Done
    BY DEF Done
  <2> QED
    BY <2>1, <2>2, <2>3, <2>4 DEF Next
<1> QED
  BY <1>1, <1>2, <1>3, AnswerInvariant, PTL DEF Spec, RequestRunsOut
=============================================================================

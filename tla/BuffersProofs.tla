-------------------------- MODULE BuffersProofs --------------------------
(***************************************************************************)
(* That the three places where iwtftpd works on bytes keep within their    *)
(* buffers and lose or mix nothing, for every size that BuffersAssumption  *)
(* allows, every datagram over every remainder and every line in any       *)
(* order.                                                                  *)
(***************************************************************************)
EXTENDS Buffers, FiniteSetTheorems, SequenceTheorems, TLAPS

\* A set of naturals that is not empty has a least element.
LEMMA LeastElement ==
  ASSUME NEW S \in SUBSET Nat, S # {}
  PROVE  \E m \in S : \A x \in S : m <= x
<1> DEFINE T == {0 .. x : x \in S}
           R == StrictSubsetOrdering(Nat)
<1>1. T \subseteq FiniteSubsetsOf(Nat)
  <2> SUFFICES ASSUME NEW x \in S PROVE 0 .. x \in FiniteSubsetsOf(Nat)
    OBVIOUS
  <2>1. x \in Nat /\ IsFiniteSet(0 .. x)
    BY FS_Interval
  <2> QED
    BY <2>1 DEF FiniteSubsetsOf
<1>2. T # {}
  OBVIOUS
<1>3. IsWellFoundedOn(R, FiniteSubsetsOf(Nat))
  BY FS_StrictSubsetOrderingWellFounded
<1>4. PICK t \in T : \A u \in T : <<u, t>> \notin R
  <2> HIDE DEF T, R
  <2> QED
    BY <1>1, <1>2, <1>3, WFMin
<1>5. PICK m \in S : t = 0 .. m
  BY <1>4
<1>6. ASSUME NEW x \in S, x < m PROVE FALSE
  <2>1. 0 .. x \subseteq 0 .. m /\ m \in 0 .. m /\ m \notin 0 .. x
    BY <1>6
  <2>2. <<0 .. x, 0 .. m>> \in R
    BY <2>1 DEF StrictSubsetOrdering
  <2> QED
    BY <1>4, <1>5, <2>2
<1> QED
  BY <1>6

\* The smaller of two.
LEMMA MinOfTwo ==
  ASSUME NEW a \in Int, NEW b \in Int
  PROVE  Min({a, b}) = IF a <= b THEN a ELSE b
BY DEF Min

----------------------------------------------------------------------------

\* n times the same.
LEMMA FillType ==
  ASSUME NEW S, NEW x \in S, NEW n \in Nat
  PROVE  /\ Fill(x, n) \in Seq(S) /\ Len(Fill(x, n)) = n
         /\ \A i \in 1 .. n : Fill(x, n)[i] = x
<1>1. Fill(x, n) \in [1 .. n -> S]
  BY DEF Fill
<1>2. Fill(x, n) \in Seq(S)
  BY <1>1, SeqDef
<1>3. DOMAIN Fill(x, n) = 1 .. n
  BY DEF Fill
<1>4. Len(Fill(x, n)) = n
  BY <1>2, <1>3, LenProperties
<1> QED
  BY <1>2, <1>4 DEF Fill

\* A least element is the minimum.
LEMMA MinIs ==
  ASSUME NEW T \in SUBSET Nat, NEW m \in T, \A x \in T : m <= x
  PROVE  Min(T) = m
<1>1. Min(T) \in T /\ \A x \in T : Min(T) <= x
  BY DEF Min
<1>2. Min(T) <= m /\ m <= Min(T) /\ Min(T) \in Nat /\ m \in Nat
  BY <1>1
<1> QED
  BY <1>2

\* Zero is the maximum where nothing is positive.
LEMMA MaxZero ==
  ASSUME NEW n \in Int, n <= 0
  PROVE  Max({0, n}) = 0
BY DEF Max

\* Bytes put over a part of a buffer leave its length and the rest of it.
LEMMA OverType ==
  ASSUME NEW S, NEW buf \in Seq(S), NEW bytes \in Seq(S), NEW p \in Nat \ {0},
         p - 1 + Len(bytes) <= Len(buf)
  PROVE  /\ Over(buf, p, bytes) \in Seq(S)
         /\ Len(Over(buf, p, bytes)) = Len(buf)
         /\ \A i \in 1 .. Len(buf) :
              Over(buf, p, bytes)[i] = IF p <= i /\ i < p + Len(bytes)
                                       THEN bytes[i - p + 1] ELSE buf[i]
<1> DEFINE n == Len(buf)
           k == Len(bytes)
           a == SubSeq(buf, 1, p - 1)
           c == SubSeq(buf, p + k, n)
<1>1. n \in Nat /\ k \in Nat /\ p - 1 <= n /\ p - 1 + k <= n
  BY LenProperties
<1>2. Over(buf, p, bytes) = a \o bytes \o c
  <2>1. Max({0, p - 1 - n}) = 0
    BY <1>1, MaxZero
  <2>2. Fill("?", 0) = <<>>
    <3>1. Fill("?", 0) \in Seq({"?"}) /\ Len(Fill("?", 0)) = 0
      BY FillType
    <3> QED
      BY <3>1, EmptySeq
  <2>3. buf \o Fill("?", 0) = buf
    BY <2>2, ConcatEmptySeq
  <2> QED
    BY <2>1, <2>3 DEF Over
<1>3. /\ a \in Seq(S) /\ Len(a) = p - 1 /\ \A i \in 1 .. p - 1 : a[i] = buf[i]
  <2>1. \A i \in 1 .. p - 1 : buf[i] \in S
    BY <1>1, ElementOfSeq
  <2>2. /\ a \in Seq(S) /\ Len(a) = IF 1 <= p - 1 THEN p - 1 - 1 + 1 ELSE 0
        /\ \A i \in 1 .. p - 1 - 1 + 1 : a[i] = buf[1 + i - 1]
    BY <2>1, SubSeqProperties
  <2> HIDE DEF a
  <2> QED
    BY <2>2
<1>4. /\ c \in Seq(S) /\ Len(c) = n - (p + k) + 1
      /\ \A i \in 1 .. n - (p + k) + 1 : c[i] = buf[p + k + i - 1]
  <2>1. \A i \in p + k .. n : buf[i] \in S
    BY <1>1, ElementOfSeq
  <2>2. /\ c \in Seq(S) /\ Len(c) = IF p + k <= n THEN n - (p + k) + 1 ELSE 0
        /\ \A i \in 1 .. n - (p + k) + 1 : c[i] = buf[p + k + i - 1]
    BY <1>1, <2>1, SubSeqProperties
  <2> HIDE DEF c, n, k
  <2> QED
    BY <1>1, <2>2
<1> HIDE DEF a, c
<1>5. /\ a \o bytes \in Seq(S) /\ Len(a \o bytes) = p - 1 + k
      /\ \A i \in 1 .. p - 1 + k :
           (a \o bytes)[i] = IF i <= p - 1 THEN a[i] ELSE bytes[i - (p - 1)]
  BY <1>3, ConcatProperties
<1>6. /\ a \o bytes \o c \in Seq(S) /\ Len(a \o bytes \o c) = p - 1 + k + Len(c)
      /\ \A i \in 1 .. p - 1 + k + Len(c) :
           (a \o bytes \o c)[i] = IF i <= p - 1 + k THEN (a \o bytes)[i]
                                  ELSE c[i - (p - 1 + k)]
  <2> DEFINE ab == a \o bytes
  <2>1. ab \in Seq(S) /\ c \in Seq(S) /\ Len(ab) = p - 1 + k
    BY <1>4, <1>5
  <2> HIDE DEF ab, k
  <2>2. /\ ab \o c \in Seq(S) /\ Len(ab \o c) = Len(ab) + Len(c)
        /\ \A i \in 1 .. Len(ab) + Len(c) :
             (ab \o c)[i] = IF i <= Len(ab) THEN ab[i] ELSE c[i - Len(ab)]
    BY <2>1, ConcatProperties
  <2> QED
    BY <2>1, <2>2 DEF ab
<1>7. p - 1 + k + Len(c) = n
  <2> HIDE DEF k, n
  <2> QED
    BY <1>1, <1>4
<1>8. ASSUME NEW i \in 1 .. n
      PROVE  (a \o bytes \o c)[i] = IF p <= i /\ i < p + k THEN bytes[i - p + 1] ELSE buf[i]
  <2> HIDE DEF k, n
  <2>1. CASE i <= p - 1
    BY <1>1, <1>3, <1>5, <1>6, <1>7, <2>1
  <2>2. CASE p <= i /\ i < p + k
    <3>1. i - (p - 1) = i - p + 1 /\ i \in 1 .. p - 1 + k /\ ~(i <= p - 1)
      BY <1>1, <2>2
    <3> QED
      BY <1>5, <1>6, <1>7, <2>2, <3>1
  <2>3. CASE p + k <= i
    <3> DEFINE j == i - (p - 1 + k)
    <3>1. /\ j \in 1 .. n - (p + k) + 1 /\ p + k + j - 1 = i
          /\ ~(i <= p - 1 + k)
      BY <1>1, <2>3
    <3>2. c[j] = buf[i]
      <4> HIDE DEF j
      <4> QED
        BY <1>4, <3>1
    <3>3. (a \o bytes \o c)[i] = c[j]
      BY <1>6, <1>7, <3>1
    <3>4. ~(i < p + k)
      BY <1>1, <2>3
    <3> QED
      BY <3>2, <3>3, <3>4
  <2>4. i <= p - 1 \/ (p <= i /\ i < p + k) \/ p + k <= i
    BY <1>1
  <2> QED
    BY <2>1, <2>2, <2>3, <2>4
<1> QED
  BY <1>2, <1>6, <1>7, <1>8

----------------------------------------------------------------------------
(***************************************************************************)
(* The line buffer of the log                                              *)
(***************************************************************************)

\* What a line is made of, and what stands in the buffer.
Printed == {"sp", "nl", "t", "e", "a", "b"}
Glyph   == Printed \cup {"nul", "?"}

\* The place of the first NUL.
LEMMA StrlenIs ==
  ASSUME NEW buf \in Seq(Glyph), NEW n \in Nat, n < Len(buf),
         buf[n + 1] = "nul", \A i \in 1 .. n : buf[i] # "nul"
  PROVE  strlen(buf) = n
<1> DEFINE T == {i \in 1 .. Len(buf) : buf[i] = "nul"} \cup {Len(buf) + 1}
<1>1. Len(buf) \in Nat
  BY LenProperties
<1>2. T \in SUBSET Nat /\ n + 1 \in T
  BY <1>1
<1>3. \A i \in T : n + 1 <= i
  BY <1>1
<1>4. Min(T) = n + 1
  <2> HIDE DEF T
  <2> QED
    BY <1>2, <1>3, MinIs
<1> QED
  BY <1>4 DEF strlen

\* A whole buffer written over.
LEMMA OverAll ==
  ASSUME NEW S, NEW buf \in Seq(S), NEW u \in Seq(S), Len(u) = Len(buf)
  PROVE  Over(buf, 1, u) = u
<1> DEFINE v == Over(buf, 1, u)
<1>1. Len(u) \in Nat /\ 1 \in Nat \ {0} /\ 1 - 1 + Len(u) <= Len(buf)
  BY LenProperties
<1>2. /\ v \in Seq(S) /\ Len(v) = Len(buf)
      /\ \A i \in 1 .. Len(buf) :
           v[i] = IF 1 <= i /\ i < 1 + Len(u) THEN u[i - 1 + 1] ELSE buf[i]
  BY <1>1, OverType
<1> HIDE DEF v
<1>3. ASSUME NEW i \in 1 .. Len(v) PROVE v[i] = u[i]
  <2>1. i \in 1 .. Len(buf) /\ 1 <= i /\ i < 1 + Len(u) /\ i - 1 + 1 = i
    BY <1>1, <1>2
  <2> QED
    BY <1>2, <2>1
<1>4. v = u
  BY <1>2, <1>3, SeqEqual
<1> QED
  BY <1>4 DEF v

\* strncpy leaves the text and NULs, whatever was in the buffer.
LEMMA PaddedType ==
  ASSUME NEW buf \in Seq(Glyph), Len(buf) = LOGMSGBUF_SIZE,
         NEW text \in Seq(Printed), Len(text) <= LOGMSGBUF_SIZE
  PROVE  /\ Padded(buf, text) \in Seq(Glyph)
         /\ Len(Padded(buf, text)) = LOGMSGBUF_SIZE
         /\ \A i \in 1 .. LOGMSGBUF_SIZE :
              Padded(buf, text)[i] = IF i <= Len(text) THEN text[i] ELSE "nul"
<1> DEFINE n == LOGMSGBUF_SIZE
           k == Len(text)
           m == n - k
           z == Fill("nul", m)
           u == text \o z
<1>1. n \in Nat /\ k \in Nat /\ m \in Nat /\ k + m = n
  BY LenProperties DEF LOGMSGBUF_SIZE, TIMESTRLEN_MAX, IW_LOGMSGLEN_MAX
<1> HIDE DEF m
<1>2. text \in Seq(Glyph)
  BY SeqMonotonic DEF Glyph
<1>3. z \in Seq(Glyph) /\ Len(z) = m /\ \A i \in 1 .. m : z[i] = "nul"
  BY <1>1, FillType DEF Glyph
<1> HIDE DEF z
<1>4. /\ u \in Seq(Glyph) /\ Len(u) = k + Len(z)
      /\ \A i \in 1 .. k + Len(z) : u[i] = IF i <= k THEN text[i] ELSE z[i - k]
  BY <1>2, <1>3, ConcatProperties
<1> HIDE DEF n, u, k
<1>5. Len(u) = n
  BY <1>1, <1>3, <1>4
<1>6. ASSUME NEW i \in 1 .. n PROVE u[i] = IF i <= k THEN text[i] ELSE "nul"
  <2>1. i \in 1 .. k + Len(z)
    BY <1>1, <1>3
  <2>2. ~(i <= k) => i - k \in 1 .. m
    BY <1>1
  <2>3. ~(i <= k) => z[i - k] = "nul"
    BY <1>3, <2>2
  <2> QED
    BY <1>4, <2>1, <2>3
<1>7. Len(buf) = n
  BY DEF n
<1>8. Over(buf, 1, u) = u
  BY <1>4, <1>5, <1>7, OverAll
<1>9. Padded(buf, text) = u
  BY <1>8 DEF Padded, u, z, m, n, k
<1> QED
  BY <1>4, <1>5, <1>6, <1>9 DEF n, k

\* One byte put into a buffer of the log.
LEMMA OverOne ==
  ASSUME NEW buf \in Seq(Glyph), NEW p \in 1 .. Len(buf), NEW x \in Glyph
  PROVE  /\ Over(buf, p, <<x>>) \in Seq(Glyph)
         /\ Len(Over(buf, p, <<x>>)) = Len(buf)
         /\ \A i \in 1 .. Len(buf) :
              Over(buf, p, <<x>>)[i] = IF i = p THEN x ELSE buf[i]
<1>1. <<x>> \in Seq(Glyph) /\ Len(<<x>>) = 1 /\ <<x>>[1] = x
  OBVIOUS
<1>2. Len(buf) \in Nat /\ p \in Nat \ {0} /\ p - 1 + 1 <= Len(buf)
  BY LenProperties
<1> DEFINE u == <<x>>
<1> HIDE DEF u
<1>3. u \in Seq(Glyph) /\ Len(u) = 1 /\ u[1] = x
  BY <1>1 DEF u
<1>4. /\ Over(buf, p, u) \in Seq(Glyph) /\ Len(Over(buf, p, u)) = Len(buf)
      /\ \A i \in 1 .. Len(buf) :
           Over(buf, p, u)[i] = IF p <= i /\ i < p + Len(u) THEN u[i - p + 1] ELSE buf[i]
  <2>1. p - 1 + Len(u) <= Len(buf)
    BY <1>2, <1>3
  <2>2. p \in Nat \ {0} /\ buf \in Seq(Glyph) /\ u \in Seq(Glyph)
    BY <1>2, <1>3
  <2> QED
    BY ONLY <2>1, <2>2, OverType
<1>5. ASSUME NEW i \in 1 .. Len(buf)
      PROVE  Over(buf, p, u)[i] = IF i = p THEN x ELSE buf[i]
  <2>1. CASE i = p
    <3>1. p <= i /\ i < p + Len(u) /\ i - p + 1 = 1
      BY <1>2, <1>3, <2>1
    <3> QED
      BY <1>3, <1>4, <2>1, <3>1
  <2>2. CASE i # p
    <3>1. ~(p <= i /\ i < p + Len(u))
      BY <1>2, <1>3, <2>2
    <3> QED
      BY <1>4, <2>2, <3>1
  <2> QED
    BY <2>1, <2>2
<1> QED
  BY <1>4, <1>5 DEF u

\* The time and a blank, before the message is put there.
LEMMA StampedType ==
  ASSUME NEW buf \in Seq(Glyph), Len(buf) = LOGMSGBUF_SIZE,
         NEW time \in Seq(Printed), Len(time) + 2 <= LOGMSGBUF_SIZE
  PROVE  LET v == Over(Padded(buf, time), Len(time) + 1, <<"sp", "nul">>)
         IN  /\ v \in Seq(Glyph) /\ Len(v) = LOGMSGBUF_SIZE
             /\ \A i \in 1 .. LOGMSGBUF_SIZE :
                  v[i] = IF i <= Len(time) THEN time[i]
                         ELSE IF i = Len(time) + 1 THEN "sp" ELSE "nul"
<1> DEFINE n == LOGMSGBUF_SIZE
           k == Len(time)
           w == Padded(buf, time)
           u == <<"sp", "nul">>
           p == k + 1
           v == Over(w, p, u)
<1>1. n \in Nat /\ k \in Nat /\ k + 2 <= n
  BY LenProperties DEF LOGMSGBUF_SIZE, TIMESTRLEN_MAX, IW_LOGMSGLEN_MAX
<1>2. /\ w \in Seq(Glyph) /\ Len(w) = n
      /\ \A i \in 1 .. n : w[i] = IF i <= k THEN time[i] ELSE "nul"
  BY <1>1, PaddedType
<1>3. u \in Seq(Glyph) /\ Len(u) = 2 /\ u[1] = "sp" /\ u[2] = "nul"
  BY DEF Glyph, Printed
<1> HIDE DEF n, k, w, u
<1>4. /\ v \in Seq(Glyph) /\ Len(v) = Len(w)
      /\ \A i \in 1 .. Len(w) :
           v[i] = IF p <= i /\ i < p + Len(u) THEN u[i - p + 1] ELSE w[i]
  <2>1. p \in Nat \ {0} /\ p - 1 + Len(u) <= Len(w)
    BY <1>1, <1>2, <1>3
  <2>2. w \in Seq(Glyph) /\ u \in Seq(Glyph)
    BY <1>2, <1>3
  <2> HIDE DEF p, v
  <2>3. /\ Over(w, p, u) \in Seq(Glyph) /\ Len(Over(w, p, u)) = Len(w)
        /\ \A i \in 1 .. Len(w) :
             Over(w, p, u)[i] = IF p <= i /\ i < p + Len(u) THEN u[i - p + 1] ELSE w[i]
    BY <2>1, <2>2, OverType
  <2> QED
    BY <2>3 DEF v
<1> HIDE DEF v
<1>5. ASSUME NEW i \in 1 .. n
      PROVE  v[i] = IF i <= k THEN time[i] ELSE IF i = k + 1 THEN "sp" ELSE "nul"
  <2>1. CASE i <= k
    <3>1. ~(p <= i)
      BY <1>1, <2>1
    <3> QED
      BY <1>2, <1>4, <2>1, <3>1
  <2>2. CASE i = k + 1
    <3>1. /\ p <= i /\ i < p + Len(u) /\ i - p + 1 = 1 /\ ~(i <= k)
      BY <1>1, <1>3, <2>2
    <3> QED
      BY <1>2, <1>3, <1>4, <2>2, <3>1
  <2>3. CASE i = k + 2
    <3>1. /\ p <= i /\ i < p + Len(u) /\ i - p + 1 = 2
          /\ ~(i <= k) /\ i # k + 1
      BY <1>1, <1>3, <2>3
    <3> QED
      BY <1>2, <1>3, <1>4, <3>1
  <2>4. CASE i > k + 2
    <3>1. ~(i < p + Len(u)) /\ ~(i <= k) /\ i # k + 1
      BY <1>1, <1>3, <2>4
    <3> QED
      BY <1>2, <1>4, <3>1
  <2>5. i <= k \/ i = k + 1 \/ i = k + 2 \/ i > k + 2
    BY <1>1
  <2> QED
    BY <2>1, <2>2, <2>3, <2>4, <2>5
<1> QED
  BY <1>2, <1>4, <1>5 DEF n, k, v, w, u, p

\* ConcatProperties, with names for the lengths.
LEMMA Joined ==
  ASSUME NEW S, NEW s \in Seq(S), NEW t \in Seq(S), NEW k, Len(s) = k,
         NEW m, Len(t) = m
  PROVE  /\ s \o t \in Seq(S) /\ Len(s \o t) = k + m
         /\ \A i \in 1 .. k + m : (s \o t)[i] = IF i <= k THEN s[i] ELSE t[i - k]
BY ConcatProperties

\* A line as it should be.
Line(time, msg) == time \o <<"sp">> \o msg \o <<"nl">>

\* What it consists of, place by place.
LEMMA LineType ==
  ASSUME NEW time \in Seq(Printed), NEW msg \in Seq(Printed)
  PROVE  LET k == Len(time)
             m == Len(msg)
             v == Line(time, msg)
         IN  /\ v \in Seq(Glyph) /\ Len(v) = k + m + 2
             /\ \A i \in 1 .. k + m + 2 :
                  v[i] = IF i <= k THEN time[i] ELSE IF i = k + 1 THEN "sp"
                         ELSE IF i <= k + 1 + m THEN msg[i - (k + 1)] ELSE "nl"
<1> DEFINE k == Len(time)
           m == Len(msg)
           a == time \o <<"sp">>
           b == a \o msg
           z == <<"nl">>
           v == b \o z
<1>1. k \in Nat /\ m \in Nat
  BY LenProperties
<1>2. time \in Seq(Glyph) /\ msg \in Seq(Glyph)
  BY SeqMonotonic DEF Glyph
<1>3. /\ <<"sp">> \in Seq(Glyph) /\ Len(<<"sp">>) = 1 /\ <<"sp">>[1] = "sp"
      /\ z \in Seq(Glyph) /\ Len(z) = 1 /\ z[1] = "nl"
  BY DEF Glyph, Printed
<1>4. /\ a \in Seq(Glyph) /\ Len(a) = k + 1
      /\ \A i \in 1 .. k + 1 : a[i] = IF i <= k THEN time[i] ELSE <<"sp">>[i - k]
  BY <1>2, <1>3, ConcatProperties
<1> HIDE DEF a
<1>5. /\ b \in Seq(Glyph) /\ Len(b) = k + 1 + m
      /\ \A i \in 1 .. k + 1 + m : b[i] = IF i <= k + 1 THEN a[i] ELSE msg[i - (k + 1)]
  <2>1. a \in Seq(Glyph) /\ msg \in Seq(Glyph) /\ Len(a) = k + 1 /\ Len(msg) = m
    BY <1>2, <1>4
  <2> HIDE DEF k, m
  <2>2. /\ a \o msg \in Seq(Glyph) /\ Len(a \o msg) = Len(a) + Len(msg)
        /\ \A i \in 1 .. Len(a) + Len(msg) :
             (a \o msg)[i] = IF i <= Len(a) THEN a[i] ELSE msg[i - Len(a)]
    BY <2>1, ConcatProperties
  <2> QED
    BY <2>1, <2>2
<1> HIDE DEF b, z
<1>6. /\ v \in Seq(Glyph) /\ Len(v) = k + 1 + m + 1
      /\ \A i \in 1 .. k + 1 + m + 1 :
           v[i] = IF i <= k + 1 + m THEN b[i] ELSE z[i - (k + 1 + m)]
  <2> DEFINE j == k + 1 + m
  <2>1. b \in Seq(Glyph) /\ z \in Seq(Glyph) /\ Len(b) = j /\ Len(z) = 1
    BY <1>3, <1>5
  <2> HIDE DEF j
  <2>2. /\ b \o z \in Seq(Glyph) /\ Len(b \o z) = Len(b) + Len(z)
        /\ \A i \in 1 .. Len(b) + Len(z) :
             (b \o z)[i] = IF i <= Len(b) THEN b[i] ELSE z[i - Len(b)]
    BY <2>1, ConcatProperties
  <2> QED
    BY <2>1, <2>2 DEF j
<1> HIDE DEF v, k, m
<1>7. k + 1 + m + 1 = k + m + 2
  BY <1>1
<1>8. ASSUME NEW i \in 1 .. k + m + 2
      PROVE  v[i] = IF i <= k THEN time[i] ELSE IF i = k + 1 THEN "sp"
                    ELSE IF i <= k + 1 + m THEN msg[i - (k + 1)] ELSE "nl"
  <2>1. CASE i <= k
    <3>1. i <= k + 1 /\ i <= k + 1 + m /\ i \in 1 .. k + 1 /\ i \in 1 .. k + 1 + m
      BY <1>1, <2>1
    <3> QED
      BY <1>4, <1>5, <1>6, <1>7, <2>1, <3>1
  <2>2. CASE i = k + 1
    <3>1. /\ i <= k + 1 /\ i <= k + 1 + m /\ i \in 1 .. k + 1 /\ i \in 1 .. k + 1 + m
          /\ ~(i <= k) /\ i - k = 1
      BY <1>1, <2>2
    <3> QED
      BY <1>3, <1>4, <1>5, <1>6, <1>7, <2>2, <3>1
  <2>3. CASE k + 1 < i /\ i <= k + 1 + m
    <3>1. i \in 1 .. k + 1 + m /\ ~(i <= k) /\ ~(i <= k + 1) /\ i # k + 1
      BY <1>1, <2>3
    <3> QED
      BY <1>5, <1>6, <1>7, <2>3, <3>1
  <2>4. CASE i = k + m + 2
    <3>1. /\ ~(i <= k) /\ i # k + 1 /\ ~(i <= k + 1 + m) /\ i - (k + 1 + m) = 1
      BY <1>1, <2>4
    <3> QED
      BY <1>3, <1>6, <1>7, <3>1
  <2>5. i <= k \/ i = k + 1 \/ (k + 1 < i /\ i <= k + 1 + m) \/ i = k + m + 2
    BY <1>1
  <2> QED
    BY <2>1, <2>2, <2>3, <2>4, <2>5
<1>9. Line(time, msg) = v
  BY DEF Line, v, b, a, z
<1> QED
  BY <1>6, <1>7, <1>8, <1>9 DEF k, m

\* A line of any message pmsg can format goes over whatever was in the buffer,
\* and is written as it should be.
LEMMA PrintSteps ==
  ASSUME msgbuf \in Seq(Glyph), Len(msgbuf) = LOGMSGBUF_SIZE,
         NEW time \in Seq(Printed), Len(time) <= 21,
         NEW msg \in Seq(Printed), Len(msg) <= 255, iwlog_print_msg(time, msg)
  PROVE  /\ msgbuf' \in Seq(Glyph) /\ Len(msgbuf') = LOGMSGBUF_SIZE
         /\ line' = [time |-> time, msg |-> msg, written |-> Line(time, msg)]
<1> DEFINE n       == LOGMSGBUF_SIZE
           k       == Len(time)
           m       == Len(msg)
           stamped == Over(Padded(msgbuf, time), k + 1, <<"sp", "nul">>)
           part    == SubSeq(msg, 1, Min({m, n - (k + 1) - 2}))
           full    == Over(stamped, k + 1 + 1, part)
           ended   == Over(full, strlen(full) + 1, <<"nl">>)
           done    == Over(ended, strlen(ended) + 2, <<"nul">>)
           at      == k + 2
           end     == k + m + 2
<1>1. /\ n \in Nat /\ k \in Nat /\ m \in Nat /\ n = 280 /\ k <= 21 /\ m <= 255
      /\ at \in Nat /\ end \in Nat /\ end = at + m /\ end + 2 <= n /\ at > k
  BY LenProperties DEF LOGMSGBUF_SIZE, TIMESTRLEN_MAX, IW_LOGMSGLEN_MAX
<1>2. /\ stamped \in Seq(Glyph) /\ Len(stamped) = n
      /\ \A i \in 1 .. n :
           stamped[i] = IF i <= k THEN time[i] ELSE IF i = k + 1 THEN "sp" ELSE "nul"
  <2>1. Len(time) + 2 <= LOGMSGBUF_SIZE
    BY <1>1
  <2>2. LET v == Over(Padded(msgbuf, time), Len(time) + 1, <<"sp", "nul">>)
        IN  /\ v \in Seq(Glyph) /\ Len(v) = LOGMSGBUF_SIZE
            /\ \A i \in 1 .. LOGMSGBUF_SIZE :
                 v[i] = IF i <= Len(time) THEN time[i]
                        ELSE IF i = Len(time) + 1 THEN "sp" ELSE "nul"
    BY <2>1, StampedType, Zenon
  <2> QED
    BY <2>2
<1>3. part = msg
  <2>1. Min({m, n - (k + 1) - 2}) = m
    <3> DEFINE room == n - (k + 1) - 2
    <3>1. room \in Int /\ m \in Int /\ m <= room
      BY <1>1
    <3> HIDE DEF room
    <3>2. Min({m, room}) = IF m <= room THEN m ELSE room
      BY <3>1, MinOfTwo
    <3>3. Min({m, room}) = m
      BY <3>1, <3>2
    <3> QED
      BY <3>3 DEF room
  <2> QED
    BY <2>1, SubSeqFull
<1>4. msg \in Seq(Glyph) /\ time \in Seq(Glyph)
  BY SeqMonotonic DEF Glyph
<1>5. /\ \A i \in 1 .. k : time[i] # "nul"
      /\ \A i \in 1 .. m : msg[i] # "nul"
  <2>1. ASSUME NEW i \in 1 .. k PROVE time[i] # "nul"
    <3>1. time[i] \in Printed
      BY ElementOfSeq
    <3> QED
      BY <3>1 DEF Printed
  <2>2. ASSUME NEW i \in 1 .. m PROVE msg[i] # "nul"
    <3>1. msg[i] \in Printed
      BY ElementOfSeq
    <3> QED
      BY <3>1 DEF Printed
  <2> QED
    BY <2>1, <2>2
<1>6. /\ full \in Seq(Glyph) /\ Len(full) = n
      /\ \A i \in 1 .. n :
           full[i] = IF at <= i /\ i < at + m THEN msg[i - at + 1] ELSE stamped[i]
  <2> HIDE DEF stamped, part, n
  <2>1. full = Over(stamped, at, msg)
    BY <1>1, <1>3
  <2>2. at \in Nat \ {0} /\ at - 1 + m <= n
    BY <1>1
  <2> HIDE DEF full, at
  <2> QED
    BY <1>2, <1>4, <2>1, <2>2, OverType
<1> HIDE DEF stamped, part, full, n, at, end, k, m
<1>7. strlen(full) = end - 1 /\ end - 1 + 1 = end
  <2>1. full[end] = "nul"
    <3>1. ~(end < at + m) /\ end \in 1 .. n /\ ~(end <= k) /\ end # k + 1
      BY <1>1 DEF at, end
    <3> QED
      BY <1>2, <1>6, <3>1
  <2>2. ASSUME NEW i \in 1 .. end - 1 PROVE full[i] # "nul"
    <3>1. CASE i <= k + 1
      <4>1. i \in 1 .. n /\ ~(at <= i)
        BY <1>1, <3>1 DEF at
      <4>2. i <= k \/ i = k + 1
        BY <1>1, <3>1
      <4>3. i <= k => i \in 1 .. k
        BY <1>1, <4>1
      <4>4. stamped[i] # "nul"
        BY <1>2, <1>5, <4>1, <4>2, <4>3
      <4> QED
        BY <1>6, <4>1, <4>4
    <3>2. CASE i > k + 1
      <4>1. i \in 1 .. n /\ at <= i /\ i < at + m /\ i - at + 1 \in 1 .. m
        BY <1>1, <3>2 DEF at
      <4> QED
        BY <1>5, <1>6, <4>1
    <3> QED
      BY <1>1, <3>1, <3>2
  <2>3. end - 1 \in Nat /\ end - 1 < Len(full) /\ end - 1 + 1 = end
    BY <1>1, <1>6 DEF end
  <2> QED
    BY <1>6, <2>1, <2>2, <2>3, StrlenIs
<1>8. /\ ended \in Seq(Glyph) /\ Len(ended) = n
      /\ \A i \in 1 .. n : ended[i] = IF i = end THEN "nl" ELSE full[i]
  <2>1. end \in 1 .. Len(full) /\ "nl" \in Glyph
    BY <1>1, <1>6 DEF Glyph, Printed
  <2>2. ended = Over(full, end, <<"nl">>)
    BY <1>7
  <2> HIDE DEF ended
  <2> QED
    BY <1>6, <2>1, <2>2, OverOne
<1> HIDE DEF ended
<1>9. /\ \A i \in end + 1 .. n : ended[i] = "nul"
      /\ \A i \in 1 .. end : ended[i] = Line(time, msg)[i] /\ ended[i] # "nul"
  <2>1. ASSUME NEW i \in end + 1 .. n PROVE ended[i] = "nul"
    <3>1. i \in 1 .. n /\ i # end /\ ~(i < at + m) /\ ~(i <= k) /\ i # k + 1
      BY <1>1
    <3> QED
      BY <1>2, <1>6, <1>8, <3>1
  <2>2. ASSUME NEW i \in 1 .. end PROVE ended[i] = Line(time, msg)[i] /\ ended[i] # "nul"
    <3>0. i \in 1 .. n /\ i \in 1 .. k + m + 2
      BY <1>1 DEF end
    <3>1. Line(time, msg)[i] = IF i <= k THEN time[i] ELSE IF i = k + 1 THEN "sp"
                               ELSE IF i <= k + 1 + m THEN msg[i - (k + 1)] ELSE "nl"
      BY <3>0, LineType DEF k, m
    <3>2. CASE i <= k + 1
      <4>1. i # end /\ ~(at <= i)
        BY <1>1, <3>2 DEF at, end
      <4>2. ended[i] = IF i <= k THEN time[i] ELSE "sp"
        <5>1. ended[i] = stamped[i]
          BY <1>6, <1>8, <3>0, <4>1
        <5>2. i <= k \/ i = k + 1
          BY <1>1, <3>2
        <5> QED
          BY <1>2, <3>0, <5>1, <5>2
      <4>3. i <= k \/ i = k + 1
        BY <1>1, <3>2
      <4>4. i <= k => i \in 1 .. k
        BY <1>1
      <4> QED
        BY <1>5, <3>1, <4>2, <4>3, <4>4
    <3>3. CASE k + 1 < i /\ i < end
      <4>1. /\ at <= i /\ i < at + m /\ i - at + 1 = i - (k + 1) /\ i - (k + 1) \in 1 .. m
            /\ i # end /\ ~(i <= k) /\ i # k + 1 /\ i <= k + 1 + m
        BY <1>1, <3>3 DEF at, end
      <4> QED
        BY <1>5, <1>6, <1>8, <3>0, <3>1, <4>1
    <3>4. CASE i = end
      <4>1. ~(i <= k) /\ i # k + 1 /\ ~(i <= k + 1 + m)
        BY <1>1, <3>4 DEF end
      <4> QED
        BY <1>8, <3>0, <3>1, <3>4, <4>1
    <3> QED
      BY <1>1, <3>2, <3>3, <3>4
  <2> QED
    BY <2>1, <2>2
<1>10. strlen(ended) = end
  <2>1. end < Len(ended) /\ end + 1 \in end + 1 .. n
    BY <1>1, <1>8
  <2>2. ended[end + 1] = "nul" /\ \A i \in 1 .. end : ended[i] # "nul"
    BY <1>9, <2>1
  <2> QED
    BY <1>1, <1>8, <2>1, <2>2, StrlenIs
<1>11. /\ done \in Seq(Glyph) /\ Len(done) = n
       /\ \A i \in 1 .. n : done[i] = IF i = end + 2 THEN "nul" ELSE ended[i]
  <2>1. end + 2 \in 1 .. Len(ended) /\ "nul" \in Glyph
    BY <1>1, <1>8 DEF Glyph
  <2>2. done = Over(ended, end + 2, <<"nul">>)
    BY <1>10
  <2> HIDE DEF done
  <2> QED
    BY <1>8, <2>1, <2>2, OverOne
<1> HIDE DEF done
<1>12. \A i \in 1 .. n : done[i] = ended[i]
  <2>1. end + 2 \in end + 1 .. n
    BY <1>1
  <2>2. ended[end + 2] = "nul"
    BY <1>9, <2>1
  <2> QED
    BY <1>11, <2>2
<1>13. strlen(done) = end
  <2>1. /\ end < Len(done) /\ end + 1 \in 1 .. n /\ end + 1 \in end + 1 .. n
        /\ \A i \in 1 .. end : i \in 1 .. n
    <3>1. Len(done) = n
      BY <1>11
    <3> QED
      BY <1>1, <3>1
  <2>2. done[end + 1] = "nul" /\ \A i \in 1 .. end : done[i] # "nul"
    BY <1>9, <1>12, <2>1
  <2> QED
    BY <1>1, <1>11, <2>1, <2>2, StrlenIs
<1>14. SubSeq(done, 1, end) = Line(time, msg)
  <2>0. \A i \in 1 .. end : i \in 1 .. n
    BY <1>1
  <2>1. \A i \in 1 .. end : done[i] \in Glyph
    BY <1>11, <2>0, ElementOfSeq
  <2>2. /\ SubSeq(done, 1, end) \in Seq(Glyph)
        /\ Len(SubSeq(done, 1, end)) = end
        /\ \A i \in 1 .. end : SubSeq(done, 1, end)[i] = done[i]
    BY <1>1, <2>1, SubSeqProperties
  <2>3. Line(time, msg) \in Seq(Glyph) /\ Len(Line(time, msg)) = end
    BY LineType DEF end, k, m
  <2>4. \A i \in 1 .. end : done[i] = Line(time, msg)[i]
    BY <1>9, <1>12, <2>0
  <2> QED
    BY <2>2, <2>3, <2>4, SeqEqual
<1>15. msgbuf' = done /\ line' = [time |-> time, msg |-> msg,
                                written |-> SubSeq(done, 1, strlen(done))]
  BY DEF iwlog_print_msg, done, ended, full, part, stamped, n, k, m
<1> QED
  BY <1>11, <1>13, <1>14, <1>15 DEF n

----------------------------------------------------------------------------
(***************************************************************************)
(* Paths                                                                   *)
(***************************************************************************)

\* What names and buffers of join_path consist of.
Char ==
  {"/", "nul"} \cup (UNION {{name[i] : i \in DOMAIN name} : name \in Heads \cup Tails})

\* The names are over these characters.
LEMMA NamesType == \A name \in Heads \cup Tails : name \in Seq(Char)
<1> SUFFICES ASSUME NEW name \in Heads \cup Tails PROVE name \in Seq(Char)
  OBVIOUS
<1> DEFINE S == {name[i] : i \in DOMAIN name}
<1>1. name \in Seq(S) /\ S \subseteq Char
  BY BuffersAssumption DEF Char
<1> HIDE DEF S
<1> QED
  BY <1>1, SeqMonotonic

\* The name without its slashes is a name, and no longer.
LEMMA UnrootedType ==
  ASSUME NEW tail \in Seq(Char)
  PROVE  Unrooted(tail) \in Seq(Char) /\ Len(Unrooted(tail)) <= Len(tail)
<1> DEFINE T == {i \in 1 .. Len(tail) : tail[i] # "/"} \cup {Len(tail) + 1}
<1>1. Len(tail) \in Nat
  BY LenProperties
<1>2. T \in SUBSET Nat /\ T # {} /\ \A i \in T : 1 <= i /\ i <= Len(tail) + 1
  BY <1>1
<1> HIDE DEF T
<1>3. PICK l \in T : \A i \in T : l <= i
  BY <1>2, LeastElement
<1>4. Min(T) = l /\ l \in Nat /\ 1 <= l /\ l <= Len(tail) + 1
  BY <1>2, <1>3, MinIs
<1>5. Unrooted(tail) = SubSeq(tail, l, Len(tail))
  BY <1>4 DEF Unrooted, T
<1>6. \A i \in l .. Len(tail) : tail[i] \in Char
  BY <1>1, <1>4, ElementOfSeq
<1>7. /\ SubSeq(tail, l, Len(tail)) \in Seq(Char)
      /\ Len(SubSeq(tail, l, Len(tail))) = IF l <= Len(tail) THEN Len(tail) - l + 1 ELSE 0
  BY <1>1, <1>4, <1>6, SubSeqProperties
<1> QED
  BY <1>1, <1>4, <1>5, <1>7

\* join_path in the space its callers allocate.
LEMMA JoinSteps ==
  ASSUME NEW head \in Heads, NEW tail \in Tails
  PROVE  LET size == PathSize(head, tail)
             r    == join_path(head, tail, size)
         IN  /\ r.ret # -1 /\ Len(r.buf) <= size
             /\ Separator(head) = <<>> => r.buf = head \o Unrooted(tail) \o <<"nul">>
             /\ Separator(head) # <<>> =>
                  r.buf = head \o <<"/">> \o Unrooted(tail) \o <<"nul">>
<1> DEFINE size   == PathSize(head, tail)
           r      == join_path(head, tail, size)
           u      == Unrooted(tail)
           sep    == Separator(head)
           joined == head \o sep \o u
<1>1. head \in Seq(Char) /\ tail \in Seq(Char)
  BY NamesType
<1>2. u \in Seq(Char) /\ Len(u) <= Len(tail)
  BY <1>1, UnrootedType
<1>3. Len(head) \in Nat /\ Len(tail) \in Nat /\ Len(u) \in Nat
  BY <1>1, <1>2, LenProperties
<1>4. /\ sep \in Seq(Char) /\ Len(sep) \in Nat /\ Len(sep) <= 1
      /\ sep # <<>> => sep = <<"/">>
  <2>1. sep = <<>> \/ sep = <<"/">>
    BY DEF Separator
  <2>2. <<>> \in Seq(Char) /\ Len(<<>>) = 0
    OBVIOUS
  <2>3. "/" \in Char
    BY DEF Char
  <2>4. <<"/">> \in Seq(Char) /\ Len(<<"/">>) = 1
    BY <2>3
  <2> HIDE DEF sep
  <2>5. CASE sep = <<>>
    BY <2>2, <2>5
  <2>6. CASE sep = <<"/">>
    BY <2>4, <2>6
  <2> QED
    BY <2>1, <2>5, <2>6
<1> HIDE DEF u, sep
<1>5. head \o sep \in Seq(Char) /\ Len(head \o sep) = Len(head) + Len(sep)
  BY <1>1, <1>4, ConcatProperties
<1>6. joined \in Seq(Char) /\ Len(joined) = Len(head \o sep) + Len(u)
  BY <1>2, <1>5, ConcatProperties
<1> HIDE DEF joined
<1>7. Len(head) + Len(u) < size /\ size = Len(head) + Len(tail) + 2
  BY <1>2, <1>3 DEF PathSize
<1> HIDE DEF size
<1>8. r = [ret |-> Len(head) + Len(u), buf |-> Append(joined, "nul")]
  BY <1>7 DEF join_path, u, sep, joined
<1>9. Append(joined, "nul") = joined \o <<"nul">> /\ Len(Append(joined, "nul")) = Len(joined) + 1
  <2>1. "nul" \in Char
    BY DEF Char
  <2> QED
    BY <1>6, <2>1
<1>10. r.ret # -1 /\ Len(r.buf) <= size
  <2>1. Len(joined) + 1 <= size
    <3>1. Len(joined) = Len(head) + Len(sep) + Len(u) /\ Len(u) <= Len(tail)
      BY <1>2, <1>5, <1>6
    <3> QED
      BY <1>3, <1>4, <1>7, <3>1
  <2>2. r.ret = Len(head) + Len(u) /\ r.buf = Append(joined, "nul")
    BY <1>8
  <2> HIDE DEF r
  <2> QED
    BY <1>3, <1>9, <2>1, <2>2
<1>11. sep = <<>> => joined = head \o u
  BY <1>1, ConcatEmptySeq DEF joined
<1>12. sep # <<>> => joined = head \o <<"/">> \o u
  BY <1>4 DEF joined
<1> QED
  BY <1>8, <1>9, <1>10, <1>11, <1>12 DEF u, sep, size

----------------------------------------------------------------------------
(***************************************************************************)
(* Datagrams                                                               *)
(***************************************************************************)

\* What the receive buffer holds.
Byte == Letter \cup OpcodeByte \cup {0}

\* The sizes, as numbers.
LEMMA Sizes ==
  /\ NWBUF_SIZE \in Nat /\ TFTP_FILENAME_MAX \in Nat /\ TFTP_MODENAME_MAX \in Nat
  /\ TFTP_DATALEN_MAX \in Nat /\ TFTP_EMSGLEN_MAX \in Nat
  /\ NWBUF_SIZE >= 2 + TFTP_FILENAME_MAX + TFTP_MODENAME_MAX
  /\ NWBUF_SIZE >= 4 + TFTP_EMSGLEN_MAX /\ NWBUF_SIZE > 4 + TFTP_DATALEN_MAX
  /\ Octet \in Seq(Letter) /\ Netascii \in Seq(Letter)
  /\ Len(Netascii) + 1 = TFTP_MODENAME_MAX /\ Len(Octet) < Len(Netascii)
BY BuffersAssumption

\* A datagram fits.
LEMMA DatagramType ==
  ASSUME NEW d \in Datagram
  PROVE  d \in Seq(Byte) /\ Len(d) \in 0 .. NWBUF_SIZE
<1> DEFINE D == UNION {TailOf(n) : n \in 0 .. NWBUF_SIZE - 2}
<1>1. CASE d = <<>>
  BY <1>1, Sizes, EmptySeq
<1>2. CASE d = <<0>>
  <2>1. <<0>> \in Seq(Byte) /\ Len(<<0>>) = 1
    BY DEF Byte
  <2>2. 1 \in 0 .. NWBUF_SIZE
    BY Sizes
  <2> QED
    BY <1>2, <2>1, <2>2
<1>3. CASE \E op \in OpcodeByte, t \in D :
             d = <<0, op>> \o t
  <2>1. PICK op \in OpcodeByte, t \in D :
          d = <<0, op>> \o t
    BY <1>3
  <2>2. PICK n \in 0 .. NWBUF_SIZE - 2 : t \in [1 .. n -> Letter \cup {0}]
    BY DEF TailOf
  <2>3. n \in Nat
    BY <2>2
  <2>4. t \in Seq(Letter \cup {0})
    BY <2>2, <2>3, SeqDef
  <2>5. t \in Seq(Byte)
    BY <2>4, SeqMonotonic DEF Byte
  <2>6. Len(t) = n
    BY <2>2, <2>3, <2>5, LenProperties
  <2>7. <<0, op>> \in Seq(Byte) /\ Len(<<0, op>>) = 2
    BY DEF Byte
  <2> DEFINE u == <<0, op>>
  <2> HIDE DEF u
  <2>8. u \o t \in Seq(Byte) /\ Len(u \o t) = Len(u) + Len(t)
    BY <2>5, <2>7, ConcatProperties DEF u
  <2>9. Len(u) + Len(t) \in 0 .. NWBUF_SIZE
    BY <2>2, <2>6, <2>7, Sizes DEF u
  <2> QED
    BY <2>1, <2>8, <2>9 DEF u
<1>4. d = <<>> \/ d = <<0>> \/ \E op \in OpcodeByte : d \in WithOpcode(op)
  BY DEF Datagram
<1>5. \A op : d \in WithOpcode(op) => \E t \in D : d = <<0, op>> \o t
  BY DEF WithOpcode
<1> QED
  BY <1>1, <1>2, <1>3, <1>4, <1>5

\* recvfrom stays within the buffer.
LEMMA RecvSteps ==
  ASSUME rbuf \in Seq(Byte), Len(rbuf) = NWBUF_SIZE, recvfrom
  PROVE  /\ rbuf' \in Seq(Byte) /\ Len(rbuf') = NWBUF_SIZE
         /\ dlen' \in 0 .. NWBUF_SIZE
<1>1. PICK d \in Datagram : rbuf' = Over(rbuf, 1, d) /\ dlen' = Len(d)
  BY DEF recvfrom
<1>2. d \in Seq(Byte) /\ Len(d) \in 0 .. NWBUF_SIZE
  BY DatagramType
<1>3. 1 \in Nat \ {0} /\ 1 - 1 + Len(d) <= Len(rbuf)
  BY <1>2, Sizes
<1> QED
  BY <1>1, <1>2, <1>3, OverType

\* The text at p ends in front of m.
Ends(buf, p, m) ==
  /\ m \in p .. Len(buf) /\ buf[m] = 0
  /\ \A i \in p .. m - 1 : buf[i] # 0

\* What Text returns then.
LEMMA TextIs ==
  ASSUME NEW buf \in Seq(Byte), NEW p \in Nat \ {0}, NEW m \in Nat, Ends(buf, p, m)
  PROVE  /\ Text(buf, p) = SubSeq(buf, p, m - 1) /\ Len(Text(buf, p)) = m - p
         /\ Text(buf, p) \in Seq(Byte)
<1> DEFINE T == {i \in p .. Len(buf) : buf[i] = 0} \cup {Len(buf) + 1}
<1>1. Len(buf) \in Nat
  BY LenProperties
<1>2. T \in SUBSET Nat /\ m \in T /\ p <= m /\ m <= Len(buf)
  BY <1>1 DEF Ends
<1>3. \A i \in T : m <= i
  BY <1>1 DEF Ends
<1>4. Min(T) = m
  <2> HIDE DEF T
  <2> QED
    BY <1>2, <1>3, MinIs
<1>5. Text(buf, p) = SubSeq(buf, p, m - 1)
  BY <1>4 DEF Text
<1>6. \A i \in p .. m - 1 : buf[i] \in Byte
  BY <1>1, <1>2, ElementOfSeq
<1>7. /\ SubSeq(buf, p, m - 1) \in Seq(Byte)
      /\ Len(SubSeq(buf, p, m - 1)) = IF p <= m - 1 THEN m - 1 - p + 1 ELSE 0
  BY <1>2, <1>6, SubSeqProperties
<1> QED
  BY <1>2, <1>5, <1>7

\* A text that is terminated within a limit ends there or before.
LEMMA EndsExists ==
  ASSUME NEW buf \in Seq(Byte), NEW p \in Nat \ {0}, NEW max \in Nat,
         Terminated(buf, p, max), p + max - 1 <= Len(buf)
  PROVE  \E m \in Nat : m <= p + max - 1 /\ Ends(buf, p, m)
<1> DEFINE T == {i \in p .. p + max - 1 : buf[i] = 0}
<1>1. Len(buf) \in Nat
  BY LenProperties
<1>2. T \in SUBSET Nat /\ T # {}
  BY DEF Terminated
<1>3. PICK m \in T : \A i \in T : m <= i
  <2> HIDE DEF T
  <2> QED
    BY <1>2, LeastElement
<1>4. m \in Nat /\ p <= m /\ m <= p + max - 1 /\ buf[m] = 0
  OBVIOUS
<1>5. ASSUME NEW i \in p .. m - 1, buf[i] = 0 PROVE FALSE
  <2>1. i \in T
    BY <1>4, <1>5
  <2> HIDE DEF T
  <2>2. m <= i
    BY <1>3, <2>1
  <2> QED
    BY <1>4, <1>5, <2>2
<1>6. m \in p .. Len(buf)
  BY <1>1, <1>4
<1> QED
  BY <1>4, <1>5, <1>6 DEF Ends

\* Pieces that agree place by place.
LEMMA SubSeqSame ==
  ASSUME NEW s \in Seq(Byte), NEW t \in Seq(Byte), NEW m \in Nat \ {0}, NEW n \in Int,
         n <= Len(s), n <= Len(t), \A i \in m .. n : s[i] = t[i]
  PROVE  SubSeq(s, m, n) = SubSeq(t, m, n)
<1>1. Len(s) \in Nat /\ Len(t) \in Nat
  BY LenProperties
<1>2. \A i \in m .. n : s[i] \in Byte /\ t[i] \in Byte
  BY <1>1, ElementOfSeq
<1>3. /\ SubSeq(s, m, n) \in Seq(Byte)
      /\ Len(SubSeq(s, m, n)) = IF m <= n THEN n - m + 1 ELSE 0
      /\ \A i \in 1 .. n - m + 1 : SubSeq(s, m, n)[i] = s[m + i - 1]
  BY <1>2, SubSeqProperties
<1>4. /\ SubSeq(t, m, n) \in Seq(Byte)
      /\ Len(SubSeq(t, m, n)) = IF m <= n THEN n - m + 1 ELSE 0
      /\ \A i \in 1 .. n - m + 1 : SubSeq(t, m, n)[i] = t[m + i - 1]
  BY <1>2, SubSeqProperties
<1>5. ASSUME NEW i \in 1 .. Len(SubSeq(s, m, n))
      PROVE  SubSeq(s, m, n)[i] = SubSeq(t, m, n)[i]
  <2>1. i \in 1 .. n - m + 1 /\ m + i - 1 \in m .. n
    BY <1>3
  <2> QED
    BY <1>3, <1>4, <2>1
<1>6. Len(SubSeq(s, m, n)) = Len(SubSeq(t, m, n))
  BY <1>3, <1>4
<1> QED
  BY <1>3, <1>4, <1>5, <1>6, SeqEqual

\* What each kind of message asks of the buffer.
LEMMA ParsedKinds ==
  ASSUME NEW buf, NEW len
  PROVE  /\ Parsed(buf, len).kind = "request" =>
              /\ Opcode(buf) = OP_RRQ /\ NameTerminated(buf)
              /\ Text(buf, ModeAt(buf)) \in {Octet, Netascii}
              /\ Parsed(buf, len).filename = Text(buf, 3)
              /\ Parsed(buf, len).mode = Text(buf, ModeAt(buf))
         /\ Parsed(buf, len).kind = "data" =>
              /\ Opcode(buf) = OP_DATA /\ len >= 4 /\ len - 4 <= TFTP_DATALEN_MAX
         /\ Parsed(buf, len).kind = "ack" =>
              /\ Opcode(buf) = OP_ACK /\ len = 4
         /\ Parsed(buf, len).kind = "error" =>
              /\ Opcode(buf) = OP_ERROR /\ len >= 5 /\ Terminated(buf, 5, TFTP_EMSGLEN_MAX)
<1>1. CASE Opcode(buf) = OP_RRQ
  <2>1. Parsed(buf, len) = parse_tftpreq(buf, len)
    BY <1>1 DEF Parsed, OP_RRQ, OP_DATA, OP_ACK, OP_ERROR
  <2> QED
    BY <1>1, <2>1 DEF parse_tftpreq, Rejected
<1>2. CASE Opcode(buf) = OP_DATA
  <2>1. Parsed(buf, len) = parse_tftpdata(buf, len)
    BY <1>2 DEF Parsed, OP_RRQ, OP_DATA, OP_ACK, OP_ERROR
  <2> QED
    BY <1>2, <2>1 DEF parse_tftpdata, Rejected
<1>3. CASE Opcode(buf) = OP_ACK
  <2>1. Parsed(buf, len) = parse_tftpack(buf, len)
    BY <1>3 DEF Parsed, OP_RRQ, OP_DATA, OP_ACK, OP_ERROR
  <2> QED
    BY <1>3, <2>1 DEF parse_tftpack, Rejected
<1>4. CASE Opcode(buf) = OP_ERROR
  <2>1. Parsed(buf, len) = parse_tftperror(buf, len)
    BY <1>4 DEF Parsed, OP_RRQ, OP_DATA, OP_ACK, OP_ERROR
  <2> QED
    BY <1>4, <2>1 DEF parse_tftperror, Rejected
<1>5. CASE Opcode(buf) \notin {OP_RRQ, OP_DATA, OP_ACK, OP_ERROR}
  <2>1. Parsed(buf, len) = Rejected
    BY <1>5 DEF Parsed
  <2> QED
    BY <2>1 DEF Rejected
<1> QED
  BY <1>1, <1>2, <1>3, <1>4, <1>5

\* A request that is accepted has names of the sizes that sessions have.
LEMMA RequestSteps ==
  ASSUME rbuf \in Seq(Byte), Len(rbuf) = NWBUF_SIZE
  PROVE  RequestsFit
<1> SUFFICES ASSUME Parsed(rbuf, dlen).kind = "request"
             PROVE  /\ Len(Parsed(rbuf, dlen).filename) < TFTP_FILENAME_MAX
                    /\ Parsed(rbuf, dlen).mode \in {Octet, Netascii}
  BY DEF RequestsFit
<1>1. /\ NameTerminated(rbuf) /\ Text(rbuf, ModeAt(rbuf)) \in {Octet, Netascii}
      /\ Parsed(rbuf, dlen).filename = Text(rbuf, 3)
      /\ Parsed(rbuf, dlen).mode = Text(rbuf, ModeAt(rbuf))
  BY ParsedKinds
<1>2. 3 \in Nat \ {0} /\ TFTP_FILENAME_MAX \in Nat
      /\ 3 + TFTP_FILENAME_MAX - 1 <= Len(rbuf)
  BY Sizes
<1>3. Terminated(rbuf, 3, TFTP_FILENAME_MAX)
  BY <1>1 DEF NameTerminated
<1>4. PICK m \in Nat : m <= 3 + TFTP_FILENAME_MAX - 1 /\ Ends(rbuf, 3, m)
  BY <1>2, <1>3, EndsExists
<1>5. Len(Text(rbuf, 3)) = m - 3
  BY <1>4, TextIs
<1>6. m - 3 < TFTP_FILENAME_MAX
  BY <1>2, <1>4
<1> QED
  BY <1>1, <1>5, <1>6

\* A clean buffer with the datagram has its bytes where they are.
LEMMA CleanType ==
  ASSUME rbuf \in Seq(Byte), Len(rbuf) = NWBUF_SIZE, dlen \in 0 .. NWBUF_SIZE
  PROVE  LET clean == Over(Fill(0, NWBUF_SIZE), 1, Datagram0)
         IN  /\ clean \in Seq(Byte) /\ Len(clean) = NWBUF_SIZE
             /\ \A i \in 1 .. dlen : clean[i] = rbuf[i]
<1> DEFINE zero  == Fill(0, NWBUF_SIZE)
           clean == Over(zero, 1, Datagram0)
<1>1. zero \in Seq(Byte) /\ Len(zero) = NWBUF_SIZE
  BY Sizes, FillType DEF Byte
<1>2. dlen \in Nat /\ dlen <= NWBUF_SIZE /\ NWBUF_SIZE \in Nat
  BY Sizes
<1>3. \A i \in 1 .. dlen : rbuf[i] \in Byte
  BY <1>2, ElementOfSeq
<1>4. /\ Datagram0 \in Seq(Byte) /\ Len(Datagram0) = IF 1 <= dlen THEN dlen - 1 + 1 ELSE 0
      /\ \A i \in 1 .. dlen - 1 + 1 : Datagram0[i] = rbuf[1 + i - 1]
  BY <1>2, <1>3, SubSeqProperties DEF Datagram0
<1>5. Len(Datagram0) = dlen /\ \A i \in 1 .. dlen : Datagram0[i] = rbuf[i]
  BY <1>2, <1>4
<1> HIDE DEF zero
<1>6. 1 \in Nat \ {0} /\ 1 - 1 + Len(Datagram0) <= Len(zero)
  BY <1>1, <1>2, <1>5
<1>7. /\ clean \in Seq(Byte) /\ Len(clean) = Len(zero)
      /\ \A i \in 1 .. Len(zero) :
           clean[i] = IF 1 <= i /\ i < 1 + Len(Datagram0) THEN Datagram0[i - 1 + 1] ELSE zero[i]
  BY <1>1, <1>4, <1>6, OverType
<1> HIDE DEF clean
<1>8. ASSUME NEW i \in 1 .. dlen PROVE clean[i] = rbuf[i]
  <2>1. i \in 1 .. Len(zero) /\ 1 <= i /\ i < 1 + Len(Datagram0) /\ i - 1 + 1 = i
    BY <1>1, <1>2, <1>5
  <2> QED
    BY <1>5, <1>7, <2>1
<1> QED
  BY <1>1, <1>7, <1>8 DEF clean, zero

\* Two buffers that agree on the bytes of a datagram agree on a DATA, an ACK and
\* an ERROR with a NUL of its own.
LEMMA SameBytes ==
  ASSUME NEW s \in Seq(Byte), NEW t \in Seq(Byte), NEW n \in Nat,
         n <= Len(s), n <= Len(t), n >= 4, \A i \in 1 .. n : s[i] = t[i]
  PROVE  /\ Opcode(s) = Opcode(t) /\ SubSeq(s, 3, 4) = SubSeq(t, 3, 4)
         /\ SubSeq(s, 5, n) = SubSeq(t, 5, n)
         /\ \A m \in Nat : m <= n /\ Ends(s, 5, m) =>
              Ends(t, 5, m) /\ Text(s, 5) = Text(t, 5)
<1>0. Len(s) \in Nat /\ Len(t) \in Nat
  BY LenProperties
<1>1. Opcode(s) = Opcode(t)
  BY DEF Opcode
<1>2. SubSeq(s, 3, 4) = SubSeq(t, 3, 4)
  <2>1. 3 \in Nat \ {0} /\ 4 <= Len(s) /\ 4 <= Len(t) /\ \A i \in 3 .. 4 : s[i] = t[i]
    BY <1>0
  <2> QED
    BY <2>1, SubSeqSame
<1>3. SubSeq(s, 5, n) = SubSeq(t, 5, n)
  <2>1. 5 \in Nat \ {0} /\ \A i \in 5 .. n : s[i] = t[i]
    OBVIOUS
  <2> QED
    BY <2>1, SubSeqSame
<1>4. ASSUME NEW m \in Nat, m <= n, Ends(s, 5, m)
      PROVE  Ends(t, 5, m) /\ Text(s, 5) = Text(t, 5)
  <2>1. 5 <= m /\ s[m] = 0 /\ \A i \in 5 .. m - 1 : s[i] # 0
    BY <1>4 DEF Ends
  <2>2. m \in 5 .. Len(t) /\ t[m] = 0
    BY <1>0, <1>4, <2>1
  <2>3. \A i \in 5 .. m - 1 : i \in 1 .. n
    BY <1>4
  <2>4. Ends(t, 5, m)
    BY <2>1, <2>2, <2>3 DEF Ends
  <2>5. SubSeq(s, 5, m - 1) = SubSeq(t, 5, m - 1)
    <3>1. 5 \in Nat \ {0} /\ m - 1 \in Int /\ m - 1 <= Len(s) /\ m - 1 <= Len(t)
          /\ \A i \in 5 .. m - 1 : s[i] = t[i]
      BY <1>0, <1>4, <2>3
    <3> QED
      BY <3>1, SubSeqSame
  <2>6. Text(s, 5) = SubSeq(s, 5, m - 1) /\ Text(t, 5) = SubSeq(t, 5, m - 1)
    BY <1>4, <2>4, TextIs
  <2> QED
    BY <2>4, <2>5, <2>6
<1> QED
  BY <1>1, <1>2, <1>3, <1>4

\* What is accepted is made of the bytes that arrived.
LEMMA OwnBytesSteps ==
  ASSUME rbuf \in Seq(Byte), Len(rbuf) = NWBUF_SIZE, dlen \in 0 .. NWBUF_SIZE
  PROVE  OwnBytesOnly
<1> DEFINE kind  == Parsed(rbuf, dlen).kind
           clean == Over(Fill(0, NWBUF_SIZE), 1, Datagram0)
<1> SUFFICES ASSUME kind \in {"data", "ack", "error"}
             PROVE  /\ dlen >= 4
                    /\ kind \in {"data", "ack"} \/ (\E i \in 5 .. dlen : rbuf[i] = 0) =>
                         Parsed(rbuf, dlen) = Parsed(clean, dlen)
  BY DEF OwnBytesOnly
<1>1. dlen \in Nat /\ dlen <= NWBUF_SIZE /\ NWBUF_SIZE \in Nat
  BY Sizes
<1>2. clean \in Seq(Byte) /\ Len(clean) = NWBUF_SIZE
      /\ \A i \in 1 .. dlen : clean[i] = rbuf[i]
  BY CleanType
<1> HIDE DEF clean
<1>3. dlen >= 4
  BY <1>1, ParsedKinds
<1>4. /\ Opcode(rbuf) = Opcode(clean) /\ SubSeq(rbuf, 3, 4) = SubSeq(clean, 3, 4)
      /\ SubSeq(rbuf, 5, dlen) = SubSeq(clean, 5, dlen)
      /\ \A m \in Nat : m <= dlen /\ Ends(rbuf, 5, m) =>
           Ends(clean, 5, m) /\ Text(rbuf, 5) = Text(clean, 5)
  <2>1. dlen <= Len(rbuf) /\ dlen <= Len(clean) /\ \A i \in 1 .. dlen : rbuf[i] = clean[i]
    BY <1>1, <1>2
  <2> QED
    BY <1>1, <1>2, <1>3, <2>1, SameBytes
<1>5. CASE kind = "data"
  <2>1. Opcode(rbuf) = OP_DATA
    BY <1>5, ParsedKinds
  <2>2. /\ Parsed(rbuf, dlen) = parse_tftpdata(rbuf, dlen)
        /\ Parsed(clean, dlen) = parse_tftpdata(clean, dlen)
    BY <1>4, <2>1 DEF Parsed, OP_RRQ, OP_DATA, OP_ACK, OP_ERROR
  <2>3. parse_tftpdata(rbuf, dlen) = parse_tftpdata(clean, dlen)
    BY <1>4 DEF parse_tftpdata
  <2> QED
    BY <1>3, <2>2, <2>3
<1>6. CASE kind = "ack"
  <2>1. Opcode(rbuf) = OP_ACK
    BY <1>6, ParsedKinds
  <2>2. /\ Parsed(rbuf, dlen) = parse_tftpack(rbuf, dlen)
        /\ Parsed(clean, dlen) = parse_tftpack(clean, dlen)
    BY <1>4, <2>1 DEF Parsed, OP_RRQ, OP_DATA, OP_ACK, OP_ERROR
  <2>3. parse_tftpack(rbuf, dlen) = parse_tftpack(clean, dlen)
    BY <1>4 DEF parse_tftpack
  <2> QED
    BY <1>3, <2>2, <2>3
<1>7. CASE kind = "error"
  <2>1. /\ Opcode(rbuf) = OP_ERROR /\ dlen >= 5 /\ Terminated(rbuf, 5, TFTP_EMSGLEN_MAX)
    BY <1>7, ParsedKinds
  <2>2. /\ Parsed(rbuf, dlen) = parse_tftperror(rbuf, dlen)
        /\ Parsed(clean, dlen) = parse_tftperror(clean, dlen)
    BY <1>4, <2>1 DEF Parsed, OP_RRQ, OP_DATA, OP_ACK, OP_ERROR
  <2>3. ASSUME \E i \in 5 .. dlen : rbuf[i] = 0
        PROVE  parse_tftperror(rbuf, dlen) = parse_tftperror(clean, dlen)
    <3>1. /\ 5 \in Nat \ {0} /\ TFTP_EMSGLEN_MAX \in Nat
          /\ 5 + TFTP_EMSGLEN_MAX - 1 <= Len(rbuf)
      BY Sizes
    <3>2. PICK m \in Nat : m <= 5 + TFTP_EMSGLEN_MAX - 1 /\ Ends(rbuf, 5, m)
      BY <2>1, <3>1, EndsExists
    <3>3. m <= dlen
      <4>1. PICK i \in 5 .. dlen : rbuf[i] = 0
        BY <2>3
      <4>2. ~(i \in 5 .. m - 1)
        BY <3>2, <4>1 DEF Ends
      <4> QED
        BY <1>1, <4>1, <4>2
    <3>4. Ends(clean, 5, m) /\ Text(rbuf, 5) = Text(clean, 5)
      BY <1>4, <3>2, <3>3
    <3>5. Terminated(clean, 5, TFTP_EMSGLEN_MAX)
      <4>1. m \in 5 .. 5 + TFTP_EMSGLEN_MAX - 1 /\ clean[m] = 0
        BY <3>1, <3>2, <3>4 DEF Ends
      <4> QED
        BY <4>1 DEF Terminated
    <3> QED
      BY <1>4, <2>1, <3>4, <3>5 DEF parse_tftperror
  <2>4. kind \notin {"data", "ack"}
    BY <1>7
  <2> QED
    BY <1>3, <2>2, <2>3, <2>4
<1> QED
  BY <1>5, <1>6, <1>7

\* A complete request, byte by byte.
LEMMA RequestBytes ==
  ASSUME NEW f \in Seq(Letter), NEW g \in Seq(Letter)
  PROVE  LET r == Request(f, g)
             n == Len(f)
             k == Len(g)
         IN  /\ r \in Seq(Byte) /\ Len(r) = n + k + 4
             /\ r[1] = 0 /\ r[2] = OP_RRQ
             /\ \A i \in 1 .. n : r[i + 2] = f[i]
             /\ r[n + 3] = 0
             /\ \A i \in 1 .. k : r[i + n + 3] = g[i]
             /\ r[n + k + 4] = 0
<1> DEFINE n == Len(f)
           k == Len(g)
           o == <<0, OP_RRQ>>
           z == <<0>>
           a == o \o f
           b == a \o z
           c == b \o g
           r == c \o z
           nb == n + 3
           nc == n + 3 + k
<1>1. n \in Nat /\ k \in Nat /\ Len(f) = n /\ Len(g) = k
  BY LenProperties
<1>2. f \in Seq(Byte) /\ g \in Seq(Byte)
  BY SeqMonotonic DEF Byte
<1>3. /\ o \in Seq(Byte) /\ Len(o) = 2 /\ o[1] = 0 /\ o[2] = OP_RRQ
      /\ z \in Seq(Byte) /\ Len(z) = 1 /\ z[1] = 0
  BY DEF Byte, OpcodeByte
<1>4. r = Request(f, g)
  BY DEF Request
<1> HIDE DEF o, z, n, k, a, b, c, r, nb, nc
<1>5. /\ a \in Seq(Byte) /\ Len(a) = 2 + n
      /\ \A i \in 1 .. 2 + n : a[i] = IF i <= 2 THEN o[i] ELSE f[i - 2]
  <2>1. o \in Seq(Byte) /\ f \in Seq(Byte)
    BY <1>1, <1>2, <1>3
  <2>2. /\ o \o f \in Seq(Byte) /\ Len(o \o f) = Len(o) + Len(f)
        /\ \A i \in 1 .. Len(o) + Len(f) :
             (o \o f)[i] = IF i <= Len(o) THEN o[i] ELSE f[i - Len(o)]
    BY <2>1, ConcatProperties
  <2>3. Len(o) = 2 /\ Len(f) = n
    BY <1>1, <1>2, <1>3
  <2> QED
    BY <2>2, <2>3 DEF a
<1>6. /\ b \in Seq(Byte) /\ Len(b) = 2 + n + 1
      /\ \A i \in 1 .. 2 + n + 1 : b[i] = IF i <= 2 + n THEN a[i] ELSE z[i - (2 + n)]
  <2>1. a \in Seq(Byte) /\ z \in Seq(Byte)
    BY <1>3, <1>5
  <2>2. /\ a \o z \in Seq(Byte) /\ Len(a \o z) = Len(a) + Len(z)
        /\ \A i \in 1 .. Len(a) + Len(z) :
             (a \o z)[i] = IF i <= Len(a) THEN a[i] ELSE z[i - Len(a)]
    BY <2>1, ConcatProperties
  <2>3. Len(a) = 2 + n /\ Len(z) = 1
    BY <1>3, <1>5
  <2> QED
    BY <2>2, <2>3 DEF b
<1>7. Len(b) = nb
  BY <1>1, <1>6 DEF nb
<1>8. /\ c \in Seq(Byte) /\ Len(c) = nb + k
      /\ \A i \in 1 .. nb + k : c[i] = IF i <= nb THEN b[i] ELSE g[i - nb]
  <2>1. b \in Seq(Byte) /\ g \in Seq(Byte)
    BY <1>1, <1>2, <1>6, <1>7
  <2>2. /\ b \o g \in Seq(Byte) /\ Len(b \o g) = Len(b) + Len(g)
        /\ \A i \in 1 .. Len(b) + Len(g) :
             (b \o g)[i] = IF i <= Len(b) THEN b[i] ELSE g[i - Len(b)]
    BY <2>1, ConcatProperties
  <2>3. Len(b) = nb /\ Len(g) = k
    BY <1>1, <1>2, <1>6, <1>7
  <2> QED
    BY <2>2, <2>3 DEF c
<1>9. Len(c) = nc
  BY <1>8 DEF nb, nc
<1>10. /\ r \in Seq(Byte) /\ Len(r) = nc + 1
       /\ \A i \in 1 .. nc + 1 : r[i] = IF i <= nc THEN c[i] ELSE z[i - nc]
  <2>1. c \in Seq(Byte) /\ z \in Seq(Byte)
    BY <1>3, <1>8, <1>9
  <2>2. /\ c \o z \in Seq(Byte) /\ Len(c \o z) = Len(c) + Len(z)
        /\ \A i \in 1 .. Len(c) + Len(z) :
             (c \o z)[i] = IF i <= Len(c) THEN c[i] ELSE z[i - Len(c)]
    BY <2>1, ConcatProperties
  <2>3. Len(c) = nc /\ Len(z) = 1
    BY <1>3, <1>8, <1>9
  <2> QED
    BY <2>2, <2>3 DEF r
<1>11. nb = n + 3 /\ nc = n + k + 3 /\ nc = nb + k /\ nb \in Nat /\ nc \in Nat /\ nb <= nc
  BY <1>1 DEF nb, nc
<1>12. ASSUME NEW i \in 1 .. 2 + n PROVE r[i] = a[i]
  <2>1. i <= nc /\ i \in 1 .. nc + 1 /\ i <= nb /\ i \in 1 .. nb + k /\ i \in 1 .. 2 + n + 1 /\ i <= 2 + n
    BY <1>1, <1>11
  <2> QED
    BY <1>6, <1>8, <1>10, <2>1
<1>13. r[1] = 0 /\ r[2] = OP_RRQ
  <2>1. 1 \in 1 .. 2 + n /\ 2 \in 1 .. 2 + n /\ 1 <= 2 /\ 2 <= 2
    BY <1>1
  <2> QED
    BY <1>3, <1>5, <1>12, <2>1
<1>14. ASSUME NEW i \in 1 .. n PROVE r[i + 2] = f[i]
  <2>1. i + 2 \in 1 .. 2 + n /\ ~(i + 2 <= 2) /\ i + 2 - 2 = i
    BY <1>1
  <2> QED
    BY <1>5, <1>12, <2>1
<1>15. r[n + 3] = 0
  <2>1. /\ nb <= nc /\ nb \in 1 .. nc + 1 /\ nb <= nb /\ nb \in 1 .. nb + k
        /\ nb \in 1 .. 2 + n + 1 /\ ~(nb <= 2 + n) /\ nb - (2 + n) = 1
    BY <1>1, <1>11
  <2> QED
    BY <1>3, <1>6, <1>8, <1>10, <1>11, <2>1
<1>16. ASSUME NEW i \in 1 .. k PROVE r[i + n + 3] = g[i]
  <2> DEFINE j == i + n + 3
  <2>1. /\ j <= nc /\ j \in 1 .. nc + 1 /\ ~(j <= nb) /\ j \in 1 .. nb + k /\ j - nb = i
    BY <1>1, <1>11
  <2> HIDE DEF j
  <2>2. r[j] = g[i]
    BY <1>8, <1>10, <2>1
  <2> QED
    BY <2>2 DEF j
<1>17. r[n + k + 4] = 0
  <2> DEFINE j == n + k + 4
  <2>1. j \in 1 .. nc + 1 /\ ~(j <= nc) /\ j - nc = 1
    BY <1>1, <1>11
  <2> HIDE DEF j
  <2>2. r[j] = 0
    BY <1>3, <1>10, <2>1
  <2> QED
    BY <2>2 DEF j
<1>18. Len(r) = n + k + 4
  BY <1>1, <1>10, <1>11
<1> QED
  BY <1>4, <1>10, <1>13, <1>14, <1>15, <1>16, <1>17, <1>18 DEF n, k

\* A piece of a buffer that spells a name is the name.
LEMMA Spells ==
  ASSUME NEW buf \in Seq(Byte), NEW p \in Nat \ {0}, NEW w \in Seq(Letter),
         p + Len(w) <= Len(buf), \A i \in 1 .. Len(w) : buf[i + p - 1] = w[i],
         buf[p + Len(w)] = 0
  PROVE  Ends(buf, p, p + Len(w)) /\ Text(buf, p) = w
<1> DEFINE n == Len(w)
           m == p + n
<1>1. n \in Nat /\ Len(buf) \in Nat /\ m \in Nat
  BY LenProperties
<1>2. \A i \in 1 .. n : w[i] \in Letter /\ w[i] # 0
  <2>1. \A i \in 1 .. n : w[i] \in Letter
    BY ElementOfSeq
  <2> QED
    BY <2>1, BuffersAssumption
<1> HIDE DEF n
<1>3. ASSUME NEW i \in p .. m - 1 PROVE buf[i] # 0
  <2>1. i - p + 1 \in 1 .. n /\ i - p + 1 + p - 1 = i
    BY <1>1
  <2> QED
    BY <1>2, <2>1 DEF n
<1>4. Ends(buf, p, m)
  <2>1. m \in p .. Len(buf) /\ buf[m] = 0
    BY <1>1 DEF n
  <2> QED
    BY <1>3, <2>1 DEF Ends
<1>5. Text(buf, p) = SubSeq(buf, p, m - 1)
  BY <1>1, <1>4, TextIs
<1>6. \A i \in p .. m - 1 : buf[i] \in Byte
  <2>1. \A i \in p .. m - 1 : i \in 1 .. Len(buf)
    BY <1>1 DEF n
  <2> QED
    BY <2>1, ElementOfSeq
<1>7. /\ SubSeq(buf, p, m - 1) \in Seq(Byte)
      /\ Len(SubSeq(buf, p, m - 1)) = IF p <= m - 1 THEN m - 1 - p + 1 ELSE 0
      /\ \A i \in 1 .. m - 1 - p + 1 : SubSeq(buf, p, m - 1)[i] = buf[p + i - 1]
  BY <1>1, <1>6, SubSeqProperties
<1>8. /\ Len(SubSeq(buf, p, m - 1)) = n
      /\ \A i \in 1 .. n : SubSeq(buf, p, m - 1)[i] = w[i]
  <2>1. m - 1 - p + 1 = n /\ (IF p <= m - 1 THEN n ELSE 0) = n
    BY <1>1
  <2>2. \A i \in 1 .. n : p + i - 1 = i + p - 1
    BY <1>1
  <2> QED
    BY <1>7, <2>1, <2>2 DEF n
<1>9. w \in Seq(Byte)
  BY SeqMonotonic DEF Byte
<1>10. SubSeq(buf, p, m - 1) = w
  BY <1>7, <1>8, <1>9, SeqEqual DEF n
<1> QED
  BY <1>4, <1>5, <1>10 DEF n

\* A complete request is understood.
LEMMA UnderstoodSteps ==
  ASSUME rbuf \in Seq(Byte), Len(rbuf) = NWBUF_SIZE, dlen \in 0 .. NWBUF_SIZE
  PROVE  RequestsUnderstood
<1> SUFFICES ASSUME NEW f \in FileName, NEW g \in {Octet, Netascii},
                    dlen >= Len(Request(f, g)),
                    SubSeq(rbuf, 1, Len(Request(f, g))) = Request(f, g)
             PROVE  Parsed(rbuf, dlen) = [kind |-> "request", filename |-> f, mode |-> g]
  BY DEF RequestsUnderstood
<1> DEFINE r == Request(f, g)
           n == Len(f)
           k == Len(g)
           p == n + 4
<1>1. f \in Seq(Letter) /\ n \in 1 .. TFTP_FILENAME_MAX - 1
  <2>1. PICK l \in 1 .. TFTP_FILENAME_MAX - 1 : f \in [1 .. l -> Letter]
    BY DEF FileName
  <2>2. l \in Nat
    BY <2>1
  <2>3. f \in Seq(Letter)
    BY <2>1, <2>2, SeqDef
  <2>4. Len(f) = l
    BY <2>1, <2>2, <2>3, LenProperties
  <2> QED
    BY <2>1, <2>3, <2>4
<1>2. /\ g \in Seq(Letter) /\ k \in Nat /\ k >= Len(Octet) /\ k + 1 <= TFTP_MODENAME_MAX
      /\ Len(Octet) \in Nat
  <2>1. Len(Octet) \in Nat /\ Len(Netascii) \in Nat
    BY Sizes, LenProperties
  <2>2. CASE g = Octet
    BY <2>1, <2>2, Sizes
  <2>3. CASE g = Netascii
    BY <2>1, <2>3, Sizes
  <2> QED
    BY <2>2, <2>3
<1>3. /\ r \in Seq(Byte) /\ Len(r) = n + k + 4
      /\ r[1] = 0 /\ r[2] = OP_RRQ
      /\ \A i \in 1 .. n : r[i + 2] = f[i]
      /\ r[n + 3] = 0
      /\ \A i \in 1 .. k : r[i + n + 3] = g[i]
      /\ r[n + k + 4] = 0
  BY <1>1, <1>2, RequestBytes
<1> HIDE DEF r, n, k
<1>4. n \in Nat /\ n >= 1 /\ n <= TFTP_FILENAME_MAX - 1 /\ dlen \in Nat /\ dlen <= NWBUF_SIZE
      /\ NWBUF_SIZE \in Nat
  BY <1>1, Sizes
<1>5. Len(r) \in Nat /\ Len(r) <= dlen /\ Len(r) <= Len(rbuf)
  BY <1>2, <1>3, <1>4 DEF r
<1>6. ASSUME NEW i \in 1 .. Len(r) PROVE rbuf[i] = r[i]
  <2>1. \A j \in 1 .. Len(r) : rbuf[j] \in Byte
    BY <1>5, ElementOfSeq
  <2>2. \A j \in 1 .. Len(r) - 1 + 1 : SubSeq(rbuf, 1, Len(r))[j] = rbuf[1 + j - 1]
    BY <1>5, <2>1, SubSeqProperties
  <2>3. SubSeq(rbuf, 1, Len(r)) = r
    BY DEF r
  <2>4. i \in 1 .. Len(r) - 1 + 1 /\ 1 + i - 1 = i
    BY <1>5
  <2> QED
    BY <2>2, <2>3, <2>4
<1>7. Opcode(rbuf) = OP_RRQ
  <2>1. 1 \in 1 .. Len(r) /\ 2 \in 1 .. Len(r)
    BY <1>2, <1>3, <1>4
  <2> QED
    BY <1>3, <1>6, <2>1 DEF Opcode
<1>8. Ends(rbuf, 3, 3 + n) /\ Text(rbuf, 3) = f
  <2>1. /\ 3 \in Nat \ {0} /\ 3 + n <= Len(rbuf) /\ 3 + n \in 1 .. Len(r)
        /\ \A i \in 1 .. n : i + 2 \in 1 .. Len(r) /\ i + 3 - 1 = i + 2
        /\ 3 + n = n + 3
    BY <1>2, <1>3, <1>4, <1>5
  <2>2. \A i \in 1 .. n : rbuf[i + 3 - 1] = f[i]
    BY <1>3, <1>6, <2>1
  <2>3. rbuf[3 + n] = 0
    BY <1>3, <1>6, <2>1
  <2> QED
    BY <1>1, <2>1, <2>2, <2>3, Spells DEF n
<1>9. Ends(rbuf, p, p + k) /\ Text(rbuf, p) = g
  <2>1. /\ p \in Nat \ {0} /\ p + k <= Len(rbuf) /\ p + k \in 1 .. Len(r)
        /\ \A i \in 1 .. k : i + n + 3 \in 1 .. Len(r) /\ i + p - 1 = i + n + 3
        /\ p + k = n + k + 4
    BY <1>2, <1>3, <1>4, <1>5
  <2> HIDE DEF p
  <2>2. \A i \in 1 .. k : rbuf[i + p - 1] = g[i]
    BY <1>3, <1>6, <2>1
  <2>3. rbuf[p + k] = 0
    BY <1>3, <1>6, <2>1
  <2> QED
    BY <1>2, <2>1, <2>2, <2>3, Spells DEF k
<1>10. ModeAt(rbuf) = p
  <2>1. 3 + Len(f) + 1 = p
    BY <1>4 DEF n
  <2> QED
    BY <1>8, <2>1 DEF ModeAt
<1>11. NameTerminated(rbuf)
  <2>1. rbuf[3 + n] = 0 /\ 3 + n \in 3 .. 3 + TFTP_FILENAME_MAX - 1
    BY <1>4, <1>8, Sizes DEF Ends
  <2> QED
    BY <2>1 DEF NameTerminated, Terminated
<1>12. Terminated(rbuf, ModeAt(rbuf), TFTP_MODENAME_MAX)
  <2>1. rbuf[p + k] = 0 /\ p + k \in p .. p + TFTP_MODENAME_MAX - 1
    BY <1>2, <1>4, <1>9, Sizes DEF Ends
  <2> HIDE DEF p
  <2> QED
    BY <1>10, <2>1 DEF Terminated
<1>13. dlen >= 2 + 2 + Len(Octet) + 1
  BY <1>2, <1>3, <1>4, <1>5
<1>14. Parsed(rbuf, dlen) = parse_tftpreq(rbuf, dlen)
  BY <1>7 DEF Parsed, OP_RRQ, OP_DATA, OP_ACK, OP_ERROR
<1>15. Text(rbuf, ModeAt(rbuf)) = g
  BY <1>9, <1>10
<1> QED
  BY <1>7, <1>8, <1>11, <1>12, <1>13, <1>14, <1>15 DEF parse_tftpreq

----------------------------------------------------------------------------
(***************************************************************************)
(* The inductive invariant                                                 *)
(***************************************************************************)

\* What the buffers hold, and what was made in them last.
Inv ==
  /\ rbuf \in Seq(Byte) /\ Len(rbuf) = NWBUF_SIZE /\ dlen \in 0 .. NWBUF_SIZE
  /\ msgbuf \in Seq(Glyph) /\ Len(msgbuf) = LOGMSGBUF_SIZE
  /\ LinesWhole
  /\ PathsJoined

\* It holds at the start.
LEMMA InitInv == Init => Inv
<1> SUFFICES ASSUME Init PROVE Inv
  OBVIOUS
<1>1. rbuf \in Seq(Byte) /\ Len(rbuf) = NWBUF_SIZE
  BY Sizes, FillType DEF Init, Byte
<1>2. dlen \in 0 .. NWBUF_SIZE
  BY Sizes DEF Init
<1>3. LOGMSGBUF_SIZE \in Nat
  BY DEF LOGMSGBUF_SIZE, TIMESTRLEN_MAX, IW_LOGMSGLEN_MAX
<1>4. msgbuf \in Seq(Glyph) /\ Len(msgbuf) = LOGMSGBUF_SIZE
  BY <1>3, FillType DEF Init, Glyph
<1>5. LinesWhole
  BY DEF Init, LinesWhole
<1>6. PathsJoined
  BY DEF Init, PathsJoined
<1> QED
  BY <1>1, <1>2, <1>4, <1>5, <1>6 DEF Inv

\* What pmsg prints has a length that the line has room for.
LEMMA FormattedType ==
  ASSUME NEW symbol \in {"a", "b"}, NEW n \in Nat
  PROVE  /\ vsnprintf(Fill(symbol, n)) \in Seq(Printed)
         /\ Len(vsnprintf(Fill(symbol, n))) <= 255
<1> DEFINE text == Fill(symbol, n)
           T    == {Len(text), IW_LOGMSGLEN_MAX - 1}
<1>1. text \in Seq(Printed) /\ Len(text) = n
  BY FillType DEF Printed
<1>2. Min({n, 255}) \in 0 .. 255 /\ Min({n, 255}) <= n
  <2>1. CASE n <= 255
    BY <2>1, MinIs
  <2>2. CASE 255 <= n
    BY <2>2, MinIs
  <2> QED
    BY <2>1, <2>2
<1> DEFINE l == Min({n, 255})
<1>3. vsnprintf(text) = SubSeq(text, 1, l)
  BY <1>1 DEF vsnprintf, IW_LOGMSGLEN_MAX
<1> HIDE DEF l, text
<1>4. l \in Nat /\ l <= n /\ l <= 255
  BY <1>2 DEF l
<1>5. \A i \in 1 .. l : text[i] \in Printed
  BY <1>1, <1>4, ElementOfSeq
<1>6. /\ SubSeq(text, 1, l) \in Seq(Printed)
      /\ Len(SubSeq(text, 1, l)) = IF 1 <= l THEN l - 1 + 1 ELSE 0
  BY <1>4, <1>5, SubSeqProperties
<1> QED
  BY <1>3, <1>4, <1>6 DEF text

\* The time and its substitutes.
LEMMA TimeType ==
  ASSUME NEW time \in Time
  PROVE  time \in Seq(Printed) /\ Len(time) <= 21
<1>1. "t" \in Printed /\ "e" \in Printed /\ 19 \in Nat /\ 18 \in Nat
  BY DEF Printed
<1>2. Fill("t", 19) \in Seq(Printed) /\ Len(Fill("t", 19)) = 19
  <2>1. \A n \in Nat : Fill("t", n) \in Seq(Printed) /\ Len(Fill("t", n)) = n
    BY <1>1, FillType
  <2> QED
    BY <1>1, <2>1
<1>3. Fill("e", 18) \in Seq(Printed) /\ Len(Fill("e", 18)) = 18
  <2>1. \A n \in Nat : Fill("e", n) \in Seq(Printed) /\ Len(Fill("e", n)) = n
    BY <1>1, FillType
  <2> QED
    BY <1>1, <2>1
<1>4. time = Fill("t", 19) \/ time = Fill("e", 18)
  BY DEF Time
<1>5. 19 <= 21 /\ 18 <= 21
  OBVIOUS
<1> QED
  BY <1>2, <1>3, <1>4, <1>5

\* And it is kept.
LEMMA NextInv == Inv /\ [Next]_vars => Inv'
<1> SUFFICES ASSUME Inv, [Next]_vars PROVE Inv'
  OBVIOUS
<1>1. CASE recvfrom
  <2>1. rbuf' \in Seq(Byte) /\ Len(rbuf') = NWBUF_SIZE /\ dlen' \in 0 .. NWBUF_SIZE
    BY <1>1, RecvSteps DEF Inv
  <2>2. what' = what /\ UNCHANGED <<msgbuf, line, path>>
    BY <1>1 DEF recvfrom
  <2>3. LinesWhole' /\ PathsJoined'
    BY <2>2 DEF Inv, LinesWhole, PathsJoined
  <2> QED
    BY <2>1, <2>2, <2>3 DEF Inv
<1>2. CASE pmsg
  <2>1. PICK time \in Time, n \in MessageLens, symbol \in {"a", "b"} :
          iwlog_print_msg(time, vsnprintf(Fill(symbol, n)))
    BY <1>2 DEF pmsg
  <2> DEFINE msg == vsnprintf(Fill(symbol, n))
  <2>2. n \in Nat
    BY BuffersAssumption
  <2>3. msg \in Seq(Printed) /\ Len(msg) <= 255
    BY <2>2, FormattedType
  <2>4. time \in Seq(Printed) /\ Len(time) <= 21
    BY TimeType
  <2>5. iwlog_print_msg(time, msg)
    BY <2>1
  <2> HIDE DEF msg
  <2>6. /\ msgbuf' \in Seq(Glyph) /\ Len(msgbuf') = LOGMSGBUF_SIZE
        /\ line' = [time |-> time, msg |-> msg, written |-> Line(time, msg)]
    BY <2>3, <2>4, <2>5, PrintSteps DEF Inv
  <2>7. what = "log" /\ UNCHANGED <<what, rbuf, dlen, path>>
    BY <1>2 DEF pmsg
  <2>8. LinesWhole'
    BY <2>6 DEF LinesWhole, Line
  <2>9. PathsJoined'
    BY <2>7 DEF Inv, PathsJoined
  <2> QED
    BY <2>6, <2>7, <2>8, <2>9 DEF Inv
<1>3. CASE is_dsfile
  <2>1. PICK head \in Heads, tail \in Tails :
          path' = [head |-> head, tail |-> tail, size |-> PathSize(head, tail),
                   ret |-> join_path(head, tail, PathSize(head, tail)).ret,
                   buf |-> join_path(head, tail, PathSize(head, tail)).buf]
    BY <1>3 DEF is_dsfile
  <2> DEFINE r == join_path(head, tail, PathSize(head, tail))
  <2>2. /\ r.ret # -1 /\ Len(r.buf) <= PathSize(head, tail)
        /\ Separator(head) = <<>> => r.buf = head \o Unrooted(tail) \o <<"nul">>
        /\ Separator(head) # <<>> =>
             r.buf = head \o <<"/">> \o Unrooted(tail) \o <<"nul">>
    BY JoinSteps
  <2> HIDE DEF r
  <2>3. path' = [head |-> head, tail |-> tail, size |-> PathSize(head, tail),
                 ret |-> r.ret, buf |-> r.buf]
    BY <2>1 DEF r
  <2>4. what = "path" /\ UNCHANGED <<what, rbuf, dlen, msgbuf, line>>
    BY <1>3 DEF is_dsfile
  <2>5. PathsJoined'
    BY <2>2, <2>3 DEF PathsJoined
  <2>6. LinesWhole'
    BY <2>4 DEF LinesWhole
  <2> QED
    BY <2>4, <2>5, <2>6 DEF Inv
<1>4. CASE UNCHANGED vars
  BY <1>4 DEF vars, Inv, LinesWhole, PathsJoined
<1> QED
  BY <1>1, <1>2, <1>3, <1>4 DEF Next

\* What is known of the buffers whatever arrives and whatever is logged.
THEOREM Invariance == Spec => []Inv
BY InitInv, NextInv, PTL DEF Spec

\* Nothing is written outside the receive buffer of iwtftp_service and the line
\* buffer of iwlog_print_msg, for all sizes that keep the order of the program's.
THEOREM BuffersKeptWithinHolds == Spec => []BuffersKeptWithin
<1>1. Inv => BuffersKeptWithin
  BY DEF Inv, BuffersKeptWithin
<1> QED
  BY <1>1, Invariance, PTL

\* The parse functions of src/src/tftp.c make no DATA, no ACK and no ERROR with
\* a NUL of its own out of what an earlier datagram left in the buffer.
THEOREM OwnBytesOnlyHolds == Spec => []OwnBytesOnly
<1>1. Inv => OwnBytesOnly
  BY OwnBytesSteps DEF Inv
<1> QED
  BY <1>1, Invariance, PTL

\* A request that parse_tftpreq accepts fits into the session that is made of it.
THEOREM RequestsFitHolds == Spec => []RequestsFit
<1>1. Inv => RequestsFit
  BY RequestSteps DEF Inv
<1> QED
  BY <1>1, Invariance, PTL

\* parse_tftpreq understands every complete request, up to the longest names.
THEOREM RequestsUnderstoodHolds == Spec => []RequestsUnderstood
<1>1. Inv => RequestsUnderstood
  BY UnderstoodSteps DEF Inv
<1> QED
  BY <1>1, Invariance, PTL

\* iwlog_print_msg writes the time, the message and a newline, nothing else.
THEOREM LinesWholeHolds == Spec => []LinesWhole
<1>1. Inv => LinesWhole
  BY DEF Inv
<1> QED
  BY <1>1, Invariance, PTL

\* join_path fills what is_dsfile and create_dsession allocate, and no more, with
\* one slash between the directory and the name.
THEOREM PathsJoinedHolds == Spec => []PathsJoined
<1>1. Inv => PathsJoined
  BY DEF Inv
<1> QED
  BY <1>1, Invariance, PTL
============================================================================

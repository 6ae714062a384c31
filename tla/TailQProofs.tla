---------------------------- MODULE TailQProofs ----------------------------
(***************************************************************************)
(* What the operations on lists do to a list that holds nothing twice.     *)
(***************************************************************************)
EXTENDS TailQ, SequenceTheorems, TLAPS

\* TAILQ_INSERT_BEFORE and TAILQ_INSERT_TAIL add one handler.
LEMMA InsertList ==
    ASSUME NEW S, NEW s \in Seq(S), NEW h \in S, NEW k \in 1 .. Len(s) + 1
    PROVE  /\ InsertAt(s, k, h) \in Seq(S)
           /\ \A x : Has(InsertAt(s, k, h), x) <=> Has(s, x) \/ x = h
           /\ Unrepeated(s) /\ ~Has(s, h) => Unrepeated(InsertAt(s, k, h))
<1> DEFINE a == SubSeq(s, 1, k - 1)
           b == SubSeq(s, k, Len(s))
           t == InsertAt(s, k, h)
<1>1. Len(s) \in Nat /\ k \in Nat /\ 1 <= k /\ k <= Len(s) + 1
  BY LenProperties
<1>2. a \in Seq(S) /\ Len(a) = k - 1 /\ \A i \in 1 .. k - 1 : a[i] = s[i]
  BY <1>1, SubSeqProperties
<1>3. b \in Seq(S) /\ Len(b) = Len(s) - k + 1 /\ \A i \in 1 .. Len(s) - k + 1 : b[i] = s[i + k - 1]
  <2>1. b \in Seq(S) /\ Len(b) = Len(s) - k + 1
        /\ \A i \in 1 .. Len(s) - k + 1 : b[i] = s[k + i - 1]
    BY <1>1, SubSeqProperties
  <2>2. \A i \in 1 .. Len(s) - k + 1 : k + i - 1 = i + k - 1
    BY <1>1
  <2> QED
    BY <2>1, <2>2
<1> HIDE DEF a, b
<1>4. <<h>> \in Seq(S) /\ Len(<<h>>) = 1 /\ <<h>>[1] = h
  OBVIOUS
<1>5. a \o <<h>> \in Seq(S) /\ Len(a \o <<h>>) = k
      /\ \A i \in 1 .. k : (a \o <<h>>)[i] = IF i < k THEN s[i] ELSE h
  <2>1. a \o <<h>> \in Seq(S) /\ Len(a \o <<h>>) = k - 1 + 1
        /\ \A i \in 1 .. k - 1 + 1 : (a \o <<h>>)[i] = IF i <= k - 1 THEN a[i] ELSE <<h>>[i - (k - 1)]
    BY <1>2, <1>4, ConcatProperties
  <2>2. k - 1 + 1 = k
    BY <1>1
  <2> QED
    BY <2>1, <2>2, <1>1, <1>2, <1>4
<1>6. /\ t \in Seq(S) /\ Len(t) = Len(s) + 1
      /\ \A i \in 1 .. Len(s) + 1 : t[i] = IF i < k THEN s[i] ELSE IF i = k THEN h ELSE s[i - 1]
  <2>0. PICK u \in Seq(S) : u = a \o <<h>>
    BY <1>5
  <2>1. t = u \o b
    BY <2>0 DEF InsertAt, a, b
  <2>2. t \in Seq(S) /\ Len(t) = k + (Len(s) - k + 1)
        /\ \A i \in 1 .. k + (Len(s) - k + 1) : t[i] = IF i <= k THEN u[i] ELSE b[i - k]
    <3>1. Len(u) = k
      BY <2>0, <1>5
    <3> HIDE DEF t
    <3> QED
      BY <2>1, <3>1, <1>3, ConcatProperties
  <2>3. k + (Len(s) - k + 1) = Len(s) + 1
    BY <1>1
  <2>4. ASSUME NEW i \in 1 .. Len(s) + 1
        PROVE  t[i] = IF i < k THEN s[i] ELSE IF i = k THEN h ELSE s[i - 1]
    <3>1. CASE i <= k
      <4>1. i \in 1 .. k /\ i \in 1 .. k + (Len(s) - k + 1)
        BY <1>1, <2>3, <3>1
      <4>2. t[i] = IF i < k THEN s[i] ELSE h
        BY <2>0, <2>2, <3>1, <4>1, <1>5
      <4> QED
        BY <4>2, <3>1, <1>1
    <3>2. CASE ~(i <= k)
      <4>1. i \in 1 .. k + (Len(s) - k + 1) /\ i - k \in 1 .. Len(s) - k + 1 /\ i - k + k - 1 = i - 1
        BY <1>1, <2>3, <3>2
      <4>2. t[i] = b[i - k]
        BY <2>2, <3>2, <4>1
      <4> QED
        BY <4>1, <4>2, <3>2, <1>1, <1>3
    <3> QED
      BY <3>1, <3>2
  <2> QED
    BY <2>2, <2>3, <2>4
<1> HIDE DEF t
<1>7. ASSUME NEW i \in 1 .. Len(s)
      PROVE  \/ i \in 1 .. Len(s) + 1 /\ t[i] = s[i]
             \/ i + 1 \in 1 .. Len(s) + 1 /\ t[i + 1] = s[i]
  <2>1. CASE i < k
    BY <2>1, <1>1, <1>6
  <2>2. CASE ~(i < k)
    <3>1. i + 1 \in 1 .. Len(s) + 1 /\ ~(i + 1 < k) /\ i + 1 # k /\ i + 1 - 1 = i
      BY <2>2, <1>1
    <3> QED
      BY <3>1, <1>6
  <2> QED
    BY <2>1, <2>2
<1>8. ASSUME NEW i \in 1 .. Len(s) + 1
      PROVE  \/ i = k /\ t[i] = h
             \/ i < k /\ i \in 1 .. Len(s) /\ t[i] = s[i]
             \/ i > k /\ i - 1 \in 1 .. Len(s) /\ t[i] = s[i - 1]
  BY <1>1, <1>6
<1>9. k \in 1 .. Len(s) + 1 /\ t[k] = h
  BY <1>1, <1>6
<1>10. \A x : Has(t, x) <=> Has(s, x) \/ x = h
  BY <1>6, <1>7, <1>8, <1>9 DEF Has
<1>11. ASSUME Unrepeated(s), ~Has(s, h),
              NEW i \in 1 .. Len(s) + 1, NEW j \in 1 .. Len(s) + 1, t[i] = t[j]
       PROVE  i = j
  <2>1. CASE i = k
    BY <2>1, <1>8, <1>9, <1>11 DEF Has
  <2>2. CASE j = k
    BY <2>2, <1>8, <1>9, <1>11 DEF Has
  <2>3. CASE i < k /\ j < k
    BY <2>3, <1>8, <1>11, <1>1 DEF Unrepeated
  <2>4. CASE i > k /\ j > k
    <3>1. i - 1 = j - 1
      BY <2>4, <1>8, <1>11, <1>1 DEF Unrepeated
    <3> QED
      BY <3>1
  <2>5. CASE i < k /\ j > k
    <3>1. i = j - 1
      BY <2>5, <1>8, <1>11, <1>1 DEF Unrepeated
    <3> QED
      BY <3>1, <2>5, <1>1
  <2>6. CASE i > k /\ j < k
    <3>1. i - 1 = j
      BY <2>6, <1>8, <1>11, <1>1 DEF Unrepeated
    <3> QED
      BY <3>1, <2>6, <1>1
  <2> QED
    BY <2>1, <2>2, <2>3, <2>4, <2>5, <2>6, <1>1
<1> QED
  BY <1>6, <1>10, <1>11 DEF t, Unrepeated

\* TAILQ_REMOVE takes one handler off a list that has none twice.
LEMMA RemoveList ==
    ASSUME NEW S, NEW s \in Seq(S), NEW k \in 1 .. Len(s), Unrepeated(s)
    PROVE  /\ RemoveAt(s, k) \in Seq(S) /\ Unrepeated(RemoveAt(s, k))
           /\ Len(RemoveAt(s, k)) = Len(s) - 1
           /\ \A i \in 1 .. Len(s) - 1 : RemoveAt(s, k)[i] = IF i < k THEN s[i] ELSE s[i + 1]
           /\ \A x : Has(RemoveAt(s, k), x) <=> Has(s, x) /\ x # s[k]
<1> DEFINE a == SubSeq(s, 1, k - 1)
           b == SubSeq(s, k + 1, Len(s))
           t == RemoveAt(s, k)
<1>1. Len(s) \in Nat /\ k \in Nat /\ 1 <= k /\ k <= Len(s)
  BY LenProperties
<1>2. a \in Seq(S) /\ Len(a) = k - 1 /\ \A i \in 1 .. k - 1 : a[i] = s[i]
  BY <1>1, SubSeqProperties
<1>3. b \in Seq(S) /\ Len(b) = Len(s) - k /\ \A i \in 1 .. Len(s) - k : b[i] = s[i + k]
  <2>1. b \in Seq(S) /\ Len(b) = Len(s) - k
        /\ \A i \in 1 .. Len(s) - k : b[i] = s[k + 1 + i - 1]
    BY <1>1, SubSeqProperties
  <2>2. \A i \in 1 .. Len(s) - k : k + 1 + i - 1 = i + k
    BY <1>1
  <2> QED
    BY <2>1, <2>2
<1> HIDE DEF a, b
<1>4. /\ t \in Seq(S) /\ Len(t) = Len(s) - 1
      /\ \A i \in 1 .. Len(s) - 1 : t[i] = IF i < k THEN s[i] ELSE s[i + 1]
  <2>1. t = a \o b
    BY DEF RemoveAt, a, b
  <2>2. t \in Seq(S) /\ Len(t) = k - 1 + (Len(s) - k)
        /\ \A i \in 1 .. k - 1 + (Len(s) - k) : t[i] = IF i <= k - 1 THEN a[i] ELSE b[i - (k - 1)]
    <3>1. /\ a \o b \in Seq(S) /\ Len(a \o b) = Len(a) + Len(b)
          /\ \A i \in 1 .. Len(a) + Len(b) :
               (a \o b)[i] = IF i <= Len(a) THEN a[i] ELSE b[i - Len(a)]
      BY <1>2, <1>3, ConcatProperties, Zenon
    <3> HIDE DEF t
    <3> QED
      BY <2>1, <3>1, <1>2, <1>3, Zenon
  <2>3. k - 1 + (Len(s) - k) = Len(s) - 1
    BY <1>1
  <2>4. ASSUME NEW i \in 1 .. Len(s) - 1
        PROVE  t[i] = IF i < k THEN s[i] ELSE s[i + 1]
    <3>1. CASE i < k
      <4>1. i \in 1 .. k - 1 + (Len(s) - k) /\ i <= k - 1 /\ i \in 1 .. k - 1
        BY <1>1, <2>3, <3>1
      <4>2. t[i] = a[i]
        BY <2>2, <4>1
      <4> QED
        BY <4>1, <4>2, <3>1, <1>2
    <3>2. CASE ~(i < k)
      <4>1. i \in 1 .. k - 1 + (Len(s) - k) /\ ~(i <= k - 1) /\ i - (k - 1) \in 1 .. Len(s) - k
            /\ i - (k - 1) + k = i + 1
        BY <1>1, <2>3, <3>2
      <4>2. t[i] = b[i - (k - 1)]
        BY <2>2, <4>1
      <4> QED
        BY <4>1, <4>2, <3>2, <1>3
    <3> QED
      BY <3>1, <3>2
  <2> QED
    BY <2>2, <2>3, <2>4
<1> HIDE DEF t
<1>5. ASSUME NEW i \in 1 .. Len(s), i # k
      PROVE  \/ i \in 1 .. Len(s) - 1 /\ t[i] = s[i]
             \/ i - 1 \in 1 .. Len(s) - 1 /\ t[i - 1] = s[i]
  <2>1. CASE i < k
    BY <2>1, <1>1, <1>4
  <2>2. CASE ~(i < k)
    <3>1. i - 1 \in 1 .. Len(s) - 1 /\ ~(i - 1 < k) /\ i - 1 + 1 = i
      BY <2>2, <1>1, <1>5
    <3> QED
      BY <3>1, <1>4
  <2> QED
    BY <2>1, <2>2
<1>6. ASSUME NEW i \in 1 .. Len(s) - 1
      PROVE  \/ i < k /\ i \in 1 .. Len(s) /\ t[i] = s[i]
             \/ ~(i < k) /\ i + 1 \in 1 .. Len(s) /\ t[i] = s[i + 1]
  BY <1>1, <1>4
<1>7. \A x : Has(t, x) <=> Has(s, x) /\ x # s[k]
  <2> SUFFICES ASSUME NEW x PROVE Has(t, x) <=> Has(s, x) /\ x # s[k]
    OBVIOUS
  <2>1. ASSUME Has(s, x), x # s[k] PROVE Has(t, x)
    BY <2>1, <1>4, <1>5 DEF Has
  <2>2. ASSUME Has(t, x) PROVE Has(s, x) /\ x # s[k]
    <3>1. PICK i \in 1 .. Len(s) - 1 : t[i] = x
      BY <2>2, <1>4 DEF Has
    <3>2. CASE i < k /\ i \in 1 .. Len(s) /\ t[i] = s[i]
      BY <3>1, <3>2, <1>1 DEF Has, Unrepeated
    <3>3. CASE ~(i < k) /\ i + 1 \in 1 .. Len(s) /\ t[i] = s[i + 1]
      <4>1. i + 1 # k
        BY <3>3, <1>1
      <4> QED
        BY <3>1, <3>3, <4>1 DEF Has, Unrepeated
    <3> QED
      BY <3>2, <3>3, <1>6
  <2> QED
    BY <2>1, <2>2
<1>8. ASSUME NEW i \in 1 .. Len(s) - 1, NEW j \in 1 .. Len(s) - 1, t[i] = t[j]
      PROVE  i = j
  <2>1. CASE i < k /\ j < k
    BY <2>1, <1>6, <1>8, <1>1 DEF Unrepeated
  <2>2. CASE ~(i < k) /\ ~(j < k)
    <3>1. i + 1 = j + 1
      BY <2>2, <1>6, <1>8 DEF Unrepeated
    <3> QED
      BY <3>1
  <2>3. CASE i < k /\ ~(j < k)
    <3>1. i = j + 1
      BY <2>3, <1>6, <1>8 DEF Unrepeated
    <3> QED
      BY <3>1, <2>3, <1>1
  <2>4. CASE ~(i < k) /\ j < k
    <3>1. i + 1 = j
      BY <2>4, <1>6, <1>8 DEF Unrepeated
    <3> QED
      BY <3>1, <2>4, <1>1
  <2> QED
    BY <2>1, <2>2, <2>3, <2>4
<1> QED
  BY <1>4, <1>7, <1>8 DEF t, Unrepeated

\* The place of an element is the one where it is.
LEMMA PlaceIn ==
    ASSUME NEW S, NEW s \in Seq(S), NEW k \in 1 .. Len(s), Unrepeated(s)
    PROVE  Has(s, s[k]) /\ PlaceOf(s, s[k]) = k
<1>1. Has(s, s[k])
  BY DEF Has
<1>2. PlaceOf(s, s[k]) \in 1 .. Len(s) /\ s[PlaceOf(s, s[k])] = s[k]
  BY <1>1 DEF Has, PlaceOf
<1> QED
  BY <1>1, <1>2 DEF Unrepeated

\* What is on a list has a place there.
LEMMA PlaceOn ==
    ASSUME NEW S, NEW s \in Seq(S), NEW x, Has(s, x)
    PROVE  PlaceOf(s, x) \in 1 .. Len(s) /\ s[PlaceOf(s, x)] = x /\ x \in S
<1>1. PlaceOf(s, x) \in 1 .. Len(s) /\ s[PlaceOf(s, x)] = x
  BY DEF Has, PlaceOf
<1> QED
  BY <1>1, ElementOfSeq

\* Without takes off what it is given and nothing else.
LEMMA WithoutList ==
    ASSUME NEW S, NEW s \in Seq(S), NEW x, Unrepeated(s)
    PROVE  /\ Without(s, x) \in Seq(S) /\ Unrepeated(Without(s, x))
           /\ \A y : Has(Without(s, x), y) <=> Has(s, y) /\ y # x
<1>1. CASE Has(s, x)
  <2>1. PICK k \in 1 .. Len(s) : k = PlaceOf(s, x) /\ s[k] = x
    BY <1>1, PlaceOn
  <2>2. Without(s, x) = RemoveAt(s, k)
    BY <1>1, <2>1 DEF Without
  <2> QED
    BY <2>1, <2>2, RemoveList
<1>2. CASE ~Has(s, x)
  BY <1>2 DEF Without
<1> QED
  BY <1>1, <1>2

\* The empty list.
LEMMA EmptyList ==
    ASSUME NEW S
    PROVE  <<>> \in Seq(S) /\ Unrepeated(<<>>) /\ \A x : ~Has(<<>>, x)
<1>1. <<>> \in Seq(S) /\ Len(<<>>) = 0
  BY EmptySeq
<1> QED
  BY <1>1 DEF Has, Unrepeated

\* Only the empty list has nothing on it.
LEMMA HeadOn ==
    ASSUME NEW S, NEW s \in Seq(S), s # <<>>
    PROVE  Len(s) \in Nat /\ 1 \in 1 .. Len(s) /\ Head(s) = s[1] /\ Head(s) \in S /\ Has(s, Head(s))
<1>1. Len(s) \in Nat \ {0}
  BY EmptySeq
<1>2. 1 \in 1 .. Len(s) /\ Head(s) = s[1]
  BY <1>1
<1>3. Has(s, Head(s)) /\ Head(s) \in S
  BY <1>2, ElementOfSeq DEF Has
<1> QED
  BY <1>1, <1>2, <1>3

\* TAILQ_INSERT_TAIL
LEMMA AppendList ==
    ASSUME NEW S, NEW s \in Seq(S), NEW x \in S
    PROVE  /\ Append(s, x) \in Seq(S)
           /\ \A y : Has(Append(s, x), y) <=> Has(s, y) \/ y = x
           /\ Unrepeated(s) /\ ~Has(s, x) => Unrepeated(Append(s, x))
<1> DEFINE t == Append(s, x)
<1>1. Len(s) \in Nat
  BY LenProperties
<1>2. /\ t \in Seq(S) /\ Len(t) = Len(s) + 1 /\ t[Len(s) + 1] = x
      /\ \A i \in 1 .. Len(s) : t[i] = s[i]
  BY AppendProperties
<1> HIDE DEF t
<1>3. \A i \in 1 .. Len(s) + 1 : i \in 1 .. Len(s) \/ i = Len(s) + 1
  BY <1>1
<1>4. \A i \in 1 .. Len(s) : i \in 1 .. Len(s) + 1
  BY <1>1
<1>5. Len(s) + 1 \in 1 .. Len(s) + 1
  BY <1>1
<1>6. \A y : Has(t, y) <=> Has(s, y) \/ y = x
  BY <1>2, <1>3, <1>4, <1>5 DEF Has
<1>7. ASSUME Unrepeated(s), ~Has(s, x) PROVE Unrepeated(t)
  BY <1>2, <1>3, <1>7 DEF Has, Unrepeated
<1> QED
  BY <1>2, <1>6, <1>7 DEF t

\* LIST_INSERT_HEAD
LEMMA PushList ==
    ASSUME NEW S, NEW s \in Seq(S), NEW x \in S
    PROVE  /\ <<x>> \o s \in Seq(S)
           /\ \A y : Has(<<x>> \o s, y) <=> Has(s, y) \/ y = x
           /\ Unrepeated(s) /\ ~Has(s, x) => Unrepeated(<<x>> \o s)
<1> DEFINE a == <<x>>
           t == a \o s
<1>1. Len(s) \in Nat /\ a \in Seq(S) /\ Len(a) = 1 /\ a[1] = x
  BY LenProperties
<1> HIDE DEF a
<1>2. /\ t \in Seq(S) /\ Len(t) = 1 + Len(s)
      /\ \A i \in 1 .. 1 + Len(s) : t[i] = IF i <= 1 THEN a[i] ELSE s[i - 1]
  <2>1. /\ a \o s \in Seq(S) /\ Len(a \o s) = Len(a) + Len(s)
        /\ \A i \in 1 .. Len(a) + Len(s) :
             (a \o s)[i] = IF i <= Len(a) THEN a[i] ELSE s[i - Len(a)]
    BY <1>1, ConcatProperties, Zenon
  <2> QED
    BY <2>1, <1>1, Zenon
<1> HIDE DEF t
<1>3. 1 \in 1 .. Len(t) /\ t[1] = x
  BY <1>1, <1>2
<1>4. \A i \in 1 .. Len(s) : i + 1 \in 1 .. Len(t) /\ t[i + 1] = s[i]
  BY <1>1, <1>2
<1>5. \A i \in 1 .. Len(t) : i = 1 \/ (i - 1 \in 1 .. Len(s) /\ t[i] = s[i - 1])
  BY <1>1, <1>2
<1>6. \A y : Has(t, y) <=> Has(s, y) \/ y = x
  BY <1>3, <1>4, <1>5 DEF Has
<1>7. ASSUME Unrepeated(s), ~Has(s, x) PROVE Unrepeated(t)
  <2> SUFFICES ASSUME NEW i \in 1 .. Len(t), NEW j \in 1 .. Len(t), t[i] = t[j]
               PROVE  i = j
    BY DEF Unrepeated
  <2>1. CASE i # 1 /\ j # 1
    <3>1. i - 1 = j - 1
      BY <2>1, <1>5, <1>7 DEF Unrepeated
    <3> QED
      BY <3>1, <1>1, <1>2
  <2>2. CASE i = 1 \/ j = 1
    BY <2>2, <1>3, <1>5, <1>7 DEF Has
  <2> QED
    BY <2>1, <2>2
<1> QED
  BY <1>2, <1>6, <1>7 DEF t, a

\* The first element unlinked leaves the rest.
LEMMA WithoutHead ==
    ASSUME NEW S, NEW s \in Seq(S), s # <<>>, Unrepeated(s)
    PROVE  Without(s, Head(s)) = Tail(s)
<1>1. Len(s) \in Nat /\ 1 \in 1 .. Len(s) /\ Head(s) = s[1] /\ Has(s, Head(s))
  BY HeadOn
<1>2. PlaceOf(s, Head(s)) = 1
  BY <1>1, PlaceIn
<1>3. Without(s, Head(s)) = RemoveAt(s, 1)
  BY <1>1, <1>2 DEF Without
<1>4. /\ RemoveAt(s, 1) \in Seq(S) /\ Len(RemoveAt(s, 1)) = Len(s) - 1
      /\ \A i \in 1 .. Len(s) - 1 : RemoveAt(s, 1)[i] = IF i < 1 THEN s[i] ELSE s[i + 1]
  BY <1>1, RemoveList
<1>5. /\ Tail(s) \in Seq(S) /\ Len(Tail(s)) = Len(s) - 1
      /\ \A i \in 1 .. Len(s) - 1 : Tail(s)[i] = s[i + 1]
  BY HeadTailProperties
<1>6. \A i \in 1 .. Len(s) - 1 : RemoveAt(s, 1)[i] = Tail(s)[i]
  BY <1>1, <1>4, <1>5
<1>7. RemoveAt(s, 1) = Tail(s)
  BY <1>4, <1>5, <1>6, SeqEqual
<1> QED
  BY <1>3, <1>7

\* The list behind the first element.
LEMMA TailList ==
    ASSUME NEW S, NEW s \in Seq(S), s # <<>>, Unrepeated(s)
    PROVE  /\ Tail(s) \in Seq(S) /\ Unrepeated(Tail(s))
           /\ \A x : Has(Tail(s), x) <=> Has(s, x) /\ x # Head(s)
<1>1. PICK h : h = Head(s)
  OBVIOUS
<1>2. Tail(s) = Without(s, h)
  BY <1>1, WithoutHead
<1>3. /\ Without(s, h) \in Seq(S) /\ Unrepeated(Without(s, h))
      /\ \A x : Has(Without(s, h), x) <=> Has(s, x) /\ x # h
  BY WithoutList
<1> QED
  BY <1>1, <1>2, <1>3, Zenon

\* Another element unlinked leaves the first where it is.
LEMMA WithoutOther ==
    ASSUME NEW S, NEW s \in Seq(S), s # <<>>, Unrepeated(s), NEW x, x # Head(s)
    PROVE  /\ Without(s, x) # <<>> /\ Head(Without(s, x)) = Head(s)
           /\ Tail(Without(s, x)) = Without(Tail(s), x)
<1>1. /\ Len(s) \in Nat /\ 1 \in 1 .. Len(s) /\ Head(s) = s[1]
  BY HeadOn
<1>2. PICK t : t = Tail(s)
  OBVIOUS
<1>3. /\ t \in Seq(S) /\ Unrepeated(t) /\ Len(t) = Len(s) - 1
      /\ \A i \in 1 .. Len(s) - 1 : t[i] = s[i + 1]
      /\ \A y : Has(t, y) <=> Has(s, y) /\ y # Head(s)
  BY <1>1, <1>2, HeadTailProperties, TailList
<1>4. CASE ~Has(s, x)
  BY <1>2, <1>3, <1>4 DEF Without
<1>5. CASE Has(s, x)
  <2>1. PICK k \in 1 .. Len(s) : k = PlaceOf(s, x) /\ s[k] = x
    BY <1>5, PlaceOn
  <2>2. k # 1 /\ k - 1 \in 1 .. Len(t) /\ t[k - 1] = x
    BY <1>1, <1>3, <2>1
  <2>3. PlaceOf(t, x) = k - 1 /\ Has(t, x)
    BY <1>3, <2>2, PlaceIn
  <2>4. PICK r : r = Without(s, x)
    OBVIOUS
  <2>5. /\ r \in Seq(S) /\ Len(r) = Len(s) - 1
        /\ \A i \in 1 .. Len(s) - 1 : r[i] = IF i < k THEN s[i] ELSE s[i + 1]
    BY <1>5, <2>1, <2>4, RemoveList DEF Without
  <2>6. PICK q : q = Without(t, x)
    OBVIOUS
  <2>7. /\ q \in Seq(S) /\ Len(q) = Len(t) - 1
        /\ \A i \in 1 .. Len(t) - 1 : q[i] = IF i < k - 1 THEN t[i] ELSE t[i + 1]
    <3>1. PICK m \in 1 .. Len(t) : m = k - 1
      BY <2>2
    <3>2. q = RemoveAt(t, m)
      BY <2>3, <2>6, <3>1 DEF Without
    <3>3. /\ q \in Seq(S) /\ Len(q) = Len(t) - 1
          /\ \A i \in 1 .. Len(t) - 1 : q[i] = IF i < m THEN t[i] ELSE t[i + 1]
      <4>1. t \in Seq(S) /\ Unrepeated(t)
        BY <1>3
      <4>2. /\ RemoveAt(t, m) \in Seq(S) /\ Len(RemoveAt(t, m)) = Len(t) - 1
            /\ \A i \in 1 .. Len(t) - 1 : RemoveAt(t, m)[i] = IF i < m THEN t[i] ELSE t[i + 1]
        BY <4>1, RemoveList
      <4> QED
        BY <3>2, <4>2, Zenon
    <3> QED
      BY <3>1, <3>3
  <2>8. Len(s) - 1 >= 1 /\ r # <<>>
    BY <1>1, <1>3, <2>2, <2>5, EmptySeq
  <2>9. Head(r) = Head(s)
    <3>1. Head(r) = r[1]
      BY <2>5, <2>8, HeadOn
    <3>2. 1 \in 1 .. Len(s) - 1 /\ 1 < k
      BY <1>1, <2>1, <2>2, <2>8
    <3>3. r[1] = s[1]
      BY <2>5, <3>2
    <3> QED
      BY <1>1, <3>1, <3>3
  <2>10. PICK p : p = Tail(r)
    OBVIOUS
  <2>11. /\ p \in Seq(S) /\ Len(p) = Len(r) - 1
         /\ \A i \in 1 .. Len(r) - 1 : p[i] = r[i + 1]
    BY <2>5, <2>8, <2>10, HeadTailProperties
  <2>12. Len(p) = Len(q)
    BY <1>1, <1>3, <2>5, <2>7, <2>11
  <2>13. ASSUME NEW i \in 1 .. Len(p) PROVE p[i] = q[i]
    <3>1. /\ i \in 1 .. Len(r) - 1 /\ i \in 1 .. Len(t) - 1 /\ i + 1 \in 1 .. Len(s) - 1
          /\ i \in 1 .. Len(s) - 1 /\ (i + 1 < k <=> i < k - 1) /\ i \in Int
      BY <1>1, <1>3, <2>1, <2>5, <2>11
    <3>2. p[i] = IF i + 1 < k THEN s[i + 1] ELSE s[i + 1 + 1]
      BY <2>5, <2>11, <3>1
    <3>3. q[i] = IF i < k - 1 THEN s[i + 1] ELSE s[i + 1 + 1]
      BY <1>3, <2>7, <3>1
    <3> QED
      BY <3>1, <3>2, <3>3
  <2>14. p = q
    BY <2>7, <2>11, <2>12, <2>13, SeqEqual
  <2> QED
    BY <1>2, <2>4, <2>6, <2>8, <2>9, <2>10, <2>14
<1> QED
  BY <1>4, <1>5
=============================================================================

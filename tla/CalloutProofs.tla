---------------------------- MODULE CalloutProofs ----------------------------
(***************************************************************************)
(* Proofs about the timing wheel, for any callouts, clients and locks, any *)
(* wheel size and any range of the tick counter: what CALLOUT_PENDING, the *)
(* buckets and cc_next say of each other, that the walk passes over        *)
(* nothing, and which runs a callout is owed.  CalloutInv is the inductive *)
(* invariant.                                                              *)
(***************************************************************************)
EXTENDS Callout, TailQProofs, TLAPS

-----------------------------------------------------------------------------
(* The inductive invariant *)

\* Who holds cc_lock, and what the clock thread's locals are, by where it is.
ClockInv ==
    /\ cc_lock = Clock <=> tpc \in {"bucket", "walk"}
    /\ tpc \in {"switch", "handler", "skip"} => c # Null /\ cc_curr = c
    /\ tpc \notin {"switch", "handler", "skip"} => cc_curr = Null

\* A callout is linked into one bucket, once, and while it is pending.
WheelInv ==
    /\ \A b \in Bucket : Unrepeated(cc_callwheel[b])
    /\ \A x \in Timer, b \in Bucket :
        Has(cc_callwheel[b], x) <=> pending[x] /\ b = BucketOf(c_time[x])

\* The wheel lags behind by at most the tick that is being worked on.
Lag == IF ticks = cc_softticks THEN 0 ELSE 1
LagInv ==
    /\ ticks = TickAfter(cc_softticks, Lag)
    /\ Walking \/ tpc = "sleep" => ticks = cc_softticks

\* Scheduled callouts lie ahead of the wheel, by less than half the range of the
\* tick counter, or in the part of the bucket that the walk has yet to see.
InWindow(x) == \E d \in 0 .. MaxTo + 1 : c_time[x] = TickAfter(cc_softticks, d)
WindowInv ==
    \A x \in Timer : pending[x] =>
        InWindow(x) \/ (Walking /\ c_time[x] = curticks /\ x \in Ahead)

CalloutInv ==
    /\ TypeOK /\ ClockInv /\ WheelInv /\ CursorStaysOnBucket /\ LagInv /\ WindowInv
    /\ RunsAreOwed

-----------------------------------------------------------------------------
(* Tick counts that wrap around *)

\* The remainders that a sum or a difference of tick counts can need.
LEMMA Remainders ==
    ASSUME NEW n \in Nat \ {0}, NEW r \in 0 .. n - 1
    PROVE  r % n = r /\ (r + n) % n = r /\ (r - n) % n = r
<1>1. r % n = r
  OBVIOUS
<1>2. (r + n) % n = r
  OBVIOUS
<1>3. (r - n) % n = r
  OBVIOUS
<1> QED
  BY <1>1, <1>2, <1>3

\* A bucket for every tick.
LEMMA BucketIn == ASSUME NEW t \in Tick PROVE BucketOf(t) \in Bucket
<1>1. t \in Int /\ WheelSize \in Nat \ {0}
  BY CalloutAssumption DEF Tick
<1>2. t % WheelSize \in 0 .. WheelSize - 1
  BY <1>1
<1> QED
  BY <1>2 DEF BucketOf, Bucket

\* Some ticks later.
LEMMA TickAfterIs ==
    ASSUME NEW s \in Tick, NEW d \in 0 .. TickMod
    PROVE  /\ TickAfter(s, d) = IF s + d < TickMod THEN s + d ELSE s + d - TickMod
           /\ TickAfter(s, d) \in Tick
<1>1. TickMod \in Nat \ {0} /\ s \in 0 .. TickMod - 1
  BY CalloutAssumption DEF Tick
<1>2. CASE s + d < TickMod
  <2>1. s + d \in 0 .. TickMod - 1
    BY <1>1, <1>2
  <2> QED
    BY <1>1, <1>2, <2>1, Remainders DEF TickAfter, Tick
<1>3. CASE ~(s + d < TickMod)
  <2>1. PICK r \in 0 .. TickMod - 1 : r = s + d - TickMod
    BY <1>1, <1>3
  <2>2. s + d = r + TickMod
    BY <1>1, <2>1
  <2>3. (s + d) % TickMod = r
    BY <1>1, <2>2, Remainders
  <2> QED
    BY <1>3, <2>1, <2>3 DEF TickAfter, Tick
<1> QED
  BY <1>2, <1>3

\* Within the range that callers may ask for, the int difference gives back what
\* was added, across a wrap-around too, and a tick can be gone step by step.
LEMMA TicksAhead ==
    ASSUME NEW s \in Tick, NEW d \in 0 .. MaxTo + 1
    PROVE  /\ TickAfter(s, d) \in Tick
           /\ TickAfter(s, d) = s <=> d = 0
           /\ Diff(TickAfter(s, d), s) = d
           /\ d # 0 => /\ d - 1 \in 0 .. MaxTo + 1
                       /\ TickAfter(TickAfter(s, 1), d - 1) = TickAfter(s, d)
<1>1. /\ TickMod \in Nat \ {0} /\ s \in 0 .. TickMod - 1 /\ MaxTo \in Nat \ {0}
      /\ 2 * (MaxTo + 1) < TickMod
  BY CalloutAssumption DEF Tick
<1>2. d \in 0 .. TickMod /\ 1 \in 0 .. TickMod /\ 2 * d < TickMod
  BY <1>1
<1>3. PICK e \in Tick : e = TickAfter(s, d) /\ e = IF s + d < TickMod THEN s + d ELSE s + d - TickMod
  BY <1>2, TickAfterIs
<1>4. e = s <=> d = 0
  BY <1>1, <1>2, <1>3
<1>5. Diff(e, s) = d
  <2>1. PICK h \in Nat : h = TickMod \div 2 /\ 2 * h <= TickMod
    BY <1>1
  <2>2. d + h \in 0 .. TickMod - 1
    BY <1>1, <1>2, <2>1
  <2>3. e - s + h = d + h \/ e - s + h = (d + h) - TickMod
    BY <1>1, <1>3, <2>1 DEF Tick
  <2>4. (e - s + h) % TickMod = d + h
    BY <1>1, <2>2, <2>3, Remainders
  <2>5. Diff(e, s) = ((e - s + h) % TickMod) - h
    BY <2>1 DEF Diff
  <2> QED
    BY <1>2, <2>1, <2>4, <2>5
<1>6. ASSUME d # 0
      PROVE  d - 1 \in 0 .. MaxTo + 1 /\ TickAfter(TickAfter(s, 1), d - 1) = e
  <2>1. PICK f \in Tick : f = TickAfter(s, 1) /\ f = IF s + 1 < TickMod THEN s + 1 ELSE s + 1 - TickMod
    BY <1>2, TickAfterIs
  <2>2. d - 1 \in 0 .. MaxTo + 1 /\ d - 1 \in 0 .. TickMod
    BY <1>1, <1>2, <1>6
  <2>3. TickAfter(f, d - 1) = IF f + (d - 1) < TickMod THEN f + (d - 1) ELSE f + (d - 1) - TickMod
    BY <2>2, TickAfterIs
  <2>4. TickAfter(f, d - 1) = e
    BY <1>1, <1>2, <1>3, <1>6, <2>1, <2>3
  <2> QED
    BY <2>1, <2>2, <2>4
<1> QED
  BY <1>3, <1>4, <1>5, <1>6

-----------------------------------------------------------------------------
(* The order of a bucket *)

\* y stands in q, and x does, at y or behind it.
Precedes(q, y, x) == \E i, j \in 1 .. Len(q) : i <= j /\ q[i] = y /\ q[j] = x

\* The first of a list, or NULL, and everything is behind it.
LEMMA FirstOfBucket ==
    ASSUME NEW S, NEW q \in Seq(S), Null \notin S
    PROVE  /\ First(q) \in S \cup {Null}
           /\ First(q) # Null => Has(q, First(q))
           /\ \A x : Has(q, x) => First(q) # Null /\ Precedes(q, First(q), x)
<1>1. CASE q = <<>>
  BY <1>1, EmptyList DEF First
<1>2. CASE q # <<>>
  <2>1. Len(q) \in Nat /\ 1 \in 1 .. Len(q) /\ Head(q) = q[1] /\ Head(q) \in S /\ Has(q, Head(q))
    BY <1>2, HeadOn
  <2>2. First(q) = q[1] /\ q[1] # Null
    BY <1>2, <2>1 DEF First
  <2>3. \A x : Has(q, x) => Precedes(q, q[1], x)
    BY <2>1 DEF Has, Precedes
  <2> QED
    BY <2>1, <2>2, <2>3
<1> QED
  BY <1>1, <1>2

\* The successor of the element at a place.
LEMMA NextInPlace ==
    ASSUME NEW S, NEW q \in Seq(S), Unrepeated(q), NEW k \in 1 .. Len(q)
    PROVE  NextIn(q, q[k]) = IF k = Len(q) THEN Null ELSE q[k + 1]
<1>1. Len(q) \in Nat
  BY LenProperties
<1>2. CASE k = Len(q)
  <2>1. ASSUME NEW j \in 1 .. Len(q) - 1, q[j] = q[k] PROVE FALSE
    <3>1. j \in 1 .. Len(q)
      BY <1>1
    <3>2. j = k
      BY <2>1, <3>1 DEF Unrepeated
    <3> QED
      BY <1>1, <1>2, <3>2
  <2> QED
    BY <1>2, <2>1 DEF NextIn
<1>3. CASE k # Len(q)
  <2>1. k \in 1 .. Len(q) - 1
    BY <1>1, <1>3
  <2>2. PICK n : n = CHOOSE j \in 1 .. Len(q) - 1 : q[j] = q[k]
    OBVIOUS
  <2>3. n \in 1 .. Len(q) - 1 /\ q[n] = q[k]
    BY <2>1, <2>2
  <2>4. n \in 1 .. Len(q)
    BY <1>1, <2>3
  <2>5. n = k
    BY <2>3, <2>4 DEF Unrepeated
  <2> QED
    BY <1>3, <2>1, <2>2, <2>5 DEF NextIn
<1> QED
  BY <1>2, <1>3

\* The successor is in the list, and what was behind its predecessor is behind it.
LEMMA NextInList ==
    ASSUME NEW S, NEW q \in Seq(S), Null \notin S, Unrepeated(q), NEW y, Has(q, y)
    PROVE  /\ NextIn(q, y) \in S \cup {Null}
           /\ NextIn(q, y) # Null => Has(q, NextIn(q, y)) /\ NextIn(q, y) # y
           /\ \A x : Precedes(q, y, x) /\ x # y =>
                NextIn(q, y) # Null /\ Precedes(q, NextIn(q, y), x)
<1>1. PICK k \in 1 .. Len(q) : q[k] = y
  BY DEF Has
<1>2. PICK n : n = NextIn(q, y)
  OBVIOUS
<1>3. n = IF k = Len(q) THEN Null ELSE q[k + 1]
  BY <1>1, <1>2, NextInPlace
<1>4. Len(q) \in Nat /\ k \in Nat
  BY LenProperties
<1>5. k # Len(q) => k + 1 \in 1 .. Len(q) /\ k + 1 # k
  BY <1>4
<1>6. k # Len(q) => q[k + 1] \in S /\ q[k + 1] # Null
  BY <1>5, ElementOfSeq
<1>7. n \in S \cup {Null}
  BY <1>3, <1>6
<1>8. ASSUME n # Null PROVE Has(q, n) /\ n # y
  <2>1. k # Len(q) /\ n = q[k + 1]
    BY <1>3, <1>8
  <2>2. Has(q, n)
    BY <1>5, <2>1 DEF Has
  <2>3. n # y
    BY <1>1, <1>5, <2>1 DEF Unrepeated
  <2> QED
    BY <2>2, <2>3
<1>9. ASSUME NEW x, Precedes(q, y, x), x # y PROVE n # Null /\ Precedes(q, n, x)
  <2>1. PICK i \in 1 .. Len(q), j \in 1 .. Len(q) : i <= j /\ q[i] = y /\ q[j] = x
    BY <1>9 DEF Precedes
  <2>2. i = k
    BY <1>1, <2>1 DEF Unrepeated
  <2>3. j # k
    BY <1>1, <1>9, <2>1
  <2>4. k # Len(q) /\ k + 1 <= j /\ k + 1 \in 1 .. Len(q)
    BY <1>4, <2>1, <2>2, <2>3
  <2>5. n = q[k + 1]
    BY <1>3, <2>4
  <2> QED
    BY <1>6, <2>1, <2>4, <2>5 DEF Precedes
<1> QED
  BY <1>2, <1>7, <1>8, <1>9

\* Taking a third out keeps the order, and so does linking in at the end.
LEMMA OrderKept ==
    ASSUME NEW S, NEW q \in Seq(S), Unrepeated(q), NEW y, NEW x, Precedes(q, y, x)
    PROVE  /\ \A z : z # y /\ z # x => Precedes(Without(q, z), y, x)
           /\ \A z \in S : Precedes(Append(q, z), y, x)
<1>1. PICK i \in 1 .. Len(q), j \in 1 .. Len(q) : i <= j /\ q[i] = y /\ q[j] = x
  BY DEF Precedes
<1>2. Len(q) \in Nat
  BY LenProperties
<1>3. ASSUME NEW z, z # y, z # x PROVE Precedes(Without(q, z), y, x)
  <2>1. CASE ~Has(q, z)
    BY <2>1 DEF Without
  <2>2. CASE Has(q, z)
    <3>1. PICK k \in 1 .. Len(q) : k = PlaceOf(q, z) /\ q[k] = z
      BY <2>2, PlaceOn
    <3>2. /\ Len(RemoveAt(q, k)) = Len(q) - 1
          /\ \A m \in 1 .. Len(q) - 1 : RemoveAt(q, k)[m] = IF m < k THEN q[m] ELSE q[m + 1]
      BY RemoveList
    <3>3. PICK r : r = RemoveAt(q, k) /\ r = Without(q, z)
      BY <2>2, <3>1 DEF Without
    <3>4. /\ Len(r) = Len(q) - 1
          /\ \A m \in 1 .. Len(q) - 1 : r[m] = IF m < k THEN q[m] ELSE q[m + 1]
      BY <3>2, <3>3, Zenon
    <3>5. i # k /\ j # k
      BY <1>1, <1>3, <3>1
    <3>6. PICK a \in 1 .. Len(q) - 1 : a = IF i < k THEN i ELSE i - 1
      BY <1>2, <3>5
    <3>7. PICK b \in 1 .. Len(q) - 1 : b = IF j < k THEN j ELSE j - 1
      BY <1>2, <3>5
    <3>8. a <= b
      BY <1>1, <1>2, <3>5, <3>6, <3>7
    <3>9. r[a] = y
      <4>1. CASE i < k
        BY <1>1, <3>4, <3>6, <4>1
      <4>2. CASE ~(i < k)
        <5>1. ~(a < k) /\ a + 1 = i
          BY <1>2, <3>5, <3>6, <4>2
        <5> QED
          BY <1>1, <3>4, <5>1
      <4> QED
        BY <4>1, <4>2
    <3>10. r[b] = x
      <4>1. CASE j < k
        BY <1>1, <3>4, <3>7, <4>1
      <4>2. CASE ~(j < k)
        <5>1. ~(b < k) /\ b + 1 = j
          BY <1>2, <3>5, <3>7, <4>2
        <5> QED
          BY <1>1, <3>4, <5>1
      <4> QED
        BY <4>1, <4>2
    <3> QED
      BY <3>3, <3>4, <3>8, <3>9, <3>10 DEF Precedes
  <2> QED
    BY <2>1, <2>2
<1>4. ASSUME NEW z \in S PROVE Precedes(Append(q, z), y, x)
  <2>1. PICK r : r = Append(q, z)
    OBVIOUS
  <2>2. Len(r) = Len(q) + 1 /\ r[i] = q[i] /\ r[j] = q[j]
    BY <2>1, AppendProperties
  <2>3. i \in 1 .. Len(r) /\ j \in 1 .. Len(r)
    BY <1>2, <2>2
  <2> QED
    BY <1>1, <2>1, <2>2, <2>3 DEF Precedes
<1> QED
  BY <1>3, <1>4

-----------------------------------------------------------------------------
(* The wheel and the cursor *)

\* The constants' assumption in the form the steps use.
LEMMA Constants ==
    /\ c_lock \in [Timer -> Lock \cup {Null}] /\ Null \notin Timer /\ Null \notin Lock
    /\ Null \notin Client /\ Clock \notin Client /\ Clock # Null /\ Actor = Client \cup {Clock}
    /\ TickMod \in Nat \ {0} /\ MaxTo \in Nat \ {0} /\ MaxSteps \in Nat \ {0}
    /\ 0 \in Tick /\ 0 \in 0 .. MaxSteps
BY CalloutAssumption DEF Actor, Tick

\* The bucket that is walked.
Here == cc_callwheel[BucketOf(curticks)]

\* What the walk has yet to see, in terms of order.
LEMMA AheadIs ==
    ASSUME CalloutInv
    PROVE  /\ BucketOf(curticks) \in Bucket /\ Here \in Seq(Timer) /\ Unrepeated(Here)
           /\ \A x : x \in Ahead <=> Precedes(Here, Cursor, x)
           /\ Walking /\ Cursor # Null => Cursor \in Timer /\ Has(Here, Cursor)
<1>1. BucketOf(curticks) \in Bucket
  BY BucketIn DEF CalloutInv, TypeOK
<1>2. Here \in Seq(Timer) /\ Unrepeated(Here)
  BY <1>1 DEF CalloutInv, TypeOK, WheelInv, Here
<1>3. ASSUME NEW x PROVE x \in Ahead <=> Precedes(Here, Cursor, x)
  <2>1. PICK q : q = Here
    OBVIOUS
  <2>2. PICK y : y = Cursor
    OBVIOUS
  <2>3. Len(q) \in Nat
    BY <1>2, <2>1, LenProperties
  <2>4. Ahead = {q[k] : k \in {j \in 1 .. Len(q) : \E i \in 1 .. j : q[i] = y}}
    BY <2>1, <2>2 DEF Ahead, Here
  <2>5. \A i, j \in 1 .. Len(q) : i <= j => i \in 1 .. j
    BY <2>3
  <2>6. \A j \in 1 .. Len(q) : \A i \in 1 .. j : i \in 1 .. Len(q) /\ i <= j
    BY <2>3
  <2>7. x \in Ahead <=> Precedes(q, y, x)
    BY <2>4, <2>5, <2>6 DEF Precedes
  <2> QED
    BY <2>1, <2>2, <2>7
<1>4. ASSUME Walking, Cursor # Null PROVE Cursor \in Timer /\ Has(Here, Cursor)
  <2>1. Cursor \in Timer /\ pending[Cursor] /\ BucketOf(c_time[Cursor]) = BucketOf(curticks)
    BY <1>4 DEF CalloutInv, TypeOK, CursorStaysOnBucket, Cursor
  <2> QED
    BY <1>1, <2>1 DEF CalloutInv, WheelInv, Here
<1> QED
  BY <1>1, <1>2, <1>3, <1>4

\* TAILQ_NEXT of a callout in its bucket.
LEMMA NextOn ==
    ASSUME CalloutInv, NEW b \in Bucket, NEW x, Has(cc_callwheel[b], x)
    PROVE  /\ NextIn(cc_callwheel[b], x) \in Timer \cup {Null}
           /\ NextIn(cc_callwheel[b], x) # Null =>
                /\ Has(cc_callwheel[b], NextIn(cc_callwheel[b], x))
                /\ NextIn(cc_callwheel[b], x) # x
           /\ \A y : Precedes(cc_callwheel[b], x, y) /\ y # x =>
                /\ NextIn(cc_callwheel[b], x) # Null
                /\ Precedes(cc_callwheel[b], NextIn(cc_callwheel[b], x), y)
<1>1. PICK q : q = cc_callwheel[b]
  OBVIOUS
<1>2. q \in Seq(Timer) /\ Unrepeated(q) /\ Null \notin Timer /\ Has(q, x)
  BY <1>1, Constants DEF CalloutInv, TypeOK, WheelInv
<1>3. /\ NextIn(q, x) \in Timer \cup {Null}
      /\ NextIn(q, x) # Null => Has(q, NextIn(q, x)) /\ NextIn(q, x) # x
      /\ \A y : Precedes(q, x, y) /\ y # x => NextIn(q, x) # Null /\ Precedes(q, NextIn(q, x), y)
  BY <1>2, NextInList
<1> QED
  BY <1>1, <1>3

\* The callout after the cursor.
LEMMA SuccessorOn ==
    ASSUME CalloutInv, tpc = "walk", c # Null
    PROVE  /\ c \in Timer /\ pending[c] /\ BucketOf(c_time[c]) = BucketOf(curticks)
           /\ Successor \in Timer \cup {Null}
           /\ Successor # Null => /\ Has(Here, Successor) /\ Successor # c
                                  /\ pending[Successor]
                                  /\ BucketOf(c_time[Successor]) = BucketOf(curticks)
           /\ \A y : Precedes(Here, c, y) /\ y # c =>
                Successor # Null /\ Precedes(Here, Successor, y)
<1>1. Walking /\ Cursor = c
  BY DEF Walking, Cursor
<1>2. c \in Timer /\ Has(Here, c) /\ BucketOf(curticks) \in Bucket
  BY <1>1, AheadIs
<1>3. PICK n : n = Successor
  OBVIOUS
<1>4. /\ n \in Timer \cup {Null} /\ (n # Null => Has(Here, n) /\ n # c)
      /\ \A y : Precedes(Here, c, y) /\ y # c => n # Null /\ Precedes(Here, n, y)
  BY <1>2, <1>3, NextOn DEF Successor, Here
<1>5. n # Null => pending[n] /\ BucketOf(c_time[n]) = BucketOf(curticks)
  BY <1>2, <1>4 DEF CalloutInv, WheelInv, Here
<1>6. pending[c] /\ BucketOf(c_time[c]) = BucketOf(curticks)
  BY <1>2 DEF CalloutInv, WheelInv, Here
<1> QED
  BY <1>2, <1>3, <1>4, <1>5, <1>6

\* A wheel once a callout is unlinked: the others are where they were.
LEMMA WheelOff ==
    ASSUME CalloutInv, NEW x \in Timer
    PROVE  /\ WheelWithout(x) \in [Bucket -> Seq(Timer)]
           /\ \A b \in Bucket : Unrepeated(WheelWithout(x)[b])
           /\ \A b \in Bucket, y \in Timer :
                Has(WheelWithout(x)[b], y) <=> Has(cc_callwheel[b], y) /\ y # x
           /\ \A b \in Bucket, y, z \in Timer :
                Precedes(cc_callwheel[b], y, z) /\ y # x /\ z # x =>
                  Precedes(WheelWithout(x)[b], y, z)
<1>1. /\ cc_callwheel \in [Bucket -> Seq(Timer)] /\ c_time[x] \in Tick
      /\ \A b \in Bucket : Unrepeated(cc_callwheel[b])
      /\ \A b \in Bucket : Has(cc_callwheel[b], x) <=> pending[x] /\ b = BucketOf(c_time[x])
  BY DEF CalloutInv, TypeOK, WheelInv
<1>2. CASE ~pending[x]
  <2>1. WheelWithout(x) = cc_callwheel
    BY <1>2 DEF WheelWithout
  <2>2. \A b \in Bucket, y \in Timer : Has(cc_callwheel[b], y) => y # x
    BY <1>1, <1>2
  <2> QED
    BY <1>1, <2>1, <2>2
<1>3. CASE pending[x]
  <2>1. PICK d \in Bucket : d = BucketOf(c_time[x])
    BY <1>1, BucketIn
  <2>2. PICK w : w = WheelWithout(x)
    OBVIOUS
  <2>3. PICK r : r = Without(cc_callwheel[d], x)
    OBVIOUS
  <2>4. w = [cc_callwheel EXCEPT ![d] = r]
    BY <1>3, <2>1, <2>2, <2>3 DEF WheelWithout
  <2>5. /\ r \in Seq(Timer) /\ Unrepeated(r)
        /\ \A y : Has(r, y) <=> Has(cc_callwheel[d], y) /\ y # x
    BY <1>1, <2>3, WithoutList
  <2>6. \A y, z : Precedes(cc_callwheel[d], y, z) /\ y # x /\ z # x => Precedes(r, y, z)
    BY <1>1, <2>3, OrderKept
  <2>7. w[d] = r /\ \A b \in Bucket : b # d => w[b] = cc_callwheel[b]
    BY <1>1, <2>4
  <2>8. w \in [Bucket -> Seq(Timer)]
    BY <1>1, <2>4, <2>5
  <2>9. \A b \in Bucket : b # d => ~Has(cc_callwheel[b], x)
    BY <1>1, <2>1
  <2>10. ASSUME NEW b \in Bucket
         PROVE  /\ Unrepeated(w[b])
                /\ \A y : Has(w[b], y) <=> Has(cc_callwheel[b], y) /\ y # x
                /\ \A y, z : Precedes(cc_callwheel[b], y, z) /\ y # x /\ z # x => Precedes(w[b], y, z)
    <3>1. CASE b = d
      BY <2>5, <2>6, <2>7, <3>1
    <3>2. CASE b # d
      BY <1>1, <2>7, <2>9, <3>2
    <3> QED
      BY <3>1, <3>2
  <2> QED
    BY <2>2, <2>8, <2>10
<1> QED
  BY <1>2, <1>3

\* A callout linked in at the end of a bucket of such a wheel.
WheelWith(x, d) == [WheelWithout(x) EXCEPT ![d] = Append(@, x)]

\* It is there, and the others are where they were.
LEMMA WheelOn ==
    ASSUME CalloutInv, NEW x \in Timer, NEW d \in Bucket
    PROVE  /\ WheelWith(x, d) \in [Bucket -> Seq(Timer)]
           /\ \A b \in Bucket : Unrepeated(WheelWith(x, d)[b])
           /\ \A b \in Bucket, y \in Timer :
                Has(WheelWith(x, d)[b], y)
                  <=> (Has(cc_callwheel[b], y) /\ y # x) \/ (y = x /\ b = d)
           /\ \A b \in Bucket, y, z \in Timer :
                Precedes(cc_callwheel[b], y, z) /\ y # x /\ z # x =>
                  Precedes(WheelWith(x, d)[b], y, z)
<1> PICK w : w = WheelWith(x, d)
  OBVIOUS
<1>1. PICK v : v = WheelWithout(x)
  OBVIOUS
<1>2. /\ v \in [Bucket -> Seq(Timer)]
      /\ \A b \in Bucket : Unrepeated(v[b])
      /\ \A b \in Bucket, y \in Timer : Has(v[b], y) <=> Has(cc_callwheel[b], y) /\ y # x
      /\ \A b \in Bucket, y, z \in Timer :
           Precedes(cc_callwheel[b], y, z) /\ y # x /\ z # x => Precedes(v[b], y, z)
  BY <1>1, WheelOff
<1>3. PICK r : r = Append(v[d], x)
  OBVIOUS
<1>4. v[d] \in Seq(Timer) /\ Unrepeated(v[d]) /\ ~Has(v[d], x)
  BY <1>2
<1>5. /\ r \in Seq(Timer) /\ Unrepeated(r)
      /\ \A y : Has(r, y) <=> Has(v[d], y) \/ y = x
  BY <1>3, <1>4, AppendList
<1>6. \A y, z : Precedes(v[d], y, z) => Precedes(r, y, z)
  BY <1>3, <1>4, OrderKept
<1>7. w = [v EXCEPT ![d] = r]
  BY <1>1, <1>3 DEF WheelWith
<1>8. w[d] = r /\ \A b \in Bucket : b # d => w[b] = v[b]
  BY <1>2, <1>7
<1>9. w \in [Bucket -> Seq(Timer)]
  BY <1>2, <1>5, <1>7
<1>10. ASSUME NEW b \in Bucket
       PROVE  /\ Unrepeated(w[b])
              /\ \A y \in Timer :
                   Has(w[b], y) <=> (Has(cc_callwheel[b], y) /\ y # x) \/ (y = x /\ b = d)
              /\ \A y, z \in Timer :
                   Precedes(cc_callwheel[b], y, z) /\ y # x /\ z # x => Precedes(w[b], y, z)
  <2>1. CASE b = d
    BY <1>2, <1>5, <1>6, <1>8, <2>1
  <2>2. CASE b # d
    BY <1>2, <1>8, <2>2
  <2> QED
    BY <2>1, <2>2
<1> QED
  BY <1>9, <1>10

\* cc_next once a pending callout is unlinked, while the lock is dropped: it is
\* still in the bucket, and has the same callouts behind it.
LEMMA NextOff ==
    ASSUME CalloutInv, NEW x \in Timer, pending[x]
    PROVE  /\ NextWithout(x) \in Timer \cup {Null} /\ NextWithout(x) # x
           /\ Walking /\ tpc # "walk" =>
                /\ NextWithout(x) # Null => Has(Here, NextWithout(x))
                /\ \A y \in Timer : Precedes(Here, cc_next, y) /\ y # x =>
                     NextWithout(x) # Null /\ Precedes(Here, NextWithout(x), y)
<1>1. PICK d \in Bucket : d = BucketOf(c_time[x])
  BY BucketIn DEF CalloutInv, TypeOK
<1>2. Has(cc_callwheel[d], x)
  BY <1>1 DEF CalloutInv, WheelInv
<1>3. x # Null /\ cc_next \in Timer \cup {Null}
  BY Constants DEF CalloutInv, TypeOK
<1>4. CASE cc_next = x
  <2>1. PICK n : n = NextIn(cc_callwheel[d], x)
    OBVIOUS
  <2>2. NextWithout(x) = n
    BY <1>1, <1>4, <2>1 DEF NextWithout
  <2>3. /\ n \in Timer \cup {Null} /\ (n # Null => Has(cc_callwheel[d], n) /\ n # x)
        /\ \A y : Precedes(cc_callwheel[d], x, y) /\ y # x =>
             n # Null /\ Precedes(cc_callwheel[d], n, y)
    BY <1>2, <2>1, NextOn
  <2>4. ASSUME Walking, tpc # "walk" PROVE cc_callwheel[d] = Here
    <3>1. Cursor = x
      BY <1>4, <2>4 DEF Cursor
    <3>2. d = BucketOf(curticks)
      BY <1>1, <1>3, <2>4, <3>1 DEF CalloutInv, CursorStaysOnBucket
    <3> QED
      BY <3>2 DEF Here
  <2> QED
    BY <1>3, <1>4, <2>2, <2>3, <2>4
<1>5. CASE cc_next # x
  <2>1. NextWithout(x) = cc_next
    BY <1>5 DEF NextWithout
  <2>2. ASSUME Walking, tpc # "walk", cc_next # Null PROVE Has(Here, cc_next)
    <3>1. Cursor = cc_next
      BY <2>2 DEF Cursor
    <3> QED
      BY <2>2, <3>1, AheadIs
  <2>3. ASSUME NEW y \in Timer, Precedes(Here, cc_next, y) PROVE cc_next # Null
    <3>1. PICK i \in 1 .. Len(Here) : Here[i] = cc_next
      BY <2>3 DEF Precedes
    <3>2. cc_next \in Timer
      BY <3>1, AheadIs, ElementOfSeq
    <3> QED
      BY <3>2, Constants
  <2> QED
    BY <1>3, <1>5, <2>1, <2>2, <2>3
<1> QED
  BY <1>4, <1>5

-----------------------------------------------------------------------------
(* What the actions do *)

\* callout_stop and callout_drain of a scheduled callout.
Unlinks(x) ==
    /\ cc_lock = Null /\ pending[x]
    /\ cc_next' = NextWithout(x)
    /\ cc_callwheel' = WheelWithout(x)
    /\ pending' = [pending EXCEPT ![x] = FALSE]
    /\ owed' = [owed EXCEPT ![x] = @ - 1]
    /\ UNCHANGED <<ticks, cc_softticks, tpc, curticks, c, steps, c_time, cc_lock, cc_curr,
                   cc_cancel, owner, pc>>

\* Every step of a client is one of these.
LEMMA ClientDoes ==
    ASSUME ClientStep
    PROVE  \/ \E a \in Actor, x \in Timer, to \in 1 .. MaxTo : Reset(a, x, to)
           \/ \E x \in Timer : Unlinks(x)
           \/ \E a \in Actor, x \in Timer : StopCurrent(a, x)
           \/ \E t \in Client, x \in Timer : DrainCurrent(t, x)
           \/ \E t \in Client : TimeoutCall(t) \/ ReleaseLock(t) \/ \E l \in Lock : TakeLock(t, l)
<1>1. ASSUME NEW a \in Actor, NEW x \in Timer, StopPending(a, x) PROVE Unlinks(x)
  BY <1>1 DEF StopPending, MayCall, Unlinks, clockVars
<1>2. ASSUME NEW t \in Client, NEW x \in Timer, DrainPending(t, x) PROVE Unlinks(x)
  BY <1>2 DEF DrainPending, Unlinks, clockVars
<1> QED
  BY <1>1, <1>2 DEF ClientStep

\* callout_tick steps over a bucket only if it is empty.
LEMMA SkipIs ==
    ASSUME CalloutInv
    PROVE  /\ EmptyBucketsToSkip \in {0, 1}
           /\ EmptyBucketsToSkip = 1 =>
                ticks = TickAfter(cc_softticks, 1) /\ cc_callwheel[BucketOf(cc_softticks)] = <<>>
           /\ EmptyBucketsToSkip = 0 /\ TickAfter(cc_softticks, 0) # ticks =>
                cc_callwheel[BucketOf(cc_softticks)] # <<>>
<1> DEFINE At(k) == cc_callwheel[BucketOf(TickAfter(cc_softticks, k))]
           Good(n, k) == (k = n \/ At(k) # <<>>) /\ \A j \in 0 .. k - 1 : At(j) = <<>>
<1>1. cc_softticks \in Tick /\ ticks \in Tick /\ MaxTo \in Nat \ {0}
  BY Constants DEF CalloutInv, TypeOK
<1>2. Lag \in {0, 1} /\ Lag \in 0 .. MaxTo + 1 /\ 0 \in 0 .. MaxTo + 1
  BY <1>1 DEF Lag
<1>3. PICK n \in {0, 1} : n = Lag
  BY <1>2
<1>4. ticks = TickAfter(cc_softticks, n)
  BY <1>3 DEF CalloutInv, LagInv
<1>5. Diff(ticks, cc_softticks) = n
  BY <1>1, <1>2, <1>3, <1>4, TicksAhead
<1>6. TickAfter(cc_softticks, 0) = cc_softticks
  BY <1>1, <1>2, TicksAhead
<1>7. PICK k : k = CHOOSE i \in 0 .. n : Good(n, i)
  OBVIOUS
<1>8. EmptyBucketsToSkip = k
  BY <1>5, <1>7 DEF EmptyBucketsToSkip
<1>9. At(0) = cc_callwheel[BucketOf(cc_softticks)]
  BY <1>6
<1> HIDE DEF At
<1>10. \E i \in 0 .. n : Good(n, i)
  <2>1. CASE n = 0 \/ At(0) # <<>>
    <3>1. 0 \in 0 .. n /\ Good(n, 0)
      BY <2>1
    <3> QED
      BY <3>1
  <2>2. CASE n = 1 /\ At(0) = <<>>
    <3>1. 1 \in 0 .. n /\ Good(n, 1)
      BY <2>2
    <3> QED
      BY <3>1
  <2> QED
    BY <2>1, <2>2
<1>11. k \in 0 .. n /\ Good(n, k)
  <2> HIDE DEF Good
  <2> QED
    BY <1>7, <1>10
<1>12. k \in {0, 1} /\ (k = 1 => n = 1 /\ At(0) = <<>>) /\ (k = 0 /\ n = 1 => At(0) # <<>>)
  BY <1>11
<1>13. TickAfter(cc_softticks, 0) # ticks => n = 1
  BY <1>3, <1>4
<1> QED
  BY <1>4, <1>8, <1>9, <1>12, <1>13

-----------------------------------------------------------------------------
(* Where the clock thread is *)

\* In every step.
LEMMA ClockInvStep == ASSUME CalloutInv, [Next]_vars PROVE ClockInv'
<1> USE DEF CalloutInv, ClockInv
<1>1. Clock # Null /\ Clock \notin Client /\ Null \notin Client
  BY Constants
<1>2. CASE Hardclock \/ CalloutTick \/ SoftclockEnter
  BY <1>1, <1>2 DEF Hardclock, CalloutTick, SoftclockEnter
<1>3. CASE NextBucket
  BY <1>1, <1>3 DEF NextBucket
<1>4. CASE BucketDone \/ NotDue \/ Relock
  BY <1>1, <1>4 DEF BucketDone, NotDue, Relock
<1>5. CASE Due
  BY <1>1, <1>5 DEF Due
<1>6. CASE SwitchNoLock \/ SwitchLock \/ HandlerReturns
  BY <1>1, <1>6 DEF SwitchNoLock, SwitchLock, HandlerReturns
<1>7. CASE Skip
  BY <1>1, <1>7 DEF Skip
<1>8. CASE ClientStep
  <2>1. ASSUME NEW a \in Actor, NEW x \in Timer, NEW to \in 1 .. MaxTo, Reset(a, x, to)
        PROVE  ClockInv'
    BY <2>1 DEF Reset, clockVars
  <2>2. ASSUME NEW x \in Timer, Unlinks(x) PROVE ClockInv'
    BY <2>2 DEF Unlinks
  <2>3. ASSUME NEW a \in Actor, NEW x \in Timer, StopCurrent(a, x) PROVE ClockInv'
    BY <2>3 DEF StopCurrent, clockVars
  <2>4. ASSUME NEW t \in Client,
               \/ \E x \in Timer : DrainCurrent(t, x)
               \/ TimeoutCall(t) \/ ReleaseLock(t) \/ \E l \in Lock : TakeLock(t, l)
        PROVE  ClockInv'
    BY <1>1, <2>4 DEF DrainCurrent, TimeoutCall, ReleaseLock, TakeLock, clockVars
  <2> QED
    BY <1>8, <2>1, <2>2, <2>3, <2>4, ClientDoes
<1>9. CASE UNCHANGED vars
  BY <1>9 DEF vars, clockVars
<1> QED
  BY <1>2, <1>3, <1>4, <1>5, <1>6, <1>7, <1>8, <1>9 DEF Next, ClockStep

\* The wheel lags behind by one tick at most.
LEMMA LagInvStep == ASSUME CalloutInv, [Next]_vars PROVE LagInv'
<1>1. /\ cc_softticks \in Tick /\ ticks \in Tick /\ MaxTo \in Nat \ {0}
      /\ 0 \in 0 .. MaxTo + 1 /\ 1 \in 0 .. MaxTo + 1 /\ LagInv
  BY Constants DEF CalloutInv, TypeOK
<1>2. TickAfter(cc_softticks, 0) = cc_softticks /\ TickAfter(cc_softticks, 1) # cc_softticks
      /\ TickAfter(ticks, 0) = ticks
  BY <1>1, TicksAhead
<1>3. ticks = cc_softticks \/ ticks = TickAfter(cc_softticks, 1)
  BY <1>1, <1>2 DEF LagInv, Lag
<1>4. ASSUME ticks' = cc_softticks', ticks' \in Tick PROVE LagInv'
  <2>1. TickAfter(cc_softticks', 0) = cc_softticks'
    BY <1>1, <1>4, TicksAhead
  <2> QED
    BY <1>4, <2>1 DEF LagInv, Lag
<1>5. ASSUME UNCHANGED <<ticks, cc_softticks>>, Walking' \/ tpc' = "sleep" => ticks = cc_softticks
      PROVE  LagInv'
  BY <1>1, <1>5 DEF LagInv, Lag
<1>6. ASSUME UNCHANGED <<ticks, cc_softticks, tpc>> PROVE LagInv'
  BY <1>1, <1>5, <1>6 DEF LagInv, Walking
<1>7. CASE Hardclock
  <2>1. ticks' = TickAfter(ticks, 1) /\ tpc' = "tick" /\ cc_softticks' = cc_softticks
        /\ ticks = cc_softticks
    BY <1>1, <1>7 DEF Hardclock, LagInv
  <2>2. Lag' = 1 /\ ticks' = TickAfter(cc_softticks', 1)
    BY <1>2, <2>1 DEF Lag
  <2> QED
    BY <2>1, <2>2 DEF LagInv, Walking
<1>8. CASE CalloutTick
  <2>1. /\ cc_softticks' = TickAfter(cc_softticks, EmptyBucketsToSkip) /\ ticks' = ticks
        /\ tpc' = IF cc_softticks' = ticks THEN "sleep" ELSE "softclock"
    BY <1>8 DEF CalloutTick
  <2>2. CASE EmptyBucketsToSkip = 1
    BY <1>1, <1>4, <2>1, <2>2, SkipIs
  <2>3. CASE EmptyBucketsToSkip = 0
    <3>1. cc_softticks' = cc_softticks
      BY <1>2, <2>1, <2>3
    <3> QED
      BY <1>5, <2>1, <3>1 DEF Walking
  <2> QED
    BY <2>2, <2>3, SkipIs
<1>9. CASE NextBucket
  <2>1. CASE cc_softticks # ticks
    <3>1. ticks' = ticks /\ cc_softticks' = TickAfter(cc_softticks, 1)
      BY <1>9, <2>1 DEF NextBucket
    <3> QED
      BY <1>1, <1>3, <1>4, <2>1, <3>1
  <2>2. CASE cc_softticks = ticks
    BY <1>5, <1>9, <2>2 DEF NextBucket
  <2> QED
    BY <2>1, <2>2
<1>10. CASE SoftclockEnter \/ BucketDone
  BY <1>5, <1>10 DEF SoftclockEnter, BucketDone, Walking
<1>11. CASE NotDue \/ Relock \/ Due \/ SwitchNoLock \/ SwitchLock \/ HandlerReturns \/ Skip
  <2>1. UNCHANGED <<ticks, cc_softticks>> /\ Walking
    BY <1>11 DEF NotDue, Relock, Due, SwitchNoLock, SwitchLock, HandlerReturns, Skip, Walking
  <2> QED
    BY <1>1, <1>5, <2>1 DEF LagInv
<1>12. CASE ClientStep \/ UNCHANGED vars
  <2>1. UNCHANGED <<ticks, cc_softticks, tpc>>
    BY <1>12, ClientDoes DEF Reset, Unlinks, StopCurrent, DrainCurrent, TimeoutCall, ReleaseLock,
         TakeLock, clockVars, vars
  <2> QED
    BY <1>6, <2>1
<1> QED
  BY <1>7, <1>8, <1>9, <1>10, <1>11, <1>12 DEF Next, ClockStep

-----------------------------------------------------------------------------
(* The wheel *)

\* What the steps that unlink a callout or link one in do to the others.
LEMMA UnlinkDoes ==
    ASSUME CalloutInv, NEW x \in Timer, Unlinks(x)
    PROVE  /\ cc_callwheel' \in [Bucket -> Seq(Timer)]
           /\ pending' \in [Timer -> BOOLEAN]
           /\ \A b \in Bucket : Unrepeated(cc_callwheel'[b])
           /\ \A b \in Bucket, y \in Timer :
                Has(cc_callwheel'[b], y) <=> Has(cc_callwheel[b], y) /\ y # x
           /\ \A b \in Bucket, y, z \in Timer :
                Precedes(cc_callwheel[b], y, z) /\ y # x /\ z # x => Precedes(cc_callwheel'[b], y, z)
           /\ \A y \in Timer : pending'[y] <=> pending[y] /\ y # x
<1>1. pending \in [Timer -> BOOLEAN]
  BY DEF CalloutInv, TypeOK
<1>2. cc_callwheel' = WheelWithout(x) /\ pending' = [pending EXCEPT ![x] = FALSE]
  BY DEF Unlinks
<1>3. pending' \in [Timer -> BOOLEAN] /\ \A y \in Timer : pending'[y] <=> pending[y] /\ y # x
  BY <1>1, <1>2, Zenon
<1> QED
  BY <1>2, <1>3, WheelOff

\* softclock takes a callout that is due off the wheel in the same way.
LEMMA DueDoes ==
    ASSUME CalloutInv, Due
    PROVE  /\ c \in Timer /\ pending[c] /\ c_time[c] = curticks /\ c # Null
           /\ cc_callwheel' = WheelWithout(c) /\ pending' = [pending EXCEPT ![c] = FALSE]
           /\ cc_callwheel' \in [Bucket -> Seq(Timer)]
           /\ pending' \in [Timer -> BOOLEAN]
           /\ \A b \in Bucket : Unrepeated(cc_callwheel'[b])
           /\ \A b \in Bucket, y \in Timer :
                Has(cc_callwheel'[b], y) <=> Has(cc_callwheel[b], y) /\ y # c
           /\ \A b \in Bucket, y, z \in Timer :
                Precedes(cc_callwheel[b], y, z) /\ y # c /\ z # c => Precedes(cc_callwheel'[b], y, z)
           /\ \A y \in Timer : pending'[y] <=> pending[y] /\ y # c
<1>1. tpc = "walk" /\ c # Null /\ c_time[c] = curticks
  BY DEF Due
<1>2. c \in Timer /\ pending[c]
  BY <1>1, SuccessorOn
<1>3. cc_callwheel' = WheelWithout(c) /\ pending' = [pending EXCEPT ![c] = FALSE]
  BY <1>1, <1>2 DEF Due, WheelWithout
<1>4. pending \in [Timer -> BOOLEAN]
  BY DEF CalloutInv, TypeOK
<1>5. pending' \in [Timer -> BOOLEAN] /\ \A y \in Timer : pending'[y] <=> pending[y] /\ y # c
  BY <1>3, <1>4, Zenon
<1> QED
  BY <1>1, <1>2, <1>3, <1>5, WheelOff

\* callout_reset links its callout in at the end of the bucket of its new time.
LEMMA ResetDoes ==
    ASSUME CalloutInv, NEW a \in Actor, NEW x \in Timer, NEW to \in 1 .. MaxTo, Reset(a, x, to)
    PROVE  /\ Deadline(to) \in Tick
           /\ c_time' \in [Timer -> Tick] /\ c_time'[x] = Deadline(to)
           /\ \A y \in Timer : y # x => c_time'[y] = c_time[y]
           /\ cc_callwheel' \in [Bucket -> Seq(Timer)]
           /\ pending' \in [Timer -> BOOLEAN]
           /\ \A b \in Bucket : Unrepeated(cc_callwheel'[b])
           /\ \A b \in Bucket, y \in Timer :
                Has(cc_callwheel'[b], y) <=>
                  (Has(cc_callwheel[b], y) /\ y # x) \/ (y = x /\ b = BucketOf(Deadline(to)))
           /\ \A b \in Bucket, y, z \in Timer :
                Precedes(cc_callwheel[b], y, z) /\ y # x /\ z # x => Precedes(cc_callwheel'[b], y, z)
           /\ \A y \in Timer : pending'[y] <=> pending[y] \/ y = x
<1>1. /\ pending \in [Timer -> BOOLEAN] /\ c_time \in [Timer -> Tick] /\ ticks \in Tick
      /\ to \in 0 .. MaxTo + 1
  BY Constants DEF CalloutInv, TypeOK
<1>2. PICK d \in Tick : d = Deadline(to)
  BY <1>1, TicksAhead DEF Deadline
<1>3. /\ c_time' = [c_time EXCEPT ![x] = d] /\ pending' = [pending EXCEPT ![x] = TRUE]
      /\ cc_callwheel' = [WheelWithout(x) EXCEPT ![BucketOf(d)] = Append(@, x)]
  BY <1>2 DEF Reset
<1>4. pending' \in [Timer -> BOOLEAN] /\ \A y \in Timer : pending'[y] <=> pending[y] \/ y = x
  BY <1>1, <1>3, Zenon
<1>5. /\ c_time' \in [Timer -> Tick] /\ c_time'[x] = d
      /\ \A y \in Timer : y # x => c_time'[y] = c_time[y]
  BY <1>1, <1>3
<1>6. BucketOf(d) \in Bucket /\ cc_callwheel' = WheelWith(x, BucketOf(d))
  BY <1>3, BucketIn DEF WheelWith
<1> QED
  BY <1>2, <1>4, <1>5, <1>6, WheelOn

\* The wheel in every step.
LEMMA WheelInvStep == ASSUME CalloutInv, [Next]_vars PROVE WheelInv'
<1>1. WheelInv
  BY DEF CalloutInv
<1>2. ASSUME UNCHANGED wheelVars PROVE WheelInv'
  BY <1>1, <1>2 DEF WheelInv, wheelVars
<1>3. CASE Due
  <2>1. c_time' = c_time
    BY <1>3 DEF Due
  <2> QED
    BY <1>1, <1>3, <2>1, DueDoes DEF WheelInv
<1>4. ASSUME NEW x \in Timer, Unlinks(x) PROVE WheelInv'
  <2>1. c_time' = c_time
    BY <1>4 DEF Unlinks
  <2> QED
    BY <1>1, <1>4, <2>1, UnlinkDoes DEF WheelInv
<1>5. ASSUME NEW a \in Actor, NEW x \in Timer, NEW to \in 1 .. MaxTo, Reset(a, x, to)
      PROVE  WheelInv'
  BY <1>1, <1>5, ResetDoes DEF WheelInv
<1>6. CASE ClientStep
  BY <1>2, <1>4, <1>5, <1>6, ClientDoes
     DEF StopCurrent, DrainCurrent, TimeoutCall, ReleaseLock, TakeLock
<1>7. CASE UNCHANGED vars
  BY <1>2, <1>7 DEF vars
<1>8. CASE ClockStep
  BY <1>2, <1>3, <1>8
     DEF ClockStep, Hardclock, CalloutTick, SoftclockEnter, NextBucket, BucketDone, NotDue,
         Relock, SwitchNoLock, SwitchLock, HandlerReturns, Skip
<1> QED
  BY <1>6, <1>7, <1>8 DEF Next

-----------------------------------------------------------------------------
(* The cursor *)

\* In every step.
LEMMA CursorStep == ASSUME CalloutInv, [Next]_vars PROVE CursorStaysOnBucket'
<1>1. CursorStaysOnBucket
  BY DEF CalloutInv
<1>2. ASSUME ~Walking' PROVE CursorStaysOnBucket'
  BY <1>2 DEF CursorStaysOnBucket
<1>3. ASSUME UNCHANGED <<wheelVars, curticks>>, Cursor' = Cursor, Walking PROVE CursorStaysOnBucket'
  BY <1>1, <1>3 DEF CursorStaysOnBucket, wheelVars
<1>4. ASSUME UNCHANGED <<wheelVars, curticks, cc_next, c, tpc>> PROVE CursorStaysOnBucket'
  BY <1>1, <1>4 DEF CursorStaysOnBucket, wheelVars, Walking, Cursor
<1>5. CASE Hardclock \/ CalloutTick \/ SoftclockEnter \/ BucketDone
  BY <1>2, <1>5 DEF Hardclock, CalloutTick, SoftclockEnter, BucketDone, Walking
<1>6. CASE NextBucket
  <2>1. CASE cc_softticks # ticks
    <3>1. /\ curticks' = cc_softticks /\ c' = First(cc_callwheel[BucketOf(cc_softticks)])
          /\ tpc' = "walk" /\ UNCHANGED wheelVars
      BY <1>6, <2>1 DEF NextBucket
    <3>2. PICK b \in Bucket : b = BucketOf(cc_softticks)
      BY BucketIn DEF CalloutInv, TypeOK
    <3>3. PICK q \in Seq(Timer) : q = cc_callwheel[b]
      BY DEF CalloutInv, TypeOK
    <3>4. c' = First(q) /\ Cursor' = c'
      BY <3>1, <3>2, <3>3 DEF Cursor
    <3>5. c' # Null => c' \in Timer /\ Has(q, c')
      BY <3>4, FirstOfBucket, Constants
    <3>6. c' # Null => pending[c'] /\ BucketOf(c_time[c']) = b
      BY <3>3, <3>5 DEF CalloutInv, WheelInv
    <3> QED
      BY <3>1, <3>2, <3>4, <3>6 DEF CursorStaysOnBucket, wheelVars
  <2>2. CASE cc_softticks = ticks
    BY <1>2, <1>6, <2>2 DEF NextBucket, Walking
  <2> QED
    BY <2>1, <2>2
<1>7. CASE NotDue
  <2>1. tpc = "walk" /\ c # Null /\ c' = Successor /\ UNCHANGED <<wheelVars, curticks>>
        /\ (tpc' = "walk" \/ cc_next' = Successor)
    BY <1>7 DEF NotDue
  <2>2. Cursor' = Successor
    BY <2>1 DEF Cursor
  <2>3. Successor # Null =>
          pending[Successor] /\ BucketOf(c_time[Successor]) = BucketOf(curticks)
    BY <2>1, SuccessorOn
  <2> QED
    BY <2>1, <2>2, <2>3 DEF CursorStaysOnBucket, wheelVars
<1>8. CASE Relock \/ Skip
  <2>1. UNCHANGED <<wheelVars, curticks>> /\ Cursor' = Cursor /\ Walking
    BY <1>8 DEF Relock, Skip, ResumeAt, Cursor, Walking
  <2> QED
    BY <1>3, <2>1
<1>9. CASE SwitchNoLock \/ SwitchLock \/ HandlerReturns
  <2>1. UNCHANGED <<wheelVars, curticks>> /\ Cursor' = Cursor /\ Walking
    BY <1>9 DEF SwitchNoLock, SwitchLock, HandlerReturns, Cursor, Walking
  <2> QED
    BY <1>3, <2>1
<1>10. CASE Due
  <2>1. /\ tpc = "walk" /\ c # Null /\ cc_next' = Successor /\ tpc' = "switch"
        /\ UNCHANGED <<c_time, curticks>>
    BY <1>10 DEF Due
  <2>2. Cursor' = Successor
    BY <2>1 DEF Cursor
  <2>3. Successor # Null => /\ Successor \in Timer /\ Successor # c
                            /\ pending[Successor] /\ BucketOf(c_time[Successor]) = BucketOf(curticks)
    BY <2>1, SuccessorOn
  <2>4. Successor # Null => pending'[Successor]
    BY <1>10, <2>3, DueDoes
  <2> QED
    BY <2>1, <2>2, <2>3, <2>4 DEF CursorStaysOnBucket
<1>11. ASSUME cc_lock = Null, Walking PROVE tpc # "walk" /\ Cursor = cc_next
  BY <1>11, Constants DEF CalloutInv, ClockInv, Cursor
<1>12. ASSUME NEW x \in Timer, pending[x], Walking, tpc # "walk", NextWithout(x) # Null
       PROVE  /\ NextWithout(x) \in Timer /\ NextWithout(x) # x /\ pending[NextWithout(x)]
              /\ BucketOf(c_time[NextWithout(x)]) = BucketOf(curticks)
  <2>1. NextWithout(x) \in Timer /\ NextWithout(x) # x /\ Has(Here, NextWithout(x))
    BY <1>12, NextOff
  <2> QED
    BY <2>1, AheadIs DEF CalloutInv, WheelInv, Here
<1>13. ASSUME NEW x \in Timer, Unlinks(x) PROVE CursorStaysOnBucket'
  <2>1. /\ cc_lock = Null /\ pending[x] /\ cc_next' = NextWithout(x)
        /\ UNCHANGED <<c_time, curticks, tpc>>
    BY <1>13 DEF Unlinks
  <2>2. CASE ~Walking
    BY <1>2, <2>1, <2>2 DEF Walking
  <2>3. CASE Walking
    <3>1. Cursor' = NextWithout(x) /\ tpc # "walk"
      BY <1>11, <2>1, <2>3 DEF Cursor
    <3>2. NextWithout(x) # Null => pending'[NextWithout(x)]
      BY <1>12, <1>13, <2>1, <2>3, <3>1, UnlinkDoes
    <3> QED
      BY <1>12, <2>1, <2>3, <3>1, <3>2 DEF CursorStaysOnBucket
  <2> QED
    BY <2>2, <2>3
<1>14. ASSUME NEW a \in Actor, NEW x \in Timer, NEW to \in 1 .. MaxTo, Reset(a, x, to)
       PROVE  CursorStaysOnBucket'
  <2>1. /\ cc_lock = Null /\ cc_next' = (IF pending[x] THEN NextWithout(x) ELSE cc_next)
        /\ UNCHANGED <<curticks, tpc>>
    BY <1>14 DEF Reset, MayCall, clockVars
  <2>2. CASE ~Walking
    BY <1>2, <2>1, <2>2 DEF Walking
  <2>3. CASE Walking
    <3>1. tpc # "walk" /\ Cursor = cc_next /\ Cursor' = cc_next'
      BY <1>11, <2>1, <2>3 DEF Cursor
    <3>2. PICK n : n = cc_next'
      OBVIOUS
    <3>3. n # Null => /\ n \in Timer /\ n # x /\ pending[n]
                      /\ BucketOf(c_time[n]) = BucketOf(curticks)
      <4>1. CASE pending[x]
        BY <1>12, <2>1, <2>3, <3>1, <3>2, <4>1
      <4>2. CASE ~pending[x]
        <5>1. n = Cursor
          BY <2>1, <3>1, <3>2, <4>2
        <5>2. n # Null => n \in Timer
          BY <2>3, <5>1, AheadIs
        <5> QED
          BY <1>1, <2>3, <4>2, <5>1, <5>2 DEF CursorStaysOnBucket
      <4> QED
        BY <4>1, <4>2
    <3>4. n # Null => pending'[n] /\ c_time'[n] = c_time[n]
      BY <1>14, <3>3, ResetDoes
    <3> QED
      BY <2>1, <3>1, <3>2, <3>3, <3>4 DEF CursorStaysOnBucket
  <2> QED
    BY <2>2, <2>3
<1>15. CASE ClientStep
  <2>1. ASSUME NEW t \in Client, ReleaseLock(t) \/ TimeoutCall(t) \/ \E l \in Lock : TakeLock(t, l)
        PROVE  CursorStaysOnBucket'
    BY <1>4, <2>1 DEF ReleaseLock, TimeoutCall, TakeLock, clockVars
  <2>2. ASSUME NEW x \in Timer,
               \/ \E a \in Actor : StopCurrent(a, x)
               \/ \E t \in Client : DrainCurrent(t, x)
        PROVE  CursorStaysOnBucket'
    BY <1>4, <2>2 DEF StopCurrent, DrainCurrent, clockVars
  <2> QED
    BY <1>13, <1>14, <1>15, <2>1, <2>2, ClientDoes
<1>16. CASE UNCHANGED vars
  BY <1>4, <1>16 DEF vars, clockVars
<1> QED
  BY <1>5, <1>6, <1>7, <1>8, <1>9, <1>10, <1>15, <1>16 DEF Next, ClockStep

-----------------------------------------------------------------------------
(* The runs that are owed *)

\* A run of x is past the wheel, and has neither begun nor been cancelled.
AboutToRun(x) == cc_curr = x /\ tpc = "switch" /\ (c_lock[x] = Null \/ ~cc_cancel)

\* What a callout is owed, by cases.
OwedBy(x) ==
    /\ pending[x] /\ AboutToRun(x) => owed[x] = 2
    /\ pending[x] /\ ~AboutToRun(x) => owed[x] = 1
    /\ ~pending[x] /\ AboutToRun(x) => owed[x] = 1
    /\ ~pending[x] /\ ~AboutToRun(x) => owed[x] = 0

\* The sum and the cases say the same.
LEMMA OwedCases == RunsAreOwed <=> \A x \in Timer : OwedBy(x)
<1>1. ASSUME NEW x \in Timer
      PROVE  OwedBy(x) <=>
               owed[x] = (IF pending[x] THEN 1 ELSE 0) + (IF AboutToRun(x) THEN 1 ELSE 0)
  BY DEF OwedBy
<1> QED
  BY <1>1 DEF RunsAreOwed, AboutToRun

\* In the next state too.
LEMMA OwedCasesNext == RunsAreOwed' <=> \A x \in Timer : OwedBy(x)'
<1>1. ASSUME NEW x \in Timer
      PROVE  OwedBy(x)' <=>
               owed'[x] = (IF pending'[x] THEN 1 ELSE 0) + (IF AboutToRun(x)' THEN 1 ELSE 0)
  BY DEF OwedBy
<1> QED
  BY <1>1 DEF RunsAreOwed, AboutToRun

\* In every step.
LEMMA OwedStep == ASSUME CalloutInv, [Next]_vars PROVE RunsAreOwed' /\ owed' \in [Timer -> 0 .. 2]
<1>1. /\ owed \in [Timer -> 0 .. 2] /\ pending \in [Timer -> BOOLEAN]
      /\ \A x \in Timer : OwedBy(x)
  BY OwedCases DEF CalloutInv, TypeOK
<1>2. SUFFICES ASSUME TRUE
               PROVE  /\ owed' \in [Timer -> Int]
                      /\ \A x \in Timer : OwedBy(x)'
  <2>1. ASSUME owed' \in [Timer -> Int], \A x \in Timer : OwedBy(x)'
        PROVE  RunsAreOwed' /\ owed' \in [Timer -> 0 .. 2]
    <3>1. \A x \in Timer : owed'[x] \in {0, 1, 2}
      BY <2>1, Zenon DEF OwedBy
    <3> QED
      BY <2>1, <3>1, OwedCasesNext
  <2> QED
    BY <2>1
<1>3. owed \in [Timer -> Int]
  BY <1>1
<1>4. ASSUME UNCHANGED <<owed, pending>>, \A x \in Timer : AboutToRun(x)' <=> AboutToRun(x)
      PROVE  owed' \in [Timer -> Int] /\ \A x \in Timer : OwedBy(x)'
  BY <1>1, <1>3, <1>4, Zenon DEF OwedBy
<1>5. tpc # "switch" => \A x \in Timer : ~AboutToRun(x)
  BY DEF AboutToRun
<1>6. tpc' # "switch" => \A x \in Timer : ~AboutToRun(x)'
  BY DEF AboutToRun
<1>7. CASE Hardclock \/ CalloutTick \/ SoftclockEnter \/ NextBucket \/ BucketDone \/ NotDue \/ Relock
           \/ HandlerReturns \/ Skip
  <2>1. UNCHANGED <<owed, pending>> /\ tpc # "switch" /\ tpc' # "switch"
    BY <1>7 DEF Hardclock, CalloutTick, SoftclockEnter, NextBucket, BucketDone, NotDue, Relock,
         HandlerReturns, Skip, wheelVars
  <2> QED
    BY <1>4, <1>5, <1>6, <2>1
<1>8. CASE Due
  <2>1. owed' = owed /\ cc_curr' = c /\ cc_cancel' = FALSE /\ tpc' = "switch" /\ tpc # "switch"
    BY <1>8 DEF Due
  <2>2. c \in Timer /\ pending[c] /\ \A y \in Timer : pending'[y] <=> pending[y] /\ y # c
    BY <1>8, DueDoes
  <2>3. \A y \in Timer : AboutToRun(y)' <=> y = c
    BY <2>1 DEF AboutToRun
  <2> QED
    BY <1>1, <1>3, <1>5, <2>1, <2>2, <2>3, Zenon DEF OwedBy
<1>9. ASSUME NEW x \in Timer, x = c, tpc = "switch", cc_curr = c,
             AboutToRun(x), owed' = [owed EXCEPT ![x] = @ - 1], pending' = pending, tpc' = "handler"
      PROVE  owed' \in [Timer -> Int] /\ \A y \in Timer : OwedBy(y)'
  <2>1. owed' \in [Timer -> Int] /\ owed'[x] = owed[x] - 1
        /\ \A y \in Timer : y # x => owed'[y] = owed[y]
    BY <1>3, <1>9
  <2>2. \A y \in Timer : ~AboutToRun(y)' /\ (y # x => ~AboutToRun(y))
    BY <1>9 DEF AboutToRun
  <2>3. pending[x] => owed'[x] = 1
    BY <1>1, <1>9, <2>1 DEF OwedBy
  <2>4. ~pending[x] => owed'[x] = 0
    BY <1>1, <1>9, <2>1 DEF OwedBy
  <2> QED
    BY <1>1, <1>9, <2>1, <2>2, <2>3, <2>4, Zenon DEF OwedBy
<1>10. tpc = "switch" => c \in Timer /\ cc_curr = c
  BY DEF CalloutInv, ClockInv, TypeOK
<1>11. CASE SwitchNoLock
  <2>1. /\ tpc = "switch" /\ c_lock[c] = Null /\ owed' = [owed EXCEPT ![c] = @ - 1]
        /\ pending' = pending /\ tpc' = "handler"
    BY <1>11 DEF SwitchNoLock, wheelVars
  <2> QED
    BY <1>9, <1>10, <2>1 DEF AboutToRun
<1>12. CASE SwitchLock
  <2>1. CASE ~cc_cancel
    <3>1. /\ tpc = "switch" /\ owed' = [owed EXCEPT ![c] = @ - 1]
          /\ pending' = pending /\ tpc' = "handler"
      BY <1>12, <2>1 DEF SwitchLock, NotCancelled, wheelVars
    <3> QED
      BY <1>9, <1>10, <2>1, <3>1 DEF AboutToRun
  <2>2. CASE cc_cancel
    <3>1. tpc = "switch" /\ c_lock[c] # Null /\ UNCHANGED <<owed, pending>> /\ tpc' = "skip"
      BY <1>12, <2>2 DEF SwitchLock, NotCancelled, wheelVars
    <3>2. \A x \in Timer : ~AboutToRun(x)
      BY <1>10, <2>2, <3>1 DEF AboutToRun
    <3> QED
      BY <1>4, <1>6, <3>1, <3>2
  <2> QED
    BY <2>1, <2>2
<1>13. ASSUME NEW x \in Timer, UNCHANGED <<cc_curr, tpc>>, cc_cancel' = CancelIfWaiting(x)
       PROVE  /\ \A y \in Timer : y # x => (AboutToRun(y)' <=> AboutToRun(y))
              /\ c_lock[x] = Null => (AboutToRun(x)' <=> AboutToRun(x))
              /\ c_lock[x] # Null => ~AboutToRun(x)'
  BY <1>13 DEF CancelIfWaiting, AboutToRun
<1>14. ASSUME NEW a \in Actor, NEW x \in Timer, NEW to \in 1 .. MaxTo, Reset(a, x, to)
       PROVE  owed' \in [Timer -> Int] /\ \A y \in Timer : OwedBy(y)'
  <2>1. /\ UNCHANGED <<cc_curr, tpc>> /\ cc_cancel' = CancelIfWaiting(x)
        /\ owed' = [owed EXCEPT ![x] = IF c_lock[x] # Null THEN 1
                                       ELSE IF pending[x] THEN @ ELSE @ + 1]
    BY <1>14 DEF Reset, clockVars
  <2>2. \A y \in Timer : pending'[y] <=> pending[y] \/ y = x
    BY <1>14, ResetDoes
  <2>3. /\ \A y \in Timer : y # x => owed'[y] = owed[y]
        /\ c_lock[x] # Null => owed'[x] = 1
        /\ c_lock[x] = Null /\ pending[x] => owed'[x] = owed[x]
        /\ c_lock[x] = Null /\ ~pending[x] => owed'[x] = owed[x] + 1
    BY <1>3, <2>1
  <2>4. owed' \in [Timer -> Int]
    BY <1>3, <2>1
  <2>5. \A y \in Timer : y # x => OwedBy(y)'
    BY <1>1, <1>13, <2>1, <2>2, <2>3, Zenon DEF OwedBy
  <2>6. OwedBy(x)'
    <3>1. CASE c_lock[x] # Null
      BY <1>13, <2>1, <2>2, <2>3, <3>1, Zenon DEF OwedBy
    <3>2. CASE c_lock[x] = Null /\ pending[x]
      BY <1>1, <1>13, <2>1, <2>2, <2>3, <3>2, Zenon DEF OwedBy
    <3>3. CASE c_lock[x] = Null /\ ~pending[x]
      <4>1. AboutToRun(x) => owed'[x] = 2
        BY <1>1, <2>3, <3>3 DEF OwedBy
      <4>2. ~AboutToRun(x) => owed'[x] = 1
        BY <1>1, <2>3, <3>3 DEF OwedBy
      <4> QED
        BY <1>13, <2>1, <2>2, <3>3, <4>1, <4>2, Zenon DEF OwedBy
    <3> QED
      BY <3>1, <3>2, <3>3
  <2> QED
    BY <2>4, <2>5, <2>6
<1>15. ASSUME NEW x \in Timer, Unlinks(x)
       PROVE  owed' \in [Timer -> Int] /\ \A y \in Timer : OwedBy(y)'
  <2>1. UNCHANGED <<cc_curr, tpc, cc_cancel>> /\ owed' = [owed EXCEPT ![x] = @ - 1] /\ pending[x]
    BY <1>15 DEF Unlinks
  <2>2. \A y \in Timer : pending'[y] <=> pending[y] /\ y # x
    BY <1>15, UnlinkDoes
  <2>3. \A y \in Timer : AboutToRun(y)' <=> AboutToRun(y)
    BY <2>1 DEF AboutToRun
  <2>4. /\ owed' \in [Timer -> Int] /\ owed'[x] = owed[x] - 1
        /\ \A y \in Timer : y # x => owed'[y] = owed[y]
    BY <1>3, <2>1
  <2>5. (AboutToRun(x) => owed'[x] = 1) /\ (~AboutToRun(x) => owed'[x] = 0)
    BY <1>1, <2>1, <2>4 DEF OwedBy
  <2> QED
    BY <1>1, <2>2, <2>3, <2>4, <2>5, Zenon DEF OwedBy
<1>16. ASSUME NEW a \in Actor, NEW x \in Timer, StopCurrent(a, x)
       PROVE  owed' \in [Timer -> Int] /\ \A y \in Timer : OwedBy(y)'
  <2>1. /\ UNCHANGED <<cc_curr, tpc, pending>> /\ cc_cancel' = CancelIfWaiting(x) /\ ~pending[x]
        /\ owed' = [owed EXCEPT ![x] = IF c_lock[x] # Null THEN 0 ELSE @]
    BY <1>16 DEF StopCurrent, clockVars, wheelVars
  <2>2. /\ owed' \in [Timer -> Int] /\ \A y \in Timer : y # x => owed'[y] = owed[y]
        /\ c_lock[x] # Null => owed'[x] = 0
        /\ c_lock[x] = Null => owed'[x] = owed[x]
    BY <1>3, <2>1
  <2> QED
    BY <1>1, <1>13, <2>1, <2>2, Zenon DEF OwedBy
<1>17. ASSUME UNCHANGED <<owed, pending, cc_curr, tpc, cc_cancel>>
       PROVE  owed' \in [Timer -> Int] /\ \A y \in Timer : OwedBy(y)'
  BY <1>4, <1>17 DEF AboutToRun
<1>18. CASE ClientStep
  <2>1. ASSUME NEW t \in Client,
               \/ \E x \in Timer : DrainCurrent(t, x)
               \/ ReleaseLock(t) \/ TimeoutCall(t) \/ \E l \in Lock : TakeLock(t, l)
        PROVE  owed' \in [Timer -> Int] /\ \A y \in Timer : OwedBy(y)'
    BY <1>17, <2>1 DEF DrainCurrent, ReleaseLock, TimeoutCall, TakeLock, clockVars, wheelVars
  <2> QED
    BY <1>14, <1>15, <1>16, <1>18, <2>1, ClientDoes
<1>19. CASE UNCHANGED vars
  BY <1>17, <1>19 DEF vars, clockVars, wheelVars
<1> QED
  BY <1>7, <1>8, <1>11, <1>12, <1>18, <1>19 DEF Next, ClockStep

-----------------------------------------------------------------------------
(* Types *)

\* In every step.
LEMMA TypesStep == ASSUME CalloutInv, [Next]_vars PROVE TypeOK'
<1>1. TypeOK
  BY DEF CalloutInv
<1>2. owed' \in [Timer -> 0 .. 2]
  BY OwedStep
<1>3. /\ Null \notin Timer /\ Null \notin Lock /\ c_lock \in [Timer -> Lock \cup {Null}]
      /\ Actor = Client \cup {Clock} /\ MaxTo \in Nat \ {0} /\ MaxSteps \in Nat \ {0}
  BY Constants
<1>4. CASE Hardclock
  <2>1. TickAfter(ticks, 1) \in Tick
    BY <1>1, <1>3, TicksAhead DEF TypeOK
  <2> QED
    BY <1>1, <1>2, <1>4, <2>1 DEF Hardclock, TypeOK, wheelVars
<1>5. CASE CalloutTick
  <2>1. PICK k \in 0 .. MaxTo + 1 : k = EmptyBucketsToSkip
    BY <1>3, SkipIs
  <2>2. TickAfter(cc_softticks, k) \in Tick
    BY <1>1, <2>1, TicksAhead DEF TypeOK
  <2>3. cc_softticks' \in Tick /\ tpc' \in {"sleep", "softclock"}
    BY <1>5, <2>1, <2>2 DEF CalloutTick
  <2> QED
    BY <1>1, <1>2, <1>5, <2>3 DEF CalloutTick, TypeOK, wheelVars
<1>6. CASE SoftclockEnter
  BY <1>1, <1>2, <1>3, <1>6 DEF SoftclockEnter, TypeOK, wheelVars
<1>7. CASE NextBucket
  <2>1. TickAfter(cc_softticks, 1) \in Tick
    BY <1>1, <1>3, TicksAhead DEF TypeOK
  <2>2. cc_callwheel[BucketOf(cc_softticks)] \in Seq(Timer)
    BY <1>1, BucketIn DEF TypeOK
  <2>3. First(cc_callwheel[BucketOf(cc_softticks)]) \in Timer \cup {Null}
    BY <1>3, <2>2, FirstOfBucket
  <2>4. /\ curticks' \in Tick /\ cc_softticks' \in Tick /\ c' \in Timer \cup {Null}
        /\ tpc' \in {"walk", "sleep"} /\ cc_next' \in Timer \cup {Null}
        /\ cc_lock' \in Actor \cup {Null}
    BY <1>1, <1>7, <2>1, <2>3 DEF NextBucket, TypeOK
  <2> QED
    BY <1>1, <1>2, <1>7, <2>4 DEF NextBucket, TypeOK, wheelVars
<1>8. CASE BucketDone \/ Relock \/ Skip
  BY <1>1, <1>2, <1>3, <1>8 DEF BucketDone, Relock, Skip, ResumeAt, TypeOK, wheelVars
<1>9. CASE NotDue
  <2>1. Successor \in Timer \cup {Null}
    BY <1>9, SuccessorOn DEF NotDue
  <2>2. steps' \in 0 .. MaxSteps
    BY <1>1, <1>3, <1>9 DEF NotDue, TypeOK
  <2>3. /\ c' \in Timer \cup {Null} /\ tpc' \in {"walk", "relock"} /\ cc_next' \in Timer \cup {Null}
        /\ cc_lock' \in Actor \cup {Null}
    BY <1>1, <1>9, <2>1 DEF NotDue, TypeOK
  <2> QED
    BY <1>1, <1>2, <1>9, <2>2, <2>3 DEF NotDue, TypeOK, wheelVars
<1>10. CASE Due
  <2>1. c \in Timer /\ cc_callwheel' \in [Bucket -> Seq(Timer)] /\ pending' \in [Timer -> BOOLEAN]
    BY <1>10, DueDoes
  <2>2. Successor \in Timer \cup {Null}
    BY <1>10, SuccessorOn DEF Due
  <2>3. /\ cc_next' \in Timer \cup {Null} /\ cc_curr' \in Timer \cup {Null} /\ cc_cancel' \in BOOLEAN
        /\ cc_lock' \in Actor \cup {Null} /\ tpc' = "switch"
        /\ UNCHANGED <<ticks, cc_softticks, curticks, c, steps, c_time, owner, pc>>
    BY <1>10, <2>1, <2>2 DEF Due
  <2> QED
    BY <1>1, <1>2, <2>1, <2>3 DEF TypeOK
<1>11. CASE SwitchNoLock
  BY <1>1, <1>2, <1>11 DEF SwitchNoLock, TypeOK, wheelVars
<1>12. CASE SwitchLock
  <2>1. c \in Timer /\ c_lock[c] \in Lock
    BY <1>3, <1>12 DEF CalloutInv, ClockInv, TypeOK, SwitchLock
  <2>2. owner' \in [Lock -> Actor \cup {Null}] /\ cc_cancel' \in BOOLEAN /\ tpc' \in {"handler", "skip"}
    BY <1>1, <1>3, <1>12, <2>1 DEF SwitchLock, TypeOK
  <2> QED
    BY <1>1, <1>2, <1>12, <2>2 DEF SwitchLock, TypeOK, wheelVars
<1>13. CASE HandlerReturns
  <2>1. c \in Timer
    BY <1>13 DEF CalloutInv, ClockInv, TypeOK, HandlerReturns
  <2>2. owner' \in [Lock -> Actor \cup {Null}] /\ tpc' = "skip"
    BY <1>1, <1>3, <1>13, <2>1 DEF HandlerReturns, OwnerAfterHandler, TypeOK
  <2> QED
    BY <1>1, <1>2, <1>13, <2>2 DEF HandlerReturns, TypeOK, wheelVars
<1>14. ASSUME NEW x \in Timer PROVE CancelIfWaiting(x) \in BOOLEAN
  BY <1>1 DEF CancelIfWaiting, TypeOK
<1>15. ASSUME NEW a \in Actor, NEW x \in Timer, NEW to \in 1 .. MaxTo, Reset(a, x, to)
       PROVE  TypeOK'
  <2>1. /\ c_time' \in [Timer -> Tick] /\ cc_callwheel' \in [Bucket -> Seq(Timer)]
        /\ pending' \in [Timer -> BOOLEAN]
    BY <1>15, ResetDoes
  <2>2. cc_next' \in Timer \cup {Null}
    BY <1>1, <1>15, NextOff DEF Reset, TypeOK
  <2>3. cc_cancel' \in BOOLEAN
        /\ UNCHANGED <<ticks, cc_softticks, tpc, curticks, c, steps, cc_lock, cc_curr, owner, pc>>
    BY <1>14, <1>15 DEF Reset, clockVars
  <2> QED
    BY <1>1, <1>2, <2>1, <2>2, <2>3 DEF TypeOK
<1>16. ASSUME NEW x \in Timer, Unlinks(x) PROVE TypeOK'
  <2>1. cc_callwheel' \in [Bucket -> Seq(Timer)] /\ pending' \in [Timer -> BOOLEAN]
    BY <1>16, UnlinkDoes
  <2>2. cc_next' \in Timer \cup {Null}
    BY <1>16, NextOff DEF Unlinks
  <2>3. UNCHANGED <<ticks, cc_softticks, tpc, curticks, c, steps, c_time, cc_lock, cc_curr,
                    cc_cancel, owner, pc>>
    BY <1>16 DEF Unlinks
  <2> QED
    BY <1>1, <1>2, <2>1, <2>2, <2>3 DEF TypeOK
<1>17. ASSUME NEW a \in Actor, NEW x \in Timer, StopCurrent(a, x) PROVE TypeOK'
  BY <1>1, <1>2, <1>14, <1>17 DEF StopCurrent, TypeOK, clockVars, wheelVars
<1>18. ASSUME NEW t \in Client,
              \/ \E x \in Timer : DrainCurrent(t, x)
              \/ ReleaseLock(t) \/ TimeoutCall(t) \/ \E l \in Lock : TakeLock(t, l)
       PROVE  TypeOK'
  <2>1. /\ UNCHANGED <<clockVars, wheelVars, cc_curr, cc_cancel, cc_next>>
        /\ cc_lock' \in {cc_lock, t}
        /\ \/ UNCHANGED owner \/ \E l \in Lock, v \in {t, Null} : owner' = [owner EXCEPT ![l] = v]
        /\ \/ UNCHANGED pc \/ \E s \in {"drain", "timeout"} : pc' = [pc EXCEPT ![t] = s]
    BY <1>18 DEF DrainCurrent, ReleaseLock, TimeoutCall, TakeLock
  <2>2. cc_lock' \in Actor \cup {Null} /\ owner' \in [Lock -> Actor \cup {Null}]
        /\ pc' \in [Client -> {"idle", "drain", "timeout"}]
    BY <1>1, <1>3, <2>1 DEF TypeOK
  <2> QED
    BY <1>1, <1>2, <2>1, <2>2 DEF TypeOK, clockVars, wheelVars
<1>19. CASE ClientStep
  BY <1>15, <1>16, <1>17, <1>18, <1>19, ClientDoes
<1>20. CASE UNCHANGED vars
  BY <1>1, <1>20 DEF vars, clockVars, wheelVars, TypeOK
<1> QED
  BY <1>4, <1>5, <1>6, <1>7, <1>8, <1>9, <1>10, <1>11, <1>12, <1>13, <1>19, <1>20
     DEF Next, ClockStep

-----------------------------------------------------------------------------
(* Nothing is passed over *)

\* The set that Ahead is, in terms of order.
LEMMA BehindIs ==
    ASSUME NEW S, NEW q \in Seq(S), NEW y, NEW x, Precedes(q, y, x)
    PROVE  x \in {q[k] : k \in {j \in 1 .. Len(q) : \E i \in 1 .. j : q[i] = y}}
<1>1. PICK i \in 1 .. Len(q), j \in 1 .. Len(q) : i <= j /\ q[i] = y /\ q[j] = x
  BY DEF Precedes
<1>2. i \in 1 .. j
  BY <1>1, LenProperties
<1> QED
  BY <1>1, <1>2

\* A callout that the walk will still come to, in the next state.
LEMMA StaysAhead ==
    ASSUME TypeOK', NEW x \in Timer, Walking', c_time'[x] = curticks',
           Precedes(cc_callwheel'[BucketOf(curticks')], Cursor', x)
    PROVE  Walking' /\ c_time'[x] = curticks' /\ (x \in Ahead)'
<1>1. BucketOf(curticks') \in Bucket
  BY BucketIn DEF TypeOK
<1>2. PICK q \in Seq(Timer) : q = cc_callwheel'[BucketOf(curticks')]
  BY <1>1 DEF TypeOK
<1>3. PICK y : y = Cursor'
  OBVIOUS
<1>4. x \in {q[k] : k \in {j \in 1 .. Len(q) : \E i \in 1 .. j : q[i] = y}}
  BY <1>2, <1>3, BehindIs
<1>5. (x \in Ahead)' <=> x \in {q[k] : k \in {j \in 1 .. Len(q) : \E i \in 1 .. j : q[i] = y}}
  BY <1>2, <1>3 DEF Ahead
<1> QED
  BY <1>4, <1>5

\* Seen, but not due: the walk has passed x only if its time is another.
LEMMA Seen ==
    ASSUME CalloutInv, NEW x \in Timer, pending[x]
    PROVE  InWindow(x) \/ (Walking /\ c_time[x] = curticks /\ Precedes(Here, Cursor, x))
BY AheadIs DEF CalloutInv, WindowInv

\* In every step, for one callout.
LEMMA WindowStepOne ==
    ASSUME CalloutInv, [Next]_vars, TypeOK', NEW x \in Timer, pending'[x]
    PROVE  InWindow(x)' \/ (Walking' /\ c_time'[x] = curticks' /\ (x \in Ahead)')
<1>1. /\ cc_softticks \in Tick /\ MaxTo \in Nat \ {0} /\ 0 \in 0 .. MaxTo + 1 /\ 1 \in 0 .. MaxTo + 1
      /\ Null \notin Timer
  BY Constants DEF CalloutInv, TypeOK
<1>2. ASSUME UNCHANGED <<cc_softticks, curticks>>, c_time'[x] = c_time[x], pending[x], Walking => Walking',
             Walking /\ c_time[x] = curticks /\ Precedes(Here, Cursor, x) =>
               Precedes(cc_callwheel'[BucketOf(curticks)], Cursor', x)
      PROVE  InWindow(x)' \/ (Walking' /\ c_time'[x] = curticks' /\ (x \in Ahead)')
  <2>1. CASE InWindow(x)
    BY <1>2, <2>1 DEF InWindow
  <2>2. CASE Walking /\ c_time[x] = curticks /\ Precedes(Here, Cursor, x)
    BY <1>2, <2>2, StaysAhead
  <2> QED
    BY <1>2, <2>1, <2>2, Seen
<1>3. ASSUME UNCHANGED <<cc_softticks, curticks, wheelVars>>, ~Walking
      PROVE  InWindow(x)'
  BY <1>3, Seen DEF InWindow, wheelVars
<1>4. ASSUME UNCHANGED <<cc_softticks, curticks, wheelVars>>, Walking', Cursor' = Cursor
      PROVE  InWindow(x)' \/ (Walking' /\ c_time'[x] = curticks' /\ (x \in Ahead)')
  BY <1>2, <1>4 DEF wheelVars, Here
<1>5. ASSUME pending[x], cc_softticks' = TickAfter(cc_softticks, 1), c_time' = c_time,
             InWindow(x), c_time[x] # cc_softticks
      PROVE  InWindow(x)'
  <2>1. PICK d \in 0 .. MaxTo + 1 : c_time[x] = TickAfter(cc_softticks, d)
    BY <1>5 DEF InWindow
  <2>2. d # 0
    BY <1>1, <1>5, <2>1, TicksAhead
  <2>3. d - 1 \in 0 .. MaxTo + 1 /\ TickAfter(TickAfter(cc_softticks, 1), d - 1) = c_time[x]
    BY <1>1, <2>1, <2>2, TicksAhead
  <2>4. \E e \in 0 .. MaxTo + 1 : c_time'[x] = TickAfter(cc_softticks', e)
    BY <1>5, <2>3
  <2> QED
    BY <2>4 DEF InWindow
<1>6. CASE Hardclock \/ SoftclockEnter
  <2>1. UNCHANGED <<cc_softticks, curticks, wheelVars>> /\ ~Walking
    BY <1>6 DEF Hardclock, SoftclockEnter, Walking
  <2> QED
    BY <1>3, <2>1
<1>7. CASE CalloutTick
  <2>1. /\ cc_softticks' = TickAfter(cc_softticks, EmptyBucketsToSkip) /\ UNCHANGED <<curticks, wheelVars>>
        /\ ~Walking
    BY <1>7 DEF CalloutTick, Walking
  <2>2. CASE EmptyBucketsToSkip = 0
    <3>1. cc_softticks' = cc_softticks
      BY <1>1, <2>1, <2>2, TicksAhead
    <3> QED
      BY <1>3, <2>1, <3>1
  <2>3. CASE EmptyBucketsToSkip = 1
    <3>1. pending[x] /\ c_time' = c_time /\ InWindow(x)
      BY <2>1, Seen DEF wheelVars
    <3>2. ASSUME c_time[x] = cc_softticks PROVE FALSE
      <4>1. BucketOf(cc_softticks) \in Bucket
        BY <1>1, BucketIn
      <4>2. Has(cc_callwheel[BucketOf(cc_softticks)], x)
        BY <3>1, <3>2, <4>1 DEF CalloutInv, WheelInv
      <4>3. cc_callwheel[BucketOf(cc_softticks)] = <<>>
        BY <2>3, SkipIs
      <4> QED
        BY <4>2, <4>3, EmptyList
    <3> QED
      BY <1>5, <2>1, <2>3, <3>1, <3>2
  <2> QED
    BY <2>2, <2>3, SkipIs
<1>8. CASE NextBucket
  <2>1. tpc = "bucket" /\ ~Walking /\ UNCHANGED wheelVars
    BY <1>8 DEF NextBucket, Walking
  <2>2. pending[x] /\ c_time' = c_time /\ InWindow(x)
    BY <2>1, Seen DEF wheelVars
  <2>3. CASE cc_softticks # ticks
    <3>1. /\ curticks' = cc_softticks /\ cc_softticks' = TickAfter(cc_softticks, 1)
          /\ c' = First(cc_callwheel[BucketOf(cc_softticks)]) /\ tpc' = "walk"
      BY <1>8, <2>3 DEF NextBucket
    <3>2. CASE c_time[x] # cc_softticks
      BY <1>5, <2>2, <3>1, <3>2
    <3>3. CASE c_time[x] = cc_softticks
      <4>1. PICK b \in Bucket : b = BucketOf(cc_softticks)
        BY <1>1, BucketIn
      <4>2. PICK q \in Seq(Timer) : q = cc_callwheel[b]
        BY DEF CalloutInv, TypeOK
      <4>3. Has(q, x)
        BY <2>2, <3>3, <4>1, <4>2 DEF CalloutInv, WheelInv
      <4>4. Precedes(q, First(q), x)
        BY <1>1, <4>3, FirstOfBucket
      <4>5. Cursor' = First(q) /\ Walking' /\ c_time'[x] = curticks'
            /\ cc_callwheel'[BucketOf(curticks')] = q
        BY <2>1, <2>2, <3>1, <3>3, <4>1, <4>2 DEF Cursor, Walking, wheelVars
      <4> QED
        BY <4>4, <4>5, StaysAhead
    <3> QED
      BY <3>2, <3>3
  <2>4. CASE cc_softticks = ticks
    BY <1>3, <1>8, <2>1, <2>4 DEF NextBucket
  <2> QED
    BY <2>3, <2>4
<1>9. ASSUME NEW y, Precedes(Here, Null, y) PROVE FALSE
  <2>1. PICK i \in 1 .. Len(Here) : Here[i] = Null
    BY <1>9 DEF Precedes
  <2> QED
    BY <1>1, <2>1, AheadIs, ElementOfSeq
<1>10. CASE BucketDone
  <2>1. c = Null /\ Cursor = Null /\ UNCHANGED <<cc_softticks, curticks, wheelVars>>
    BY <1>10 DEF BucketDone, Cursor
  <2>2. pending[x] /\ InWindow(x)
    BY <1>9, <2>1, Seen DEF wheelVars
  <2> QED
    BY <2>1, <2>2 DEF InWindow, wheelVars
<1>11. CASE NotDue
  <2>1. /\ tpc = "walk" /\ c # Null /\ c_time[c] # curticks /\ c' = Successor /\ tpc' \in {"walk", "relock"}
        /\ (tpc' = "walk" \/ cc_next' = Successor)
        /\ UNCHANGED <<cc_softticks, curticks, wheelVars>>
    BY <1>11 DEF NotDue
  <2>2. Cursor = c /\ Cursor' = Successor /\ Walking'
    BY <2>1 DEF Cursor, Walking
  <2>3. c_time[x] = curticks /\ Precedes(Here, c, x) => Precedes(Here, Successor, x)
    BY <2>1, SuccessorOn
  <2> QED
    BY <1>2, <2>1, <2>2, <2>3 DEF wheelVars, Here
<1>12. CASE Relock \/ Skip \/ SwitchNoLock \/ SwitchLock \/ HandlerReturns
  <2>1. UNCHANGED <<cc_softticks, curticks, wheelVars>>
    BY <1>12 DEF Relock, Skip, SwitchNoLock, SwitchLock, HandlerReturns
  <2>2. CASE Relock \/ Skip
    <3>1. Cursor' = Cursor /\ Walking'
      BY <2>2 DEF Relock, Skip, ResumeAt, Cursor, Walking
    <3> QED
      BY <1>4, <2>1, <3>1
  <2>3. CASE SwitchNoLock \/ SwitchLock \/ HandlerReturns
    <3>1. Cursor' = Cursor /\ Walking'
      BY <2>3 DEF SwitchNoLock, SwitchLock, HandlerReturns, Cursor, Walking
    <3> QED
      BY <1>4, <2>1, <3>1
  <2> QED
    BY <1>12, <2>2, <2>3
<1>13. CASE Due
  <2>1. /\ tpc = "walk" /\ c # Null /\ cc_next' = Successor /\ tpc' = "switch"
        /\ UNCHANGED <<cc_softticks, curticks, c_time>>
    BY <1>13 DEF Due
  <2>2. Cursor = c /\ Cursor' = Successor /\ Walking'
    BY <2>1 DEF Cursor, Walking
  <2>3. pending[x] /\ x # c
    BY <1>13, DueDoes
  <2>4. ASSUME Precedes(Here, c, x) PROVE Precedes(cc_callwheel'[BucketOf(curticks)], Successor, x)
    <3>1. Successor \in Timer /\ Successor # c /\ Precedes(Here, Successor, x)
      BY <2>1, <2>3, <2>4, SuccessorOn
    <3>2. BucketOf(curticks) \in Bucket
      BY AheadIs
    <3> QED
      BY <1>13, <2>3, <3>1, <3>2, DueDoes DEF Here
  <2> QED
    BY <1>2, <2>1, <2>2, <2>3, <2>4
<1>14. ASSUME cc_lock = Null, Walking PROVE tpc # "walk" /\ Cursor = cc_next
  BY <1>14, Constants DEF CalloutInv, ClockInv, Cursor
<1>15. ASSUME NEW y \in Timer, Unlinks(y)
       PROVE  InWindow(x)' \/ (Walking' /\ c_time'[x] = curticks' /\ (x \in Ahead)')
  <2>1. /\ cc_lock = Null /\ pending[y] /\ cc_next' = NextWithout(y)
        /\ UNCHANGED <<cc_softticks, curticks, c_time, tpc>>
    BY <1>15 DEF Unlinks
  <2>2. pending[x] /\ x # y
    BY <1>15, UnlinkDoes
  <2>3. Walking => Walking' /\ tpc # "walk" /\ Cursor = cc_next /\ Cursor' = NextWithout(y)
    BY <1>14, <2>1 DEF Walking, Cursor
  <2>4. ASSUME Walking, Precedes(Here, cc_next, x)
        PROVE  Precedes(cc_callwheel'[BucketOf(curticks)], NextWithout(y), x)
    <3>1. NextWithout(y) \in Timer /\ NextWithout(y) # y /\ Precedes(Here, NextWithout(y), x)
      BY <2>1, <2>2, <2>3, <2>4, NextOff
    <3>2. BucketOf(curticks) \in Bucket
      BY AheadIs
    <3> QED
      BY <1>15, <2>2, <3>1, <3>2, UnlinkDoes DEF Here
  <2> QED
    BY <1>2, <2>1, <2>2, <2>3, <2>4
<1>16. ASSUME NEW a \in Actor, NEW y \in Timer, NEW to \in 1 .. MaxTo, Reset(a, y, to)
       PROVE  InWindow(x)' \/ (Walking' /\ c_time'[x] = curticks' /\ (x \in Ahead)')
  <2>1. /\ cc_lock = Null /\ cc_next' = (IF pending[y] THEN NextWithout(y) ELSE cc_next)
        /\ UNCHANGED <<ticks, cc_softticks, curticks, tpc>>
    BY <1>16 DEF Reset, MayCall, clockVars
  <2>2. CASE x = y
    <3>1. c_time'[x] = TickAfter(ticks, to)
      BY <1>16, <2>2, ResetDoes DEF Deadline
    <3>2. ticks = cc_softticks \/ ticks = TickAfter(cc_softticks, 1)
      BY <1>1, TicksAhead DEF CalloutInv, LagInv, Lag
    <3>3. PICK d \in 0 .. MaxTo + 1 : d = to + 1 /\ d # 0 /\ d - 1 = to
      BY <1>1
    <3>4. to \in 0 .. MaxTo + 1
      BY <1>1
    <3>5. TickAfter(TickAfter(cc_softticks, 1), to) = TickAfter(cc_softticks, d)
      BY <1>1, <3>3, TicksAhead
    <3>6. \E e \in 0 .. MaxTo + 1 : c_time'[x] = TickAfter(cc_softticks', e)
      BY <2>1, <3>1, <3>2, <3>3, <3>4, <3>5
    <3> QED
      BY <3>6 DEF InWindow
  <2>3. CASE x # y
    <3>1. pending[x] /\ c_time'[x] = c_time[x]
      BY <1>16, <2>3, ResetDoes
    <3>2. Walking => Walking' /\ tpc # "walk" /\ Cursor = cc_next /\ Cursor' = cc_next'
      BY <1>14, <2>1 DEF Walking, Cursor
    <3>3. ASSUME Walking, Precedes(Here, cc_next, x)
          PROVE  Precedes(cc_callwheel'[BucketOf(curticks)], cc_next', x)
      <4>1. PICK n : n = cc_next'
        OBVIOUS
      <4>2. n \in Timer /\ n # y /\ Precedes(Here, n, x)
        <5>1. CASE pending[y]
          BY <2>1, <2>3, <3>2, <3>3, <4>1, <5>1, NextOff
        <5>2. CASE ~pending[y]
          <6>1. n = cc_next /\ n = Cursor /\ n # Null
            BY <1>9, <2>1, <3>2, <3>3, <4>1, <5>2
          <6>2. n \in Timer /\ pending[n]
            BY <3>3, <6>1, AheadIs DEF CalloutInv, CursorStaysOnBucket
          <6> QED
            BY <3>3, <5>2, <6>1, <6>2
        <5> QED
          BY <5>1, <5>2
      <4>3. BucketOf(curticks) \in Bucket
        BY AheadIs
      <4> QED
        BY <1>16, <2>3, <4>1, <4>2, <4>3, ResetDoes DEF Here
    <3> QED
      BY <1>2, <2>1, <3>1, <3>2, <3>3
  <2> QED
    BY <2>2, <2>3
<1>17. ASSUME UNCHANGED <<cc_softticks, curticks, wheelVars, tpc, c, cc_next>>
       PROVE  InWindow(x)' \/ (Walking' /\ c_time'[x] = curticks' /\ (x \in Ahead)')
  BY <1>2, <1>17 DEF wheelVars, Walking, Cursor, Here
<1>18. CASE ClientStep
  <2>1. ASSUME NEW t \in Client, ReleaseLock(t) \/ TimeoutCall(t) \/ \E l \in Lock : TakeLock(t, l)
        PROVE  UNCHANGED <<cc_softticks, curticks, wheelVars, tpc, c, cc_next>>
    BY <2>1 DEF ReleaseLock, TimeoutCall, TakeLock, clockVars
  <2>2. ASSUME NEW y \in Timer,
               \/ \E a \in Actor : StopCurrent(a, y)
               \/ \E t \in Client : DrainCurrent(t, y)
        PROVE  UNCHANGED <<cc_softticks, curticks, wheelVars, tpc, c, cc_next>>
    BY <2>2 DEF StopCurrent, DrainCurrent, clockVars
  <2> QED
    BY <1>15, <1>16, <1>17, <1>18, <2>1, <2>2, ClientDoes
<1>19. CASE UNCHANGED vars
  BY <1>17, <1>19 DEF vars, clockVars
<1> QED
  BY <1>6, <1>7, <1>8, <1>10, <1>11, <1>12, <1>13, <1>18, <1>19 DEF Next, ClockStep

\* And so for all.
LEMMA WindowStep == ASSUME CalloutInv, [Next]_vars, TypeOK' PROVE WindowInv'
BY WindowStepOne DEF WindowInv

-----------------------------------------------------------------------------
(* The invariant and what follows from it *)

\* Before the first tick.
LEMMA CalloutInvInit == Init => CalloutInv
<1> SUFFICES ASSUME Init PROVE CalloutInv
  OBVIOUS
<1>1. /\ cc_callwheel = [b \in Bucket |-> <<>>] /\ pending = [x \in Timer |-> FALSE]
      /\ c_time = [x \in Timer |-> 0] /\ owed = [x \in Timer |-> 0]
      /\ owner = [l \in Lock |-> Null] /\ pc = [t \in Client |-> "idle"]
      /\ ticks = 0 /\ cc_softticks = 0 /\ curticks = 0 /\ steps = 0 /\ cc_lock = Null
      /\ cc_curr = Null /\ cc_cancel = FALSE /\ cc_next = Null /\ c = Null /\ tpc = "sleep"
  BY DEF Init
<1>2. 0 \in Tick /\ 0 \in 0 .. MaxSteps /\ Clock # Null /\ MaxTo \in Nat
  BY Constants
<1>3. TypeOK
  <2>1. cc_callwheel \in [Bucket -> Seq(Timer)]
    BY <1>1, EmptyList
  <2>2. c_time \in [Timer -> Tick] /\ owed \in [Timer -> 0 .. 2]
    BY <1>1, <1>2
  <2>3. pending \in [Timer -> BOOLEAN] /\ cc_cancel \in BOOLEAN
    BY <1>1, Zenon
  <2>4. owner \in [Lock -> Actor \cup {Null}] /\ pc \in [Client -> {"idle", "drain", "timeout"}]
    BY <1>1
  <2> QED
    BY <1>1, <1>2, <2>1, <2>2, <2>3, <2>4 DEF TypeOK
<1>4. ClockInv
  BY <1>1, <1>2 DEF ClockInv
<1>5. WheelInv
  BY <1>1, EmptyList DEF WheelInv
<1>6. CursorStaysOnBucket
  BY <1>1 DEF CursorStaysOnBucket, Walking
<1>7. LagInv
  <2>1. TickAfter(0, 0) = 0
    BY <1>2, TicksAhead
  <2> QED
    BY <1>1, <2>1 DEF LagInv, Lag
<1>8. WindowInv
  BY <1>1 DEF WindowInv
<1>9. RunsAreOwed
  <2>1. \A x \in Timer : ~pending[x] /\ ~AboutToRun(x) /\ owed[x] = 0
    BY <1>1 DEF AboutToRun
  <2> QED
    BY <2>1, OwedCases DEF OwedBy
<1> QED
  BY <1>3, <1>4, <1>5, <1>6, <1>7, <1>8, <1>9 DEF CalloutInv

\* And ever after.
LEMMA CalloutInvariant == Spec => []CalloutInv
<1>1. CalloutInv /\ [Next]_vars => CalloutInv'
  <2> SUFFICES ASSUME CalloutInv, [Next]_vars PROVE CalloutInv'
    OBVIOUS
  <2>1. TypeOK' /\ ClockInv' /\ WheelInv' /\ LagInv'
    BY TypesStep, ClockInvStep, WheelInvStep, LagInvStep
  <2>2. CursorStaysOnBucket' /\ RunsAreOwed'
    BY CursorStep, OwedStep
  <2>3. WindowInv'
    BY <2>1, WindowStep
  <2> QED
    BY <2>1, <2>2, <2>3 DEF CalloutInv
<1> QED
  BY <1>1, CalloutInvInit, PTL DEF Spec

\* CALLOUT_PENDING tells exactly whether a callout is linked into the wheel, in
\* the bucket of its time, so that no TAILQ_REMOVE meets a callout that is in no
\* list or in another.
THEOREM CalloutWheelHoldsPending == Spec => []WheelHoldsPending
<1>1. CalloutInv => WheelHoldsPending
  BY DEF CalloutInv, WheelInv, WheelHoldsPending
<1> QED
  BY <1>1, CalloutInvariant, PTL

\* softclock resumes the walk of a bucket at a callout that is still in it,
\* whatever was reset, stopped or drained while it had dropped cc_lock.
THEOREM CalloutCursorStaysOnBucket == Spec => []CursorStaysOnBucket
<1>1. CalloutInv => CursorStaysOnBucket
  BY DEF CalloutInv
<1> QED
  BY <1>1, CalloutInvariant, PTL

\* The wheel does not move past a callout that is scheduled, neither when
\* callout_tick steps over buckets nor when softclock walks one with the lock
\* dropped in between, and whether or not ticks wraps around.
THEOREM CalloutNonePassedOver == Spec => []NoCalloutPassedOver
<1>1. CalloutInv => NoCalloutPassedOver
  <2> SUFFICES ASSUME CalloutInv, NEW x \in Timer, pending[x]
               PROVE  \/ Diff(c_time[x], cc_softticks) >= 0
                      \/ Walking /\ c_time[x] = curticks /\ x \in Ahead
    BY DEF NoCalloutPassedOver
  <2>1. CASE InWindow(x)
    <3>1. PICK d \in 0 .. MaxTo + 1 : c_time[x] = TickAfter(cc_softticks, d)
      BY <2>1 DEF InWindow
    <3>2. Diff(c_time[x], cc_softticks) = d /\ MaxTo \in Nat
      BY <3>1, TicksAhead, Constants DEF CalloutInv, TypeOK
    <3> QED
      BY <3>2
  <2> QED
    BY <2>1 DEF CalloutInv, WindowInv
<1> QED
  BY <1>1, CalloutInvariant, PTL

\* A callout runs exactly for the schedules that no caller was told are
\* cancelled: one stopped or moved with its lock held does not run, even if
\* softclock was waiting for that lock, and none runs twice.
THEOREM CalloutRunsAreOwed == Spec => []RunsAreOwed
<1>1. CalloutInv => RunsAreOwed
  BY DEF CalloutInv
<1> QED
  BY <1>1, CalloutInvariant, PTL
==============================================================================

-------------------------- MODULE RxBuffersProofs ---------------------------
(***************************************************************************)
(* What is proved of RxBuffers for any number of contexts, buffers and     *)
(* threads: no buffer and no context is given away while somebody refers   *)
(* to it, no context is lost or handed out twice, and a NIC buffer is lost *)
(* only in the two ways that LostOnlyByRace names.                         *)
(***************************************************************************)
EXTENDS RxBuffers, FiniteSetTheorems, SequenceTheorems, TLAPS

----------------------------------------------------------------------------
(* The inductive invariant *)

\* The threads about to decrement the count of a buffer, and those about to
\* release it.
Decs(b) == {t \in Threads : fpc[t] = "dec" /\ freeing[t].base = b}
Descs(b) == {t \in Threads : fpc[t] = "desc" /\ freeing[t].base = b}

\* The batch: buffers of a burst are different, and each has been lent to the
\* context at the same place of the list.
BatchOK ==
  /\ rxpc # "deliver" => descs = <<>>
  /\ \A i, j \in 1 .. Len(descs) : descs[i] = descs[j] => i = j
  /\ \A i \in 1 .. Len(descs) : arg2[descs[i]] = rx_pds[i]

\* A thread on its way through mb_free_ext has the arguments of its buffer.
FreeingOK == \A t \in Threads : fpc[t] \in {"dec", "desc"} =>
  /\ freeing[t].base \in Buf
  /\ freeing[t].ctx = arg2[freeing[t].base]

\* The count of a buffer is that of its mbufs and of the threads that have
\* still to decrement it; it is 1 before the buffer's packet is delivered.  At
\* most one thread releases a buffer, when nobody else refers to it.
CountOK(b) ==
  /\ mbufs[b] > 0 \/ Decs(b) # {} =>
       /\ ~InBatch(b) /\ Descs(b) = {}
       /\ refcnt[b] = mbufs[b] + Cardinality(Decs(b))
  /\ InBatch(b) => refcnt[b] = 1 /\ Descs(b) = {}
  /\ Descs(b) # {} => refcnt[b] \in {0, 1}
  /\ \A t, u \in Descs(b) : t = u

\* A context that a thread is about to give back belongs to that thread.
GivenBackOK ==
  /\ \A t \in Threads : fpc[t] = "ctx" =>
       /\ freeing[t].ctx \in Ctx \ (zone \cup Listed)
       /\ \A b \in Buf : InUse(b) => arg2[b] # freeing[t].ctx
  /\ \A t, u \in Threads :
       fpc[t] = "ctx" /\ fpc[u] = "ctx" /\ freeing[t].ctx = freeing[u].ctx => t = u

\* The inductive invariant.
RxInv ==
  /\ TypeOK /\ BatchOK /\ FreeingOK
  /\ \A b \in Buf : CountOK(b)
  /\ NoUseAfterFree /\ GivenBackOK /\ ContextsKept /\ LostOnlyByRace

----------------------------------------------------------------------------
(* Facts about the operators *)

\* What a 16-bit count holds.
LEMMA CountLimit == UINT16_MAX \in Nat /\ UINT16_MAX >= 1
BY DEF UINT16_MAX

\* A member of ListsOf is a sequence of different elements.
LEMMA ListFacts ==
  ASSUME NEW S, NEW n \in Nat, NEW s \in ListsOf(S, n)
  PROVE  /\ s \in Seq(S) /\ Len(s) \in 0 .. n
         /\ \A i, j \in 1 .. Len(s) : s[i] = s[j] => i = j
         /\ SeqRange(s) = {s[i] : i \in 1 .. Len(s)}
         /\ SeqRange(s) \subseteq S
<1>1. PICK m \in 0 .. n : /\ s \in [1..m -> S]
                          /\ \A i, j \in 1..m : s[i] = s[j] => i = j
  BY DEF ListsOf
<1>2. s \in Seq(S)
  BY <1>1, SeqDef
<1>3. DOMAIN s = 1 .. Len(s) /\ DOMAIN s = 1 .. m /\ Len(s) \in Nat
  BY <1>1, <1>2, LenProperties
<1>4. Len(s) = m
  BY <1>1, <1>3
<1> QED
  BY <1>1, <1>2, <1>3, <1>4 DEF SeqRange

\* The buffers lent in a batch are the first ones of the burst.
LEMMA FittingFacts ==
  ASSUME NEW S, NEW burst \in Seq(S), rx_pds \in Seq(Ctx)
  PROVE  /\ Fitting(burst) \in Seq(S)
         /\ Len(Fitting(burst)) \in 0 .. Len(rx_pds)
         /\ Len(Fitting(burst)) <= Len(burst)
         /\ \A k \in 1 .. Len(Fitting(burst)) : Fitting(burst)[k] = burst[k]
<1> DEFINE n == IF Len(burst) < Len(rx_pds) THEN Len(burst) ELSE Len(rx_pds)
<1>1. Len(burst) \in Nat /\ Len(rx_pds) \in Nat
  BY LenProperties
<1>2. n \in Int /\ n \in 0 .. Len(rx_pds) /\ n <= Len(burst)
  BY <1>1
<1>3. \A k \in 1 .. n : burst[k] \in S
  BY <1>1, <1>2, ElementOfSeq
<1>4. Fitting(burst) = SubSeq(burst, 1, n)
  BY DEF Fitting
<1> HIDE DEF n
<1>5. /\ SubSeq(burst, 1, n) \in Seq(S)
      /\ Len(SubSeq(burst, 1, n)) = IF 1 <= n THEN n-1+1 ELSE 0
      /\ \A k \in 1 .. n-1+1 : SubSeq(burst, 1, n)[k] = burst[1+k-1]
  BY <1>2, <1>3, SubSeqProperties
<1>6. Len(SubSeq(burst, 1, n)) = n
  BY <1>5, <1>2
<1> QED
  BY <1>1, <1>2, <1>4, <1>5, <1>6

\* Sets of threads are finite.
LEMMA DecsFinite ==
  \A b \in Buf : IsFiniteSet(Decs(b)) /\ Cardinality(Decs(b)) \in Nat
                 /\ Cardinality(Decs(b)) <= Cardinality(Threads)
BY FS_Subset, FS_CardinalityType, RxBuffersAssumption DEF Decs

\* A place of the batch and its buffer have their types.
LEMMA BatchTypes ==
  ASSUME TypeOK
  PROVE  /\ Len(descs) \in Nat /\ Len(rx_pds) \in Nat
         /\ delivered \in Nat
         /\ DOMAIN rx_pds = 1 .. Len(rx_pds)
         /\ \A k \in 1 .. Len(descs) : descs[k] \in Buf
         /\ \A k \in 1 .. Len(rx_pds) : rx_pds[k] \in Ctx
BY LenProperties, ElementOfSeq DEF TypeOK

----------------------------------------------------------------------------
(* What a step leaves alone *)

\* A step that leaves the batch alone.
BatchSame == UNCHANGED rxvars

\* Then the buffers in the batch and the contexts on the list are the same.
LEMMA BatchFrame ==
  ASSUME BatchSame
  PROVE  /\ \A b : InBatch(b)' <=> InBatch(b)
         /\ Listed' = Listed
BY DEF BatchSame, rxvars, InBatch, Listed

\* The count of a buffer that the step does not touch stays right.
LEMMA CountFrame ==
  ASSUME NEW b \in Buf, CountOK(b),
         mbufs'[b] = mbufs[b], refcnt'[b] = refcnt[b],
         Decs(b)' = Decs(b), Descs(b)' = Descs(b), InBatch(b)' <=> InBatch(b)
  PROVE  CountOK(b)'
BY DEF CountOK

\* Which threads are on their way to a buffer after one thread has moved.
LEMMA ThreadMoves ==
  ASSUME NEW t \in Threads,
         \A u \in Threads \ {t} : fpc'[u] = fpc[u] /\ freeing'[u] = freeing[u]
  PROVE  \A b :
           /\ Decs(b)' = IF fpc'[t] = "dec" /\ freeing'[t].base = b
                           THEN Decs(b) \cup {t} ELSE Decs(b) \ {t}
           /\ Descs(b)' = IF fpc'[t] = "desc" /\ freeing'[t].base = b
                            THEN Descs(b) \cup {t} ELSE Descs(b) \ {t}
BY DEF Decs, Descs

\* In use, by the sets of threads.
LEMMA InUseMeans ==
  \A b : InUse(b) <=> InBatch(b) \/ mbufs[b] > 0 \/ Decs(b) # {} \/ Descs(b) # {}
BY DEF InUse, Decs, Descs

\* If the same buffers are in use after the step, with the same contexts, and
\* the same threads are about to give the same contexts back, everything about
\* contexts stays true.
LEMMA ContextFrame ==
  ASSUME RxInv, \A b \in Buf : InUse(b)' <=> InUse(b),
         zone' = zone, Listed' = Listed, nic' = nic, arg2' = arg2,
         \A i, j \in DOMAIN rx_pds' : rx_pds'[i] = rx_pds'[j] => i = j,
         \A t \in Threads : fpc'[t] = "ctx" <=> fpc[t] = "ctx",
         \A t \in Threads : fpc[t] = "ctx" => freeing'[t] = freeing[t]
  PROVE  NoUseAfterFree' /\ GivenBackOK' /\ ContextsKept'
<1>1. NoUseAfterFree'
  BY DEF RxInv, NoUseAfterFree
<1>2. GivenBackOK'
  BY DEF RxInv, GivenBackOK
<1>3. {arg2[b] : b \in {x \in Buf : InUse(x)}}' = {arg2[b] : b \in {x \in Buf : InUse(x)}}
  OBVIOUS
<1>4. {freeing[t].ctx : t \in {u \in Threads : fpc[u] = "ctx"}}'
        = {freeing[t].ctx : t \in {u \in Threads : fpc[u] = "ctx"}}
  OBVIOUS
<1>5. ContextsKept'
  BY <1>3, <1>4 DEF RxInv, ContextsKept
<1> QED
  BY <1>1, <1>2, <1>5

----------------------------------------------------------------------------
(* The receive thread *)

\* The contexts that top the list up come from the zone.
LEMMA TopUpStep ==
  ASSUME RxInv, TopUp
  PROVE  RxInv'
<1>1. PICK new \in ListsOf(zone, Room) :
             rx_pds' = rx_pds \o new /\ zone' = zone \ SeqRange(new)
  BY DEF TopUp
<1>2. /\ rxpc = "topup" /\ rxpc' = "recv"
      /\ UNCHANGED <<descs, delivered, nic, arg2, refcnt, mbufs, freeing, fpc, truncated>>
  BY DEF TopUp, freevars
<1>3. /\ Len(rx_pds) \in Nat /\ Len(rx_pds) <= BatchSize /\ DOMAIN rx_pds = 1 .. Len(rx_pds)
      /\ rx_pds \in Seq(Ctx) /\ zone \subseteq Ctx
  BY BatchTypes DEF RxInv, TypeOK
<1>4. Room \in Nat
  BY <1>3, RxBuffersAssumption DEF Room
<1>5. /\ new \in Seq(zone) /\ Len(new) \in 0 .. Room
      /\ \A i, j \in 1 .. Len(new) : new[i] = new[j] => i = j
      /\ SeqRange(new) = {new[i] : i \in 1 .. Len(new)}
      /\ SeqRange(new) \subseteq zone
  BY <1>1, <1>4, ListFacts
<1>6. new \in Seq(Ctx)
  BY <1>3, <1>5, SeqMonotonic
<1>7. /\ rx_pds' \in Seq(Ctx) /\ Len(rx_pds') = Len(rx_pds) + Len(new)
      /\ \A i \in 1 .. Len(rx_pds) + Len(new) :
           rx_pds'[i] = IF i <= Len(rx_pds) THEN rx_pds[i] ELSE new[i - Len(rx_pds)]
  BY <1>1, <1>3, <1>6, ConcatProperties
<1>8. DOMAIN rx_pds' = 1 .. Len(rx_pds) + Len(new)
  BY <1>7, LenProperties
<1>9. Len(descs) = 0 /\ Len(descs') = 0
  BY <1>2 DEF RxInv, BatchOK
<1>10. Listed = {rx_pds[i] : i \in 1 .. Len(rx_pds)}
  BY <1>9 DEF Listed
<1>11. Listed' = Listed \cup SeqRange(new)
  <2>1. Listed' = {rx_pds'[i] : i \in 1 .. Len(rx_pds) + Len(new)}
    BY <1>7, <1>9 DEF Listed
  <2>2. ASSUME NEW x \in Listed' PROVE x \in Listed \cup SeqRange(new)
    <3>1. PICK k \in 1 .. Len(rx_pds) + Len(new) : x = rx_pds'[k]
      BY <2>1, <2>2
    <3>2. CASE k <= Len(rx_pds)
      BY <3>1, <3>2, <1>7, <1>10, <1>3
    <3>3. CASE k > Len(rx_pds)
      <4>1. k - Len(rx_pds) \in 1 .. Len(new) /\ x = new[k - Len(rx_pds)]
        BY <3>1, <3>3, <1>7, <1>3, <1>5
      <4> QED
        BY <4>1, <1>5
    <3> QED
      BY <3>2, <3>3, <1>3
  <2>3. ASSUME NEW x \in Listed PROVE x \in Listed'
    <3>1. PICK k \in 1 .. Len(rx_pds) : x = rx_pds[k]
      BY <1>10
    <3>2. k \in 1 .. Len(rx_pds) + Len(new) /\ x = rx_pds'[k]
      BY <3>1, <1>3, <1>5, <1>7
    <3> QED
      BY <3>2, <2>1
  <2>4. ASSUME NEW x \in SeqRange(new) PROVE x \in Listed'
    <3>1. PICK k \in 1 .. Len(new) : x = new[k]
      BY <1>5
    <3>2. /\ Len(rx_pds) + k \in 1 .. Len(rx_pds) + Len(new)
          /\ ~(Len(rx_pds) + k <= Len(rx_pds))
          /\ (Len(rx_pds) + k) - Len(rx_pds) = k
      BY <1>3, <1>5
    <3>3. rx_pds'[Len(rx_pds) + k] = x
      BY <3>1, <3>2, <1>7
    <3> QED
      BY <3>2, <3>3, <2>1
  <2> QED
    BY <2>2, <2>3, <2>4
<1>12. \A b : (InBatch(b)' <=> InBatch(b)) /\ (InUse(b)' <=> InUse(b))
              /\ Decs(b)' = Decs(b) /\ Descs(b)' = Descs(b)
  BY <1>2 DEF InBatch, InUse, Decs, Descs
<1>13. TypeOK'
  <2>1. Len(rx_pds') <= BatchSize /\ Len(descs') <= Len(rx_pds')
    BY <1>3, <1>4, <1>5, <1>7, <1>9, RxBuffersAssumption DEF Room
  <2> QED
    BY <1>1, <1>2, <1>7, <2>1 DEF RxInv, TypeOK, RxPlaces
<1>14. BatchOK' /\ FreeingOK'
  BY <1>2, <1>9 DEF RxInv, BatchOK, FreeingOK
<1>15. \A b \in Buf : CountOK(b)'
  BY <1>2, <1>12, CountFrame DEF RxInv
<1>16. NoUseAfterFree'
  BY <1>1, <1>2, <1>5, <1>11, <1>12 DEF RxInv, NoUseAfterFree
<1>17. GivenBackOK'
  BY <1>1, <1>2, <1>5, <1>11, <1>12 DEF RxInv, GivenBackOK
<1>18. ContextsKept'
  <2>1. {arg2[b] : b \in {x \in Buf : InUse(x)}}' = {arg2[b] : b \in {x \in Buf : InUse(x)}}
    BY <1>2, <1>12
  <2>2. {freeing[t].ctx : t \in {u \in Threads : fpc[u] = "ctx"}}'
          = {freeing[t].ctx : t \in {u \in Threads : fpc[u] = "ctx"}}
    BY <1>2
  <2>3. zone' \cup Listed' = zone \cup Listed /\ zone' \cap Listed' = {}
    BY <1>1, <1>5, <1>11 DEF RxInv, ContextsKept
  <2>4. \A i, j \in DOMAIN rx_pds' : rx_pds'[i] = rx_pds'[j] => i = j
    <3> SUFFICES ASSUME NEW i \in 1 .. Len(rx_pds) + Len(new),
                        NEW j \in 1 .. Len(rx_pds) + Len(new),
                        rx_pds'[i] = rx_pds'[j]
                 PROVE  i = j
      BY <1>8
    <3>1. CASE i <= Len(rx_pds) /\ j <= Len(rx_pds)
      <4>1. i \in DOMAIN rx_pds /\ j \in DOMAIN rx_pds /\ rx_pds[i] = rx_pds[j]
        BY <3>1, <1>3, <1>5, <1>7
      <4> QED
        BY <4>1 DEF RxInv, ContextsKept
    <3>2. CASE i > Len(rx_pds) /\ j > Len(rx_pds)
      <4>1. /\ i - Len(rx_pds) \in 1 .. Len(new) /\ j - Len(rx_pds) \in 1 .. Len(new)
            /\ new[i - Len(rx_pds)] = new[j - Len(rx_pds)]
        BY <3>2, <1>3, <1>5, <1>7
      <4>2. i - Len(rx_pds) = j - Len(rx_pds)
        BY <4>1, <1>5
      <4> QED
        BY <4>2, <1>3, <1>5
    <3>3. CASE i <= Len(rx_pds) /\ j > Len(rx_pds)
      <4>1. /\ i \in 1 .. Len(rx_pds) /\ j - Len(rx_pds) \in 1 .. Len(new)
            /\ rx_pds[i] = new[j - Len(rx_pds)]
        BY <3>3, <1>3, <1>5, <1>7
      <4>2. rx_pds[i] \in Listed /\ rx_pds[i] \in zone
        BY <4>1, <1>5, <1>10
      <4> QED
        BY <4>2 DEF RxInv, ContextsKept
    <3>4. CASE i > Len(rx_pds) /\ j <= Len(rx_pds)
      <4>1. /\ j \in 1 .. Len(rx_pds) /\ i - Len(rx_pds) \in 1 .. Len(new)
            /\ rx_pds[j] = new[i - Len(rx_pds)]
        BY <3>4, <1>3, <1>5, <1>7
      <4>2. rx_pds[j] \in Listed /\ rx_pds[j] \in zone
        BY <4>1, <1>5, <1>10
      <4> QED
        BY <4>2 DEF RxInv, ContextsKept
    <3> QED
      BY <3>1, <3>2, <3>3, <3>4, <1>3, <1>5
  <2> QED
    BY <1>2, <1>12, <2>1, <2>2, <2>3, <2>4 DEF RxInv, ContextsKept
<1>19. LostOnlyByRace'
  BY <1>2, <1>12 DEF RxInv, LostOnlyByRace
<1> QED
  BY <1>13, <1>14, <1>15, <1>16, <1>17, <1>18, <1>19 DEF RxInv

\* The buffers of a burst come from the NIC, and those lent get the contexts at
\* the head of the list.
LEMMA ReceiveStep ==
  ASSUME RxInv, Receive
  PROVE  RxInv'
<1>1. PICK burst \in ListsOf(nic, Burst) :
         /\ nic' = nic \ SeqRange(burst)
         /\ descs' = Fitting(burst)
         /\ arg2' = [b \in Buf |->
                       IF b \in SeqRange(Fitting(burst))
                         THEN rx_pds[CHOOSE i \in DOMAIN Fitting(burst) : Fitting(burst)[i] = b]
                         ELSE arg2[b]]
         /\ refcnt' = [b \in Buf |-> IF b \in SeqRange(burst) THEN 1 ELSE refcnt[b]]
         /\ truncated' = truncated \cup (SeqRange(burst) \ SeqRange(Fitting(burst)))
         /\ rxpc' = IF Fitting(burst) = <<>> THEN "topup" ELSE "deliver"
  BY DEF Receive
<1> DEFINE lent == Fitting(burst)
<1>2. /\ rxpc = "recv" /\ delivered' = 0
      /\ UNCHANGED <<zone, rx_pds, mbufs, freeing, fpc>>
  BY DEF Receive, freevars
<1>3. /\ Len(rx_pds) \in Nat /\ DOMAIN rx_pds = 1 .. Len(rx_pds)
      /\ rx_pds \in Seq(Ctx) /\ nic \subseteq Buf
      /\ \A k \in 1 .. Len(rx_pds) : rx_pds[k] \in Ctx
  BY BatchTypes DEF RxInv, TypeOK
<1>4. /\ burst \in Seq(nic) /\ Len(burst) \in Nat
      /\ \A i, j \in 1 .. Len(burst) : burst[i] = burst[j] => i = j
      /\ SeqRange(burst) = {burst[i] : i \in 1 .. Len(burst)}
      /\ SeqRange(burst) \subseteq nic
  BY <1>1, ListFacts, RxBuffersAssumption
<1>5. /\ lent \in Seq(nic) /\ Len(lent) \in 0 .. Len(rx_pds) /\ Len(lent) <= Len(burst)
      /\ \A k \in 1 .. Len(lent) : lent[k] = burst[k]
      /\ DOMAIN lent = 1 .. Len(lent)
  BY <1>3, <1>4, FittingFacts, LenProperties
<1> HIDE DEF lent
<1>6. /\ nic' = nic \ SeqRange(burst)
      /\ descs' = lent
      /\ arg2' = [b \in Buf |-> IF b \in SeqRange(lent)
                         THEN rx_pds[CHOOSE i \in DOMAIN lent : lent[i] = b] ELSE arg2[b]]
      /\ refcnt' = [b \in Buf |-> IF b \in SeqRange(burst) THEN 1 ELSE refcnt[b]]
      /\ truncated' = truncated \cup (SeqRange(burst) \ SeqRange(lent))
      /\ rxpc' = IF lent = <<>> THEN "topup" ELSE "deliver"
  BY <1>1 DEF lent
<1>7. /\ \A i, j \in 1 .. Len(lent) : lent[i] = lent[j] => i = j
      /\ SeqRange(lent) = {lent[i] : i \in 1 .. Len(lent)}
      /\ SeqRange(lent) \subseteq SeqRange(burst)
  <2>1. \A k \in 1 .. Len(lent) : k \in 1 .. Len(burst)
    BY <1>3, <1>4, <1>5
  <2> QED
    BY <1>4, <1>5, <2>1 DEF SeqRange
<1>8. \A k \in 1 .. Len(lent) : lent[k] \in nic /\ arg2'[lent[k]] = rx_pds[k]
  <2> SUFFICES ASSUME NEW k \in 1 .. Len(lent)
               PROVE  lent[k] \in nic /\ arg2'[lent[k]] = rx_pds[k]
    OBVIOUS
  <2>1. lent[k] \in SeqRange(lent) /\ lent[k] \in nic /\ lent[k] \in Buf
    BY <1>3, <1>4, <1>7
  <2>2. (CHOOSE i \in DOMAIN lent : lent[i] = lent[k]) = k
    BY <1>5, <1>7
  <2> QED
    BY <1>6, <2>1, <2>2
<1>9. Len(descs) = 0 /\ \A b : ~InBatch(b)
  BY <1>2 DEF RxInv, BatchOK, InBatch, TypeOK
<1>10. Listed = {rx_pds[i] : i \in 1 .. Len(rx_pds)}
  BY <1>9 DEF Listed
<1>11. Listed' = {rx_pds[i] : i \in Len(lent) + 1 .. Len(rx_pds)}
  BY <1>2, <1>6 DEF Listed
<1>12. \A b : InBatch(b)' <=> b \in SeqRange(lent)
  <2>1. \A b : InBatch(b)' <=> \E k \in 1 .. Len(lent) : lent[k] = b
    BY <1>2, <1>6 DEF InBatch
  <2> QED
    BY <2>1, <1>7
<1>13. \A b : Decs(b)' = Decs(b) /\ Descs(b)' = Descs(b)
  BY <1>2 DEF Decs, Descs
<1>14. \A b \in Buf : InUse(b)' <=> InUse(b) \/ b \in SeqRange(lent)
  BY <1>2, <1>9, <1>12, <1>13 DEF InUse
<1>15. \A b \in Buf : b \in nic => ~InUse(b)
  BY DEF RxInv, NoUseAfterFree
<1>16. \A b \in Buf : InUse(b) =>
                         arg2'[b] = arg2[b] /\ refcnt'[b] = refcnt[b] /\ b \notin nic'
  BY <1>4, <1>6, <1>7, <1>15
<1>17. \A k \in 1 .. Len(lent) : rx_pds[k] \in Listed /\ rx_pds[k] \notin Listed'
  <2> SUFFICES ASSUME NEW k \in 1 .. Len(lent)
               PROVE  rx_pds[k] \in Listed /\ rx_pds[k] \notin Listed'
    OBVIOUS
  <2>1. /\ k \in 1 .. Len(rx_pds)
        /\ \A m \in Len(lent) + 1 .. Len(rx_pds) : m \in 1 .. Len(rx_pds) /\ m # k
    BY <1>3, <1>5
  <2> QED
    BY <2>1, <1>3, <1>10, <1>11 DEF RxInv, ContextsKept
<1>18. Listed' \subseteq Listed /\ Listed = Listed' \cup {rx_pds[k] : k \in 1 .. Len(lent)}
  <2>1. \A m : m \in 1 .. Len(rx_pds) <=> m \in 1 .. Len(lent) \/ m \in Len(lent) + 1 .. Len(rx_pds)
    BY <1>3, <1>5
  <2> QED
    BY <2>1, <1>10, <1>11
<1>19. \A b \in SeqRange(lent) : \E k \in 1 .. Len(lent) : b = lent[k] /\ arg2'[b] = rx_pds[k]
  BY <1>7, <1>8
<1>20. TypeOK'
  <2>1. lent \in Seq(Buf)
    BY <1>3, <1>5, SeqMonotonic
  <2>2. arg2' \in [Buf -> Ctx \cup {Nil}]
    <3>1. \A b \in Buf : arg2'[b] \in Ctx \cup {Nil}
      <4> SUFFICES ASSUME NEW b \in Buf PROVE arg2'[b] \in Ctx \cup {Nil}
        OBVIOUS
      <4>1. CASE b \in SeqRange(lent)
        <5>1. PICK k \in 1 .. Len(lent) : arg2'[b] = rx_pds[k]
          BY <1>19, <4>1
        <5>2. k \in 1 .. Len(rx_pds)
          BY <1>3, <1>5
        <5> QED
          BY <1>3, <5>1, <5>2
      <4>2. CASE b \notin SeqRange(lent)
        BY <1>6, <4>2 DEF RxInv, TypeOK
      <4> QED
        BY <4>1, <4>2
    <3> QED
      BY <3>1, <1>6
  <2>3. refcnt' \in [Buf -> 0 .. UINT16_MAX]
    <3>1. 1 \in 0 .. UINT16_MAX
      BY CountLimit
    <3>2. \A b \in Buf : refcnt[b] \in 0 .. UINT16_MAX
      BY DEF RxInv, TypeOK
    <3> QED
      BY <3>1, <3>2, <1>6
  <2>4. delivered' \in 0 .. Len(lent) /\ Len(lent) <= Len(rx_pds)
    BY <1>2, <1>3, <1>5
  <2>5. truncated' \subseteq Buf /\ nic' \subseteq Buf /\ rxpc' \in RxPlaces
    BY <1>3, <1>4, <1>6 DEF RxInv, TypeOK, RxPlaces
  <2> QED
    BY <1>2, <1>6, <2>1, <2>2, <2>3, <2>4, <2>5 DEF RxInv, TypeOK
<1>21. BatchOK'
  BY <1>2, <1>6, <1>7, <1>8 DEF BatchOK
<1>22. FreeingOK'
  <2>1. \A t \in Threads : fpc[t] \in {"dec", "desc"} => InUse(freeing[t].base)
    BY DEF InUse
  <2> QED
    BY <2>1, <1>2, <1>16 DEF RxInv, FreeingOK
<1>23. \A b \in Buf : CountOK(b)'
  <2> SUFFICES ASSUME NEW b \in Buf PROVE CountOK(b)'
    OBVIOUS
  <2>1. CASE b \in SeqRange(lent)
    <3>1. ~InUse(b) /\ refcnt'[b] = 1
      BY <2>1, <1>4, <1>6, <1>7, <1>15
    <3>2. ~(mbufs'[b] > 0) /\ Decs(b)' = {} /\ Descs(b)' = {}
      BY <3>1, <1>2, <1>13, InUseMeans
    <3> QED
      BY <3>1, <3>2 DEF CountOK
  <2>2. CASE InUse(b)
    <3>1. b \notin SeqRange(lent) /\ refcnt'[b] = refcnt[b]
      BY <2>2, <1>4, <1>7, <1>15, <1>16
    <3> QED
      BY <3>1, <1>2, <1>9, <1>12, <1>13, CountFrame DEF RxInv
  <2>3. CASE ~InUse(b) /\ b \notin SeqRange(lent)
    <3>1. ~(mbufs'[b] > 0) /\ Decs(b)' = {} /\ Descs(b)' = {} /\ ~InBatch(b)'
      BY <2>3, <1>2, <1>12, <1>13, InUseMeans
    <3> QED
      BY <3>1 DEF CountOK
  <2> QED
    BY <2>1, <2>2, <2>3
<1>24. NoUseAfterFree'
  <2> SUFFICES ASSUME NEW b \in Buf, InUse(b)'
               PROVE  b \notin nic' /\ arg2'[b] \in Ctx \ (zone \cup Listed')
    BY <1>2 DEF NoUseAfterFree
  <2>1. CASE InUse(b)
    <3>1. b \notin nic /\ arg2[b] \in Ctx \ (zone \cup Listed)
      BY <2>1 DEF RxInv, NoUseAfterFree
    <3> QED
      BY <3>1, <2>1, <1>6, <1>16, <1>18
  <2>2. CASE b \in SeqRange(lent)
    <3>1. PICK k \in 1 .. Len(lent) : arg2'[b] = rx_pds[k]
      BY <2>2, <1>19
    <3>2. rx_pds[k] \in Listed /\ rx_pds[k] \notin Listed'
      BY <1>17
    <3>3. rx_pds[k] \in Ctx
      BY <1>3, <1>10, <3>2
    <3>4. rx_pds[k] \notin zone
      BY <3>2 DEF RxInv, ContextsKept
    <3>5. b \notin nic'
      BY <2>2, <1>6, <1>7
    <3> QED
      BY <3>1, <3>2, <3>3, <3>4, <3>5
  <2> QED
    BY <1>14, <2>1, <2>2
<1>25. GivenBackOK'
  <2>1. ASSUME NEW t \in Threads, fpc[t] = "ctx", NEW b \in Buf, InUse(b)'
        PROVE  arg2'[b] # freeing[t].ctx
    <3>1. freeing[t].ctx \notin Listed /\ (InUse(b) => arg2[b] # freeing[t].ctx)
      BY <2>1 DEF RxInv, GivenBackOK
    <3>2. CASE InUse(b)
      BY <3>1, <3>2, <1>16
    <3>3. CASE b \in SeqRange(lent)
      BY <3>1, <3>3, <1>17, <1>19
    <3> QED
      BY <2>1, <1>14, <3>2, <3>3
  <2>2. \A t \in Threads : fpc[t] = "ctx" => freeing[t].ctx \in Ctx \ (zone \cup Listed')
    BY <1>18 DEF RxInv, GivenBackOK
  <2>3. /\ zone' = zone /\ fpc' = fpc /\ freeing' = freeing
        /\ \A t, u \in Threads :
             fpc[t] = "ctx" /\ fpc[u] = "ctx" /\ freeing[t].ctx = freeing[u].ctx => t = u
    BY <1>2 DEF RxInv, GivenBackOK
  <2> QED
    BY <2>1, <2>2, <2>3 DEF GivenBackOK
<1>26. ContextsKept'
  <2>1. \A a, b \in Buf : InUse(a)' /\ InUse(b)' /\ arg2'[a] = arg2'[b] => a = b
    <3> SUFFICES ASSUME NEW a \in Buf, NEW b \in Buf, InUse(a)', InUse(b)', arg2'[a] = arg2'[b]
                 PROVE  a = b
      OBVIOUS
    <3>1. CASE InUse(a) /\ InUse(b)
      BY <3>1, <1>16 DEF RxInv, ContextsKept
    <3>2. \A x \in Buf : InUse(x) => arg2'[x] \notin Listed
      BY <1>16 DEF RxInv, NoUseAfterFree
    <3>3. \A x \in SeqRange(lent) : arg2'[x] \in Listed
      BY <1>17, <1>19
    <3>4. CASE a \in SeqRange(lent) /\ b \in SeqRange(lent)
      <4>1. PICK k \in 1 .. Len(lent) : a = lent[k] /\ arg2'[a] = rx_pds[k]
        BY <3>4, <1>19
      <4>2. PICK m \in 1 .. Len(lent) : b = lent[m] /\ arg2'[b] = rx_pds[m]
        BY <3>4, <1>19
      <4>3. k \in 1 .. Len(rx_pds) /\ m \in 1 .. Len(rx_pds) /\ rx_pds[k] = rx_pds[m]
        BY <4>1, <4>2, <1>3, <1>5
      <4>4. k = m
        BY <4>3, <1>3 DEF RxInv, ContextsKept
      <4> QED
        BY <4>1, <4>2, <4>4
    <3> QED
      BY <1>14, <3>1, <3>2, <3>3, <3>4
  <2>2. Ctx = zone \cup Listed' \cup {arg2'[b] : b \in {x \in Buf : InUse(x)'}}
                \cup {freeing[t].ctx : t \in {u \in Threads : fpc[u] = "ctx"}}
    <3>1. ASSUME NEW c \in Ctx, c \notin zone \cup Listed',
                 c \notin {freeing[t].ctx : t \in {u \in Threads : fpc[u] = "ctx"}}
          PROVE  \E b \in Buf : InUse(b)' /\ arg2'[b] = c
      <4>1. CASE c \in Listed
        <5>1. PICK k \in 1 .. Len(lent) : c = rx_pds[k]
          BY <3>1, <4>1, <1>18
        <5>2. lent[k] \in Buf /\ lent[k] \in SeqRange(lent) /\ arg2'[lent[k]] = c
          BY <5>1, <1>3, <1>7, <1>8
        <5> QED
          BY <5>2, <1>14
      <4>2. CASE c \notin Listed
        <5>1. PICK b \in Buf : InUse(b) /\ c = arg2[b]
          BY <3>1, <4>2 DEF RxInv, ContextsKept
        <5> QED
          BY <5>1, <1>14, <1>16
      <4> QED
        BY <4>1, <4>2
    <3>2. \A b \in Buf : InUse(b)' => arg2'[b] \in Ctx
      BY <1>24 DEF NoUseAfterFree
    <3>3. \A t \in Threads : fpc[t] = "ctx" => freeing[t].ctx \in Ctx
      BY DEF RxInv, GivenBackOK
    <3>4. zone \subseteq Ctx /\ Listed' \subseteq Ctx
      BY <1>18 DEF RxInv, ContextsKept
    <3> QED
      BY <3>1, <3>2, <3>3, <3>4
  <2>3. zone \cap Listed' = {}
    BY <1>18 DEF RxInv, ContextsKept
  <2> QED
    BY <1>2, <2>1, <2>2, <2>3 DEF RxInv, ContextsKept
<1>27. LostOnlyByRace'
  <2> SUFFICES ASSUME NEW b \in Buf
               PROVE  b \in nic' \/ InUse(b)' \/ b \in truncated' \/ refcnt'[b] = UINT16_MAX
    BY DEF LostOnlyByRace
  <2>1. CASE b \in SeqRange(burst)
    BY <2>1, <1>6, <1>14
  <2>2. CASE b \notin SeqRange(burst)
    BY <2>2, <1>6, <1>14 DEF RxInv, LostOnlyByRace
  <2> QED
    BY <2>1, <2>2
<1> QED
  BY <1>20, <1>21, <1>22, <1>23, <1>24, <1>25, <1>26, <1>27 DEF RxInv

\* The buffer of the packet delivered leaves the batch and is the stack's.
LEMMA DeliverStep ==
  ASSUME RxInv, Deliver
  PROVE  RxInv'
<1>0. PICK b0 : b0 = descs[delivered + 1]
  OBVIOUS
<1>1. /\ rxpc = "deliver" /\ delivered < Len(descs) /\ delivered' = delivered + 1
      /\ mbufs' = [mbufs EXCEPT ![b0] = 1]
      /\ UNCHANGED <<zone, rx_pds, descs, rxpc, nic, arg2, refcnt, freeing, fpc, truncated>>
  BY <1>0 DEF Deliver, freevars
<1>2. Len(descs) \in Nat /\ delivered \in Nat /\ b0 \in Buf /\ delivered + 1 \in 1 .. Len(descs)
  BY <1>0, <1>1, BatchTypes DEF RxInv, TypeOK
<1>3. InBatch(b0) /\ ~InBatch(b0)'
  <2>1. \A k \in delivered + 2 .. Len(descs) : k \in 1 .. Len(descs) /\ k # delivered + 1
    BY <1>2
  <2>2. \A k \in delivered + 2 .. Len(descs) : descs[k] # b0
    BY <2>1, <1>0, <1>2 DEF RxInv, BatchOK
  <2>3. delivered + 1 \in delivered + 1 .. Len(descs) /\ (delivered + 1) + 1 = delivered + 2
    BY <1>2
  <2> QED
    BY <1>0, <1>1, <2>2, <2>3 DEF InBatch
<1>4. \A b : b # b0 => (InBatch(b)' <=> InBatch(b))
  <2>1. \A k : k \in delivered + 1 .. Len(descs)
                 <=> k = delivered + 1 \/ k \in (delivered + 1) + 1 .. Len(descs)
    BY <1>2
  <2> QED
    BY <1>0, <1>1, <2>1 DEF InBatch
<1>5. \A b : Decs(b)' = Decs(b) /\ Descs(b)' = Descs(b)
  BY <1>1 DEF Decs, Descs
<1>6. mbufs'[b0] = 1 /\ \A b \in Buf \ {b0} : mbufs'[b] = mbufs[b]
  BY <1>1, <1>2 DEF RxInv, TypeOK
<1>7. \A b \in Buf : InUse(b)' <=> InUse(b)
  <2>1. InUse(b0) /\ InUse(b0)'
    BY <1>3, <1>6 DEF InUse
  <2> QED
    BY <2>1, <1>1, <1>4, <1>6 DEF InUse
<1>8. TypeOK'
  <2>1. mbufs' \in [Buf -> 0 .. MaxMbufs]
    BY <1>1, <1>2, RxBuffersAssumption DEF RxInv, TypeOK
  <2>2. delivered' \in 0 .. Len(descs)
    BY <1>1, <1>2
  <2> QED
    BY <1>1, <2>1, <2>2 DEF RxInv, TypeOK
<1>9. BatchOK' /\ FreeingOK'
  BY <1>1 DEF RxInv, BatchOK, FreeingOK
<1>10. \A b \in Buf : CountOK(b)'
  <2>1. CountOK(b0)'
    <3>1. refcnt[b0] = 1 /\ Decs(b0) = {} /\ Descs(b0) = {}
      BY <1>2, <1>3 DEF RxInv, CountOK
    <3>2. Cardinality({}) = 0
      BY FS_EmptySet
    <3>3. refcnt'[b0] = mbufs'[b0] + Cardinality(Decs(b0)')
      <4>1. Decs(b0)' = {} /\ refcnt'[b0] = 1 /\ mbufs'[b0] = 1
        BY <3>1, <1>1, <1>5, <1>6
      <4>2. Cardinality(Decs(b0)') = 0
        BY <4>1, <3>2
      <4> QED
        BY <4>1, <4>2
    <3> QED
      BY <3>1, <3>3, <1>3, <1>5 DEF CountOK
  <2>2. \A b \in Buf \ {b0} : CountOK(b)'
    BY <1>1, <1>4, <1>5, <1>6, CountFrame DEF RxInv
  <2> QED
    BY <2>1, <2>2
<1>11. NoUseAfterFree' /\ GivenBackOK' /\ ContextsKept'
  <2>1. Listed' = Listed
    BY <1>1 DEF Listed
  <2>2. \A i, j \in DOMAIN rx_pds' : rx_pds'[i] = rx_pds'[j] => i = j
    BY <1>1 DEF RxInv, ContextsKept
  <2> QED
    BY <1>1, <1>7, <2>1, <2>2, ContextFrame
<1>12. LostOnlyByRace'
  BY <1>1, <1>7 DEF RxInv, LostOnlyByRace
<1> QED
  BY <1>8, <1>9, <1>10, <1>11, <1>12 DEF RxInv

\* The list keeps the contexts behind the batch, at its front.
LEMMA FinishBatchStep ==
  ASSUME RxInv, FinishBatch
  PROVE  RxInv'
<1>1. /\ delivered = Len(descs) /\ rx_pds' = Rest
      /\ descs' = <<>> /\ delivered' = 0 /\ rxpc' = "topup"
      /\ UNCHANGED <<zone, nic, arg2, refcnt, mbufs, freeing, fpc, truncated>>
  BY DEF FinishBatch, freevars
<1> DEFINE d == Len(descs)
           n == Len(rx_pds)
<1>2. /\ d \in Nat /\ n \in Nat /\ d <= n /\ n <= BatchSize /\ DOMAIN rx_pds = 1 .. n
      /\ \A k \in 1 .. n : rx_pds[k] \in Ctx
  BY BatchTypes DEF RxInv, TypeOK
<1>3. rx_pds' = SubSeq(rx_pds, d + 1, n)
  BY <1>1 DEF Rest
<1>4. Len(descs') = 0
  BY <1>1
<1>a. Listed = {rx_pds[k] : k \in d + 1 .. n}
  BY DEF Listed
<1>b. \A b : ~InBatch(b) /\ ~InBatch(b)'
  BY <1>1, <1>2, <1>4 DEF InBatch
<1> HIDE DEF d, n
<1>5. /\ rx_pds' \in Seq(Ctx) /\ Len(rx_pds') = n - d
      /\ \A k \in 1 .. n - d : rx_pds'[k] = rx_pds[d + k]
  <2>1. \A k \in d + 1 .. n : rx_pds[k] \in Ctx
    BY <1>2
  <2>2. /\ SubSeq(rx_pds, d + 1, n) \in Seq(Ctx)
        /\ Len(SubSeq(rx_pds, d + 1, n)) = IF d + 1 <= n THEN n-(d+1)+1 ELSE 0
        /\ \A k \in 1 .. n-(d+1)+1 : SubSeq(rx_pds, d + 1, n)[k] = rx_pds[(d+1)+k-1]
    BY <1>2, <2>1, SubSeqProperties
  <2>3. n-(d+1)+1 = n - d /\ (d + 1 > n => n - d = 0)
    BY <1>2
  <2>4. \A k \in 1 .. n - d : (d+1)+k-1 = d + k
    BY <1>2
  <2>5. Len(rx_pds') = n - d
    BY <1>2, <1>3, <2>2, <2>3
  <2> QED
    BY <1>3, <2>2, <2>3, <2>4, <2>5
<1>6. DOMAIN rx_pds' = 1 .. n - d
  BY <1>5, LenProperties
<1>7. Listed' = Listed
  <2>1. Listed' = {rx_pds'[k] : k \in 1 .. n - d}
    BY <1>4, <1>5 DEF Listed
  <2>2. \A k \in 1 .. n - d : d + k \in d + 1 .. n
    BY <1>2
  <2>3. \A k \in d + 1 .. n : k - d \in 1 .. n - d /\ d + (k - d) = k
    BY <1>2
  <2>4. \A k \in d + 1 .. n : rx_pds'[k - d] = rx_pds[k]
    BY <1>5, <2>3
  <2> QED
    BY <1>5, <1>a, <2>1, <2>2, <2>3, <2>4
<1>8. \A b : /\ InUse(b)' <=> InUse(b)
             /\ Decs(b)' = Decs(b) /\ Descs(b)' = Descs(b)
  BY <1>1, <1>b DEF InUse, Decs, Descs
<1>9. TypeOK'
  <2>1. descs' \in Seq(Buf) /\ Len(descs') <= Len(rx_pds') /\ delivered' \in 0 .. Len(descs')
        /\ Len(rx_pds') <= BatchSize
    BY <1>1, <1>2, <1>4, <1>5, RxBuffersAssumption, EmptySeq
  <2> QED
    BY <1>1, <1>5, <2>1 DEF RxInv, TypeOK, RxPlaces
<1>10. BatchOK' /\ FreeingOK'
  BY <1>1, <1>4 DEF RxInv, BatchOK, FreeingOK
<1>11. \A b \in Buf : CountOK(b)'
  BY <1>1, <1>8, <1>b, CountFrame DEF RxInv
<1>12. NoUseAfterFree' /\ GivenBackOK' /\ ContextsKept'
  <2>1. \A i, j \in DOMAIN rx_pds' : rx_pds'[i] = rx_pds'[j] => i = j
    <3> SUFFICES ASSUME NEW i \in 1 .. n - d, NEW j \in 1 .. n - d, rx_pds'[i] = rx_pds'[j]
                 PROVE  i = j
      BY <1>6
    <3>1. d + i \in 1 .. n /\ d + j \in 1 .. n
      BY <1>2
    <3>2. d + i = d + j
      BY <3>1, <1>2, <1>5 DEF RxInv, ContextsKept
    <3> QED
      BY <3>2, <1>2
  <2> QED
    BY <1>1, <1>7, <1>8, <2>1, ContextFrame
<1>13. LostOnlyByRace'
  BY <1>1, <1>8 DEF RxInv, LostOnlyByRace
<1> QED
  BY <1>9, <1>10, <1>11, <1>12, <1>13 DEF RxInv

----------------------------------------------------------------------------
(* The threads that share and free mbufs *)

\* Mbufs and threads together do not exceed the 16-bit count.
LEMMA CountFits ==
  ASSUME NEW m \in Nat, NEW d \in Nat, NEW n \in Nat, NEW max \in Nat,
         m + 1 <= max, d <= n, max + n <= UINT16_MAX
  PROVE  (m + d) + 1 \in 0 .. UINT16_MAX
BY CountLimit

\* One more mbuf, one more in the count.
LEMMA ShareStep ==
  ASSUME RxInv, NEW b \in Buf, Share(b)
  PROVE  RxInv'
<1>1. /\ mbufs[b] \in 1 .. MaxMbufs - 1
      /\ mbufs' = [mbufs EXCEPT ![b] = mbufs[b] + 1]
      /\ refcnt' = [refcnt EXCEPT ![b] = refcnt[b] + 1]
      /\ UNCHANGED <<zone, rxvars, nic, arg2, freeing, fpc, truncated>>
  BY DEF Share, Dup, freevars
<1>2. /\ mbufs[b] \in Nat /\ mbufs[b] > 0 /\ mbufs[b] + 1 \in 0 .. MaxMbufs
      /\ mbufs'[b] = mbufs[b] + 1 /\ refcnt'[b] = refcnt[b] + 1
      /\ \A c \in Buf \ {b} : mbufs'[c] = mbufs[c] /\ refcnt'[c] = refcnt[c]
  BY <1>1, RxBuffersAssumption DEF RxInv, TypeOK
<1>3. /\ ~InBatch(b) /\ Descs(b) = {}
      /\ refcnt[b] = mbufs[b] + Cardinality(Decs(b))
  BY <1>2 DEF RxInv, CountOK
<1>4. BatchSame
  BY <1>1 DEF BatchSame
<1>5. \A c : /\ InBatch(c)' <=> InBatch(c)
             /\ Decs(c)' = Decs(c) /\ Descs(c)' = Descs(c)
  BY <1>1, <1>4, BatchFrame DEF Decs, Descs
<1>6. \A c \in Buf : InUse(c)' <=> InUse(c)
  <2>1. mbufs'[b] > 0
    BY <1>2
  <2>2. \A c : InUse(c)' <=> InBatch(c)' \/ mbufs'[c] > 0 \/ Decs(c)' # {} \/ Descs(c)' # {}
    BY DEF InUse, Decs, Descs
  <2> QED
    BY <1>2, <1>5, <2>1, <2>2, InUseMeans
<1>7. refcnt[b] + 1 \in 0 .. UINT16_MAX
  <2>1. Cardinality(Decs(b)) \in Nat /\ Cardinality(Decs(b)) <= Cardinality(Threads)
    BY DecsFinite
  <2>2. Cardinality(Threads) \in Nat
    BY FS_CardinalityType, RxBuffersAssumption
  <2> QED
    BY <1>2, <1>3, <2>1, <2>2, CountFits, RxBuffersAssumption
<1>8. TypeOK'
  <2>1. mbufs' \in [Buf -> 0 .. MaxMbufs]
    BY <1>1, <1>2 DEF RxInv, TypeOK
  <2>2. refcnt' \in [Buf -> 0 .. UINT16_MAX]
    BY <1>1, <1>7 DEF RxInv, TypeOK
  <2> QED
    BY <1>1, <2>1, <2>2 DEF RxInv, TypeOK, rxvars
<1>9. BatchOK' /\ FreeingOK'
  BY <1>1 DEF RxInv, BatchOK, FreeingOK, rxvars
<1>10. \A c \in Buf : CountOK(c)'
  <2>1. CountOK(b)'
    <3>1. Cardinality(Decs(b)) \in Nat
      BY DecsFinite
    <3>2. refcnt'[b] = mbufs'[b] + Cardinality(Decs(b)')
      BY <1>2, <1>3, <1>5, <3>1
    <3> QED
      BY <1>3, <1>5, <3>2 DEF CountOK
  <2>2. \A c \in Buf \ {b} : CountOK(c)'
    BY <1>2, <1>5, CountFrame DEF RxInv
  <2> QED
    BY <2>1, <2>2
<1>11. NoUseAfterFree' /\ GivenBackOK' /\ ContextsKept'
  <2>1. Listed' = Listed
    BY <1>4, BatchFrame
  <2>2. \A i, j \in DOMAIN rx_pds' : rx_pds'[i] = rx_pds'[j] => i = j
    BY <1>1 DEF RxInv, ContextsKept, rxvars
  <2> QED
    BY <1>1, <1>6, <2>1, <2>2, ContextFrame
<1>12. LostOnlyByRace'
  <2>1. InUse(b)
    BY <1>2 DEF InUse
  <2> QED
    BY <1>1, <1>2, <1>6, <2>1 DEF RxInv, LostOnlyByRace
<1> QED
  BY <1>8, <1>9, <1>10, <1>11, <1>12 DEF RxInv

\* What all steps of a freeing thread leave alone, and what follows if the
\* buffers in use stay the same and no context is given back.
LEMMA FreeingFrame ==
  ASSUME RxInv, NEW t \in Threads, fpc[t] # "ctx", NEW p, p # "ctx",
         UNCHANGED <<zone, rxvars, nic, arg2, truncated>>,
         fpc' = [fpc EXCEPT ![t] = p],
         \A u \in Threads \ {t} : freeing'[u] = freeing[u],
         \A c \in Buf : InUse(c)' <=> InUse(c)
  PROVE  NoUseAfterFree' /\ GivenBackOK' /\ ContextsKept'
<1>1. Listed' = Listed
  BY BatchFrame DEF BatchSame
<1>2. \A i, j \in DOMAIN rx_pds' : rx_pds'[i] = rx_pds'[j] => i = j
  BY DEF RxInv, ContextsKept, rxvars
<1>3. /\ fpc'[t] = p
      /\ \A u \in Threads \ {t} : fpc'[u] = fpc[u]
  BY DEF RxInv, TypeOK
<1>4. \A u \in Threads : fpc'[u] = "ctx" <=> fpc[u] = "ctx"
  BY <1>3
<1>5. \A u \in Threads : fpc[u] = "ctx" => freeing'[u] = freeing[u]
  OBVIOUS
<1> QED
  BY <1>1, <1>2, <1>4, <1>5, ContextFrame

\* The thread that reads a count of 1 has the last reference; any other has
\* still to decrement.
LEMMA FreeReadsStep ==
  ASSUME RxInv, NEW t \in Threads, NEW b \in Buf, FreeReads(t, b)
  PROVE  RxInv'
<1>p. PICK p : p = IF refcnt[b] = 1 THEN "desc" ELSE "dec"
  OBVIOUS
<1>r. PICK r : r = [base |-> b, ctx |-> arg2[b]]
  OBVIOUS
<1>1. /\ fpc[t] = "out" /\ mbufs[b] > 0
      /\ mbufs' = [mbufs EXCEPT ![b] = mbufs[b] - 1]
      /\ freeing' = [freeing EXCEPT ![t] = r]
      /\ fpc' = [fpc EXCEPT ![t] = p]
      /\ UNCHANGED <<zone, rxvars, nic, arg2, refcnt, truncated>>
  BY <1>p, <1>r DEF FreeReads
<1>a. r.base = b /\ r.ctx = arg2[b] /\ p \in {"desc", "dec"} /\ p # "ctx"
      /\ r \in [base : Buf \cup {Nil}, ctx : Ctx \cup {Nil}]
  BY <1>p, <1>r DEF RxInv, TypeOK
<1>2. /\ mbufs[b] \in 1 .. MaxMbufs /\ mbufs'[b] = mbufs[b] - 1
      /\ \A c \in Buf \ {b} : mbufs'[c] = mbufs[c]
      /\ MaxMbufs \in Nat
  BY <1>1, RxBuffersAssumption DEF RxInv, TypeOK
<1>3. /\ ~InBatch(b) /\ Descs(b) = {}
      /\ refcnt[b] = mbufs[b] + Cardinality(Decs(b))
      /\ Cardinality(Decs(b)) \in Nat /\ IsFiniteSet(Decs(b))
  BY <1>1, DecsFinite DEF RxInv, CountOK
<1>4. \A c : t \notin Decs(c) /\ t \notin Descs(c)
  BY <1>1 DEF Decs, Descs
<1>b. /\ fpc'[t] = p /\ freeing'[t] = r
      /\ \A u \in Threads \ {t} : fpc'[u] = fpc[u] /\ freeing'[u] = freeing[u]
  BY <1>1 DEF RxInv, TypeOK
<1>5. \A c : /\ Decs(c)' = IF p = "dec" /\ b = c THEN Decs(c) \cup {t} ELSE Decs(c) \ {t}
             /\ Descs(c)' = IF p = "desc" /\ b = c THEN Descs(c) \cup {t} ELSE Descs(c) \ {t}
  BY <1>a, <1>b, ThreadMoves
<1>6. \A c \in Buf \ {b} : Decs(c)' = Decs(c) /\ Descs(c)' = Descs(c)
  BY <1>4, <1>5
<1>7. \A c : InBatch(c)' <=> InBatch(c)
  BY <1>1, BatchFrame DEF BatchSame
<1>8. InUse(b) /\ InUse(b)'
  <2>1. Decs(b)' # {} \/ Descs(b)' # {}
    BY <1>5, <1>a
  <2> QED
    BY <1>1, <2>1 DEF InUse, Decs, Descs
<1>9. \A c \in Buf : InUse(c)' <=> InUse(c)
  <2> SUFFICES ASSUME NEW c \in Buf \ {b} PROVE InUse(c)' <=> InUse(c)
    BY <1>8
  <2>1. InUse(c)' <=> InBatch(c)' \/ mbufs'[c] > 0 \/ Decs(c)' # {} \/ Descs(c)' # {}
    BY DEF InUse, Decs, Descs
  <2> QED
    BY <2>1, <1>2, <1>6, <1>7, InUseMeans
<1>10. TypeOK'
  <2>1. mbufs' \in [Buf -> 0 .. MaxMbufs]
    BY <1>1, <1>2 DEF RxInv, TypeOK
  <2>2. /\ freeing' \in [Threads -> [base : Buf \cup {Nil}, ctx : Ctx \cup {Nil}]]
        /\ fpc' \in [Threads -> FreePlaces]
    BY <1>1, <1>a DEF RxInv, TypeOK, FreePlaces
  <2> QED
    BY <1>1, <2>1, <2>2 DEF RxInv, TypeOK, rxvars
<1>11. BatchOK'
  BY <1>1 DEF RxInv, BatchOK, rxvars
<1>12. FreeingOK'
  BY <1>1, <1>a, <1>b DEF RxInv, FreeingOK
<1>13. \A c \in Buf : CountOK(c)'
  <2>1. CASE refcnt[b] = 1
    <3>1. mbufs'[b] = 0 /\ Cardinality(Decs(b)) = 0
      BY <2>1, <1>2, <1>3
    <3>2. Decs(b) = {}
      BY <3>1, <1>3, FS_EmptySet
    <3>3. Decs(b)' = {} /\ Descs(b)' = {t} /\ ~InBatch(b)' /\ refcnt'[b] = 1
      BY <2>1, <3>2, <1>1, <1>3, <1>5, <1>7, <1>p
    <3> QED
      BY <3>1, <3>3, <1>1, <1>2, <1>6, <1>7, CountFrame DEF RxInv, CountOK
  <2>2. CASE refcnt[b] # 1
    <3>1. Decs(b)' = Decs(b) \cup {t} /\ Descs(b)' = {} /\ ~InBatch(b)'
      BY <2>2, <1>3, <1>5, <1>7, <1>p
    <3>2. Cardinality(Decs(b)') = Cardinality(Decs(b)) + 1
      BY <3>1, <1>3, <1>4, FS_AddElement
    <3>3. refcnt'[b] = mbufs'[b] + Cardinality(Decs(b)')
      BY <1>1, <1>2, <1>3, <3>2
    <3>4. CountOK(b)'
      BY <3>1, <3>3 DEF CountOK
    <3> QED
      BY <3>4, <1>1, <1>2, <1>6, <1>7, CountFrame DEF RxInv
  <2> QED
    BY <2>1, <2>2
<1>14. NoUseAfterFree' /\ GivenBackOK' /\ ContextsKept'
  BY <1>1, <1>9, <1>a, <1>b, FreeingFrame
<1>15. LostOnlyByRace'
  BY <1>1, <1>9 DEF RxInv, LostOnlyByRace
<1> QED
  BY <1>10, <1>11, <1>12, <1>13, <1>14, <1>15 DEF RxInv

\* The thread that takes the count to 0 releases the buffer; after any other
\* decrement somebody still refers to it.
LEMMA FreeDecrementsStep ==
  ASSUME RxInv, NEW t \in Threads, FreeDecrements(t)
  PROVE  RxInv'
<1>b. PICK b : b = freeing[t].base
  OBVIOUS
<1>p. PICK p : p = IF refcnt[b] = 1 THEN "desc" ELSE "out"
  OBVIOUS
<1>1. /\ fpc[t] = "dec" /\ refcnt' = [refcnt EXCEPT ![b] = refcnt[b] - 1]
      /\ fpc' = [fpc EXCEPT ![t] = p]
      /\ UNCHANGED <<zone, rxvars, nic, arg2, mbufs, freeing, truncated>>
  BY <1>b, <1>p DEF FreeDecrements
<1>2. /\ b \in Buf /\ t \in Decs(b)
      /\ p \in {"desc", "out"} /\ p # "ctx"
  BY <1>b, <1>p, <1>1 DEF RxInv, FreeingOK, Decs
<1>3. /\ ~InBatch(b) /\ Descs(b) = {}
      /\ refcnt[b] = mbufs[b] + Cardinality(Decs(b))
      /\ Cardinality(Decs(b)) \in Nat /\ IsFiniteSet(Decs(b))
      /\ mbufs[b] \in Nat
  BY <1>2, DecsFinite DEF RxInv, CountOK, TypeOK
<1>4. Cardinality(Decs(b)) >= 1
  <2>1. Cardinality(Decs(b)) # 0
    BY <1>2, <1>3, FS_EmptySet
  <2> QED
    BY <1>3, <2>1
<1>5. \A c : /\ Decs(c)' = Decs(c) \ {t}
             /\ Descs(c)' = IF p = "desc" /\ b = c THEN Descs(c) \cup {t} ELSE Descs(c) \ {t}
  <2>1. /\ fpc'[t] = p /\ freeing'[t].base = b
        /\ \A u \in Threads \ {t} : fpc'[u] = fpc[u] /\ freeing'[u] = freeing[u]
    BY <1>b, <1>1 DEF RxInv, TypeOK
  <2> QED
    BY <1>2, <2>1, ThreadMoves
<1>6. \A c \in Buf \ {b} : Decs(c)' = Decs(c) /\ Descs(c)' = Descs(c) /\ refcnt'[c] = refcnt[c]
  <2>1. \A c \in Buf \ {b} : t \notin Decs(c) /\ t \notin Descs(c)
    BY <1>b DEF Decs, Descs
  <2>2. \A c \in Buf \ {b} : refcnt'[c] = refcnt[c]
    BY <1>1 DEF RxInv, TypeOK
  <2> QED
    BY <1>5, <2>1, <2>2
<1>7. \A c : InBatch(c)' <=> InBatch(c)
  BY <1>1, BatchFrame DEF BatchSame
<1>8. /\ refcnt'[b] = refcnt[b] - 1 /\ mbufs'[b] = mbufs[b]
      /\ Cardinality(Decs(b)') = Cardinality(Decs(b)) - 1
  <2>1. Cardinality(Decs(b) \ {t}) = Cardinality(Decs(b)) - 1
    BY <1>2, <1>3, FS_RemoveElement
  <2> QED
    BY <1>1, <1>2, <1>5, <2>1 DEF RxInv, TypeOK
<1>9. refcnt[b] = 1 => /\ mbufs'[b] = 0 /\ Decs(b)' = {} /\ Descs(b)' = {t} /\ refcnt'[b] = 0
  <2> SUFFICES ASSUME refcnt[b] = 1
               PROVE  /\ mbufs'[b] = 0 /\ Decs(b)' = {} /\ Descs(b)' = {t} /\ refcnt'[b] = 0
    OBVIOUS
  <2>1. mbufs[b] = 0 /\ Cardinality(Decs(b)') = 0 /\ refcnt'[b] = 0
    BY <1>3, <1>4, <1>8
  <2>2. IsFiniteSet(Decs(b)')
    BY <1>3, <1>5, FS_RemoveElement
  <2>3. Decs(b)' = {}
    BY <2>1, <2>2, FS_EmptySet
  <2> QED
    BY <2>1, <2>3, <1>3, <1>5, <1>8, <1>p
<1>10. refcnt[b] # 1 => /\ mbufs'[b] > 0 \/ Decs(b)' # {}
                        /\ Descs(b)' = {}
                        /\ refcnt'[b] = mbufs'[b] + Cardinality(Decs(b)')
  <2> SUFFICES ASSUME refcnt[b] # 1
               PROVE  /\ mbufs'[b] > 0 \/ Decs(b)' # {}
                      /\ Descs(b)' = {}
                      /\ refcnt'[b] = mbufs'[b] + Cardinality(Decs(b)')
    OBVIOUS
  <2>1. refcnt'[b] = mbufs'[b] + Cardinality(Decs(b)')
    BY <1>3, <1>4, <1>8
  <2>2. mbufs'[b] > 0 \/ Cardinality(Decs(b)') # 0
    BY <1>3, <1>4, <1>8
  <2>3. Descs(b)' = {}
    BY <1>3, <1>5, <1>p
  <2> QED
    BY <2>1, <2>2, <2>3, FS_EmptySet
<1>11. \A c \in Buf : InUse(c)' <=> InUse(c)
  <2>1. \A c : InUse(c)' <=> InBatch(c)' \/ mbufs'[c] > 0 \/ Decs(c)' # {} \/ Descs(c)' # {}
    BY DEF InUse, Decs, Descs
  <2>2. InUse(b) /\ InUse(b)'
    BY <2>1, <1>2, <1>9, <1>10, InUseMeans
  <2>3. \A c \in Buf \ {b} : InUse(c)' <=> InUse(c)
    BY <2>1, <1>1, <1>6, <1>7, InUseMeans
  <2> QED
    BY <2>2, <2>3
<1>12. TypeOK'
  <2>1. refcnt[b] - 1 \in 0 .. UINT16_MAX
    <3>1. refcnt[b] \in 0 .. UINT16_MAX
      BY <1>2 DEF RxInv, TypeOK
    <3>2. refcnt[b] >= 1
      BY <1>3, <1>4
    <3> QED
      BY <3>1, <3>2, CountLimit
  <2>2. refcnt' \in [Buf -> 0 .. UINT16_MAX]
    BY <1>1, <2>1 DEF RxInv, TypeOK
  <2>3. fpc' \in [Threads -> FreePlaces]
    BY <1>1, <1>2 DEF RxInv, TypeOK, FreePlaces
  <2> QED
    BY <1>1, <2>2, <2>3 DEF RxInv, TypeOK, rxvars
<1>13. BatchOK'
  BY <1>1 DEF RxInv, BatchOK, rxvars
<1>14. FreeingOK'
  <2>1. \A u \in Threads : fpc'[u] = IF u = t THEN p ELSE fpc[u]
    BY <1>1 DEF RxInv, TypeOK
  <2> QED
    BY <2>1, <1>1 DEF RxInv, FreeingOK
<1>15. \A c \in Buf : CountOK(c)'
  <2>1. CountOK(b)'
    <3>1. CASE refcnt[b] = 1
      BY <3>1, <1>3, <1>7, <1>9 DEF CountOK
    <3>2. CASE refcnt[b] # 1
      BY <3>2, <1>3, <1>7, <1>10 DEF CountOK
    <3> QED
      BY <3>1, <3>2
  <2>2. \A c \in Buf \ {b} : CountOK(c)'
    BY <1>1, <1>6, <1>7, CountFrame DEF RxInv
  <2> QED
    BY <2>1, <2>2
<1>16. NoUseAfterFree' /\ GivenBackOK' /\ ContextsKept'
  BY <1>1, <1>2, <1>11, FreeingFrame
<1>17. LostOnlyByRace'
  BY <1>1, <1>2, <1>6, <1>11, InUseMeans DEF RxInv, LostOnlyByRace
<1> QED
  BY <1>12, <1>13, <1>14, <1>15, <1>16, <1>17 DEF RxInv

\* The buffer that is released is nobody's; its context is the thread's.
LEMMA FreeDescStep ==
  ASSUME RxInv, NEW t \in Threads, FreeDesc(t)
  PROVE  RxInv'
<1>b. PICK b : b = freeing[t].base
  OBVIOUS
<1>1. /\ fpc[t] = "desc" /\ refcnt' = [refcnt EXCEPT ![b] = Lowered(refcnt[b])]
      /\ nic' = IF Lowered(refcnt[b]) = 0 THEN nic \cup {b} ELSE nic
      /\ fpc' = [fpc EXCEPT ![t] = "ctx"]
      /\ UNCHANGED <<zone, rxvars, arg2, mbufs, freeing, truncated>>
  BY <1>b DEF FreeDesc, DescFreed
<1>2. b \in Buf /\ t \in Descs(b) /\ freeing[t].ctx = arg2[b]
  BY <1>b, <1>1 DEF RxInv, FreeingOK, Descs
<1>3. /\ ~InBatch(b) /\ ~(mbufs[b] > 0) /\ Decs(b) = {} /\ Descs(b) = {t}
      /\ refcnt[b] \in {0, 1}
  BY <1>2 DEF RxInv, CountOK
<1>4. \A c : /\ Decs(c)' = Decs(c) \ {t} /\ Descs(c)' = Descs(c) \ {t}
  <2>1. /\ fpc'[t] = "ctx"
        /\ \A u \in Threads \ {t} : fpc'[u] = fpc[u] /\ freeing'[u] = freeing[u]
    BY <1>1 DEF RxInv, TypeOK
  <2> QED
    BY <2>1, ThreadMoves
<1>5. \A c \in Buf \ {b} : Decs(c)' = Decs(c) /\ Descs(c)' = Descs(c) /\ refcnt'[c] = refcnt[c]
  <2>1. \A c \in Buf \ {b} : t \notin Decs(c) /\ t \notin Descs(c)
    BY <1>b DEF Decs, Descs
  <2>2. \A c \in Buf \ {b} : refcnt'[c] = refcnt[c]
    BY <1>1 DEF RxInv, TypeOK
  <2> QED
    BY <1>4, <2>1, <2>2
<1>6. (\A c : InBatch(c)' <=> InBatch(c)) /\ Listed' = Listed
  BY <1>1, BatchFrame DEF BatchSame
<1>7. \A c : InUse(c)' <=> InBatch(c)' \/ mbufs'[c] > 0 \/ Decs(c)' # {} \/ Descs(c)' # {}
  BY DEF InUse, Decs, Descs
<1>8. InUse(b) /\ ~InUse(b)'
  BY <1>1, <1>2, <1>3, <1>4, <1>6, <1>7, InUseMeans
<1>9. \A c \in Buf \ {b} : InUse(c)' <=> InUse(c)
  BY <1>1, <1>5, <1>6, <1>7, InUseMeans
<1>10. /\ fpc'[t] = "ctx"
       /\ \A u \in Threads \ {t} : fpc'[u] = fpc[u]
  BY <1>1 DEF RxInv, TypeOK
<1>11. Lowered(refcnt[b]) = IF refcnt[b] = 1 THEN 0 ELSE UINT16_MAX
  BY <1>3 DEF Lowered
<1>12. TypeOK'
  <2>1. Lowered(refcnt[b]) \in 0 .. UINT16_MAX
    BY <1>11, CountLimit
  <2>2. refcnt' \in [Buf -> 0 .. UINT16_MAX]
    BY <1>1, <2>1 DEF RxInv, TypeOK
  <2>3. fpc' \in [Threads -> FreePlaces]
    BY <1>1 DEF RxInv, TypeOK, FreePlaces
  <2>4. nic' \subseteq Buf
    BY <1>1, <1>2 DEF RxInv, TypeOK
  <2> QED
    BY <1>1, <2>2, <2>3, <2>4 DEF RxInv, TypeOK, rxvars
<1>13. BatchOK' /\ FreeingOK'
  BY <1>1, <1>10 DEF RxInv, BatchOK, FreeingOK, rxvars
<1>14. \A c \in Buf : CountOK(c)'
  <2>1. CountOK(b)'
    BY <1>1, <1>3, <1>4, <1>6 DEF CountOK
  <2>2. \A c \in Buf \ {b} : CountOK(c)'
    BY <1>1, <1>5, <1>6, CountFrame DEF RxInv
  <2> QED
    BY <2>1, <2>2
<1>15. NoUseAfterFree'
  BY <1>1, <1>6, <1>8, <1>9 DEF RxInv, NoUseAfterFree
<1>16. arg2[b] \in Ctx \ (zone \cup Listed)
  BY <1>2, <1>8 DEF RxInv, NoUseAfterFree
<1>17. \A c \in Buf : InUse(c)' => arg2[c] # arg2[b]
  BY <1>2, <1>8, <1>9 DEF RxInv, ContextsKept
<1>18. \A u \in Threads \ {t} : fpc[u] = "ctx" => freeing[u].ctx # arg2[b]
  BY <1>2, <1>8 DEF RxInv, GivenBackOK
<1>19. GivenBackOK'
  <2>1. \A u \in Threads : fpc'[u] = "ctx" =>
              /\ freeing'[u].ctx \in Ctx \ (zone' \cup Listed')
              /\ \A c \in Buf : InUse(c)' => arg2'[c] # freeing'[u].ctx
    <3> SUFFICES ASSUME NEW u \in Threads, fpc'[u] = "ctx"
                 PROVE  /\ freeing[u].ctx \in Ctx \ (zone \cup Listed)
                        /\ \A c \in Buf : InUse(c)' => arg2[c] # freeing[u].ctx
      BY <1>1, <1>6
    <3>1. CASE u = t
      BY <3>1, <1>2, <1>16, <1>17
    <3>2. CASE u # t
      <4>1. fpc[u] = "ctx"
        BY <3>2, <1>10
      <4> QED
        BY <4>1, <1>8, <1>9 DEF RxInv, GivenBackOK
    <3> QED
      BY <3>1, <3>2
  <2>2. \A u, v \in Threads :
          fpc'[u] = "ctx" /\ fpc'[v] = "ctx" /\ freeing'[u].ctx = freeing'[v].ctx => u = v
    BY <1>1, <1>2, <1>10, <1>18 DEF RxInv, GivenBackOK
  <2> QED
    BY <2>1, <2>2 DEF GivenBackOK
<1>20. ContextsKept'
  <2>1. Ctx = zone \cup Listed
                \cup {arg2[c] : c \in {x \in Buf : InUse(x)'}}
                \cup {freeing[u].ctx : u \in {v \in Threads : fpc'[v] = "ctx"}}
    <3> DEFINE A == {arg2[c] : c \in {x \in Buf : InUse(x)}}
               F == {freeing[u].ctx : u \in {v \in Threads : fpc[v] = "ctx"}}
               A1 == {arg2[c] : c \in {x \in Buf : InUse(x)'}}
               F1 == {freeing[u].ctx : u \in {v \in Threads : fpc'[v] = "ctx"}}
    <3>1. A = A1 \cup {arg2[b]}
      BY <1>2, <1>8, <1>9
    <3>2. F1 = F \cup {arg2[b]}
      BY <1>1, <1>2, <1>10
    <3>3. Ctx = zone \cup Listed \cup A \cup F
      BY DEF RxInv, ContextsKept
    <3> QED
      BY <3>1, <3>2, <3>3
  <2>2. \A a, c \in Buf : InUse(a)' /\ InUse(c)' /\ arg2[a] = arg2[c] => a = c
    BY <1>8, <1>9 DEF RxInv, ContextsKept
  <2> QED
    BY <1>1, <1>6, <2>1, <2>2 DEF RxInv, ContextsKept, rxvars
<1>21. LostOnlyByRace'
  <2>1. b \in nic' \/ refcnt'[b] = UINT16_MAX
    BY <1>1, <1>2, <1>11 DEF RxInv, TypeOK
  <2>2. \A c \in Buf \ {b} :
          c \in nic' \/ InUse(c)' \/ c \in truncated' \/ refcnt'[c] = UINT16_MAX
    BY <1>1, <1>5, <1>9 DEF RxInv, LostOnlyByRace
  <2> QED
    BY <2>1, <2>2 DEF LostOnlyByRace
<1> QED
  BY <1>12, <1>13, <1>14, <1>15, <1>19, <1>20, <1>21 DEF RxInv

\* The context goes back to the zone, and is nobody else's.
LEMMA FreeCtxStep ==
  ASSUME RxInv, NEW t \in Threads, FreeCtx(t)
  PROVE  RxInv'
<1>k. PICK k : k = freeing[t].ctx
  OBVIOUS
<1>1. /\ fpc[t] = "ctx" /\ zone' = zone \cup {k} /\ fpc' = [fpc EXCEPT ![t] = "out"]
      /\ UNCHANGED <<rxvars, nic, arg2, refcnt, mbufs, freeing, truncated>>
  BY <1>k DEF FreeCtx, CtxGivenBack
<1>2. /\ fpc'[t] = "out"
      /\ \A u \in Threads \ {t} : fpc'[u] = fpc[u]
  BY <1>1 DEF RxInv, TypeOK
<1>3. /\ k \in Ctx \ (zone \cup Listed)
      /\ \A b \in Buf : InUse(b) => arg2[b] # k
      /\ \A u \in Threads \ {t} : fpc[u] = "ctx" => freeing[u].ctx # k
  BY <1>k, <1>1 DEF RxInv, GivenBackOK
<1>4. \A c : Decs(c)' = Decs(c) /\ Descs(c)' = Descs(c)
  BY <1>1, <1>2 DEF Decs, Descs
<1>5. (\A c : InBatch(c)' <=> InBatch(c)) /\ Listed' = Listed
  BY <1>1, BatchFrame DEF BatchSame
<1>6. \A c : InUse(c)' <=> InUse(c)
  <2>1. \A c : InUse(c)' <=> InBatch(c)' \/ mbufs'[c] > 0 \/ Decs(c)' # {} \/ Descs(c)' # {}
    BY DEF InUse, Decs, Descs
  <2> QED
    BY <2>1, <1>1, <1>4, <1>5, InUseMeans
<1>7. TypeOK'
  BY <1>1, <1>3 DEF RxInv, TypeOK, FreePlaces, rxvars
<1>8. BatchOK' /\ FreeingOK'
  BY <1>1, <1>2 DEF RxInv, BatchOK, FreeingOK, rxvars
<1>9. \A c \in Buf : CountOK(c)'
  BY <1>1, <1>4, <1>5, CountFrame DEF RxInv
<1>10. NoUseAfterFree'
  BY <1>1, <1>3, <1>5, <1>6 DEF RxInv, NoUseAfterFree
<1>11. GivenBackOK'
  <2>1. \A u \in Threads : fpc'[u] = "ctx" => u # t /\ fpc[u] = "ctx"
    BY <1>2
  <2>2. \A u \in Threads : fpc'[u] = "ctx" =>
              /\ freeing[u].ctx \in Ctx \ (zone' \cup Listed)
              /\ \A c \in Buf : InUse(c)' => arg2[c] # freeing[u].ctx
    BY <2>1, <1>1, <1>3, <1>6 DEF RxInv, GivenBackOK
  <2>3. \A u, v \in Threads :
          fpc'[u] = "ctx" /\ fpc'[v] = "ctx" /\ freeing[u].ctx = freeing[v].ctx => u = v
    BY <2>1 DEF RxInv, GivenBackOK
  <2> QED
    BY <2>2, <2>3, <1>1, <1>5 DEF GivenBackOK
<1>12. ContextsKept'
  <2> DEFINE A == {arg2[c] : c \in {x \in Buf : InUse(x)}}
             F == {freeing[u].ctx : u \in {v \in Threads : fpc[v] = "ctx"}}
             A1 == {arg2[c] : c \in {x \in Buf : InUse(x)'}}
             F1 == {freeing[u].ctx : u \in {v \in Threads : fpc'[v] = "ctx"}}
  <2>1. A1 = A
    BY <1>6
  <2>2. F = F1 \cup {k}
    BY <1>k, <1>1, <1>2
  <2>3. Ctx = zone \cup Listed \cup A \cup F
    BY DEF RxInv, ContextsKept
  <2>4. Ctx = zone' \cup Listed \cup A1 \cup F1
    BY <1>1, <2>1, <2>2, <2>3
  <2>5. zone' \cap Listed = {}
    BY <1>1, <1>3 DEF RxInv, ContextsKept
  <2> QED
    BY <1>1, <1>5, <1>6, <2>4, <2>5 DEF RxInv, ContextsKept, rxvars
<1>13. LostOnlyByRace'
  BY <1>1, <1>6 DEF RxInv, LostOnlyByRace
<1> QED
  BY <1>7, <1>8, <1>9, <1>10, <1>11, <1>12, <1>13 DEF RxInv

----------------------------------------------------------------------------
(* The theorems *)

\* Everything is free to begin with.
LEMMA InitRx == Init => RxInv
<1> SUFFICES ASSUME Init PROVE RxInv
  OBVIOUS
<1>1. TypeOK
  <2>1. /\ rx_pds \in Seq(Ctx) /\ descs \in Seq(Buf)
        /\ Len(rx_pds) = 0 /\ Len(descs) = 0 /\ delivered \in 0 .. Len(descs)
        /\ Len(rx_pds) <= BatchSize /\ Len(descs) <= Len(rx_pds)
    BY RxBuffersAssumption, EmptySeq DEF Init
  <2>2. refcnt \in [Buf -> 0 .. UINT16_MAX] /\ mbufs \in [Buf -> 0 .. MaxMbufs]
    BY RxBuffersAssumption, CountLimit DEF Init
  <2> QED
    BY <2>1, <2>2 DEF Init, TypeOK, RxPlaces, FreePlaces
<1>2. /\ Len(descs) = 0 /\ Len(rx_pds) = 0
      /\ \A b : ~InBatch(b) /\ Decs(b) = {} /\ Descs(b) = {}
  BY DEF Init, InBatch, Decs, Descs
<1>3. \A b \in Buf : ~InUse(b) /\ ~(mbufs[b] > 0)
  BY <1>2, InUseMeans DEF Init
<1>4. Listed = {}
  BY <1>2 DEF Listed
<1>5. BatchOK /\ FreeingOK
  BY <1>2 DEF Init, BatchOK, FreeingOK
<1>6. \A b \in Buf : CountOK(b)
  BY <1>2, <1>3 DEF CountOK
<1>7. NoUseAfterFree /\ GivenBackOK /\ LostOnlyByRace
  BY <1>3 DEF Init, NoUseAfterFree, GivenBackOK, LostOnlyByRace
<1>8. ContextsKept
  <2>1. {arg2[b] : b \in {x \in Buf : InUse(x)}} = {}
    BY <1>3
  <2>2. {freeing[t].ctx : t \in {u \in Threads : fpc[u] = "ctx"}} = {}
    BY DEF Init
  <2>3. DOMAIN rx_pds = {}
    BY DEF Init
  <2> QED
    BY <1>3, <1>4, <2>1, <2>2, <2>3 DEF Init, ContextsKept
<1> QED
  BY <1>1, <1>5, <1>6, <1>7, <1>8 DEF RxInv

\* Every step keeps the invariant.
LEMMA NextRx == RxInv /\ [Next]_vars => RxInv'
<1> SUFFICES ASSUME RxInv, [Next]_vars PROVE RxInv'
  OBVIOUS
<1>1. CASE RxNext
  BY <1>1, TopUpStep, ReceiveStep, DeliverStep, FinishBatchStep DEF RxNext
<1>2. CASE \E b \in Buf : Share(b)
  BY <1>2, ShareStep
<1>3. CASE \E t \in Threads : FreeNext(t)
  BY <1>3, FreeReadsStep, FreeDecrementsStep, FreeDescStep, FreeCtxStep DEF FreeNext
<1>4. CASE UNCHANGED vars
  <2>1. UNCHANGED <<zone, rx_pds, descs, delivered, rxpc, nic, arg2, refcnt, mbufs, freeing,
                    fpc, truncated>>
    BY <1>4 DEF vars, rxvars, freevars
  <2>2. \A b : /\ InBatch(b)' <=> InBatch(b)
               /\ Decs(b)' = Decs(b) /\ Descs(b)' = Descs(b) /\ (InUse(b)' <=> InUse(b))
    BY <2>1 DEF InBatch, Decs, Descs, InUse
  <2>3. Listed' = Listed
    BY <2>1 DEF Listed
  <2>4. TypeOK' /\ BatchOK' /\ FreeingOK'
    BY <2>1 DEF RxInv, TypeOK, BatchOK, FreeingOK
  <2>5. \A b \in Buf : CountOK(b)'
    BY <2>1, <2>2, CountFrame DEF RxInv
  <2>6. NoUseAfterFree' /\ GivenBackOK' /\ ContextsKept'
    <3>1. \A i, j \in DOMAIN rx_pds' : rx_pds'[i] = rx_pds'[j] => i = j
      BY <2>1 DEF RxInv, ContextsKept
    <3> QED
      BY <2>1, <2>2, <2>3, <3>1, ContextFrame
  <2>7. LostOnlyByRace'
    BY <2>1, <2>2 DEF RxInv, LostOnlyByRace
  <2> QED
    BY <2>4, <2>5, <2>6, <2>7 DEF RxInv
<1> QED
  BY <1>1, <1>2, <1>3, <1>4 DEF Next

\* The inductive invariant holds in every state.
LEMMA RxInvariant == Spec => []RxInv
BY InitRx, NextRx, PTL DEF Spec

\* Types, and the descriptor list of if_dpdk_batch_receive never outgrows the
\* rx_batch_size entries it was allocated with.
THEOREM RxBuffersTypeCorrect == Spec => []TypeOK
<1>1. RxInv => TypeOK
  BY DEF RxInv
<1> QED
  BY RxInvariant, <1>1, PTL

\* However the releases of shared mbufs interleave in mb_free_ext, a buffer that
\* is referred to is not with the NIC and its context is not handed out.
THEOREM RxNoUseAfterFree == Spec => []NoUseAfterFree
<1>1. RxInv => NoUseAfterFree
  BY DEF RxInv
<1> QED
  BY RxInvariant, <1>1, PTL

\* No packet context is lost and none handed out twice.
THEOREM RxContextsKept == Spec => []ContextsKept
<1>1. RxInv => ContextsKept
  BY DEF RxInv
<1> QED
  BY RxInvariant, <1>1, PTL

\* A NIC buffer is lost only to a burst without a context for it, or to the race
\* of the last two releases.
THEOREM RxLostOnlyByRace == Spec => []LostOnlyByRace
<1>1. RxInv => LostOnlyByRace
  BY DEF RxInv
<1> QED
  BY RxInvariant, <1>1, PTL
=============================================================================

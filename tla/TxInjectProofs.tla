--------------------------- MODULE TxInjectProofs ---------------------------
(***************************************************************************)
(* Proofs about the transmit injection queue, for every ring size, burst   *)
(* size, set of descriptors and set of producers.                          *)
(***************************************************************************)
EXTENDS TxInject, SequenceTheorems, TLAPS

-----------------------------------------------------------------------------
(* Ring arithmetic (uinet_pkt_desc.h) *)

\* The ring has at least one slot: uinet_pd_ring_alloc sees to it.
LEMMA RingSize == N \in Nat \ {0}
BY TxInjectAssumption DEF N, ring_alloc

\* Distances and positions stay within the ring, and uinet_pd_ring_space is
\* what the filled part leaves of all slots but one.
LEMMA RingRange ==
    ASSUME NEW n \in Nat \ {0}, NEW x \in 0 .. n - 1, NEW y \in 0 .. n - 1,
           NEW k \in 0 .. n - 1
    PROVE  /\ ring_distance(n, x, y) \in 0 .. n - 1
           /\ ring_advance(n, x, k) \in 0 .. n - 1
           /\ ring_distance(n, x, ring_advance(n, x, k)) = k
           /\ ring_space(n, y, x) = n - 1 - ring_distance(n, x, y)
           /\ (ring_distance(n, x, y) = 0) <=> (x = y)
BY DEF ring_distance, ring_advance, ring_space

\* uinet_pd_ring_next moves one slot towards any other slot.
LEMMA RingNext ==
    ASSUME NEW n \in Nat \ {0}, NEW x \in 0 .. n - 1, NEW y \in 0 .. n - 1
    PROVE  /\ ring_next(n, x) \in 0 .. n - 1
           /\ x # y => ring_distance(n, ring_next(n, x), y) = ring_distance(n, x, y) - 1
           /\ \A j \in Nat : j + 1 < n => ring_advance(n, ring_next(n, x), j) = ring_advance(n, x, j + 1)
           /\ ring_advance(n, x, 0) = x
BY DEF ring_distance, ring_advance, ring_next

\* Filling k slots from y, with room between y and x, lengthens the filled part
\* that begins at any slot z of it by k.
LEMMA RingFill ==
    ASSUME NEW n \in Nat \ {0}, NEW x \in 0 .. n - 1, NEW y \in 0 .. n - 1,
           NEW z \in 0 .. n - 1, NEW k \in Nat,
           k <= n - 1 - ring_distance(n, x, y),
           ring_distance(n, x, z) + ring_distance(n, z, y) = ring_distance(n, x, y)
    PROVE  /\ ring_advance(n, y, k) \in 0 .. n - 1
           /\ ring_distance(n, z, ring_advance(n, y, k)) = ring_distance(n, z, y) + k
           /\ ring_distance(n, x, ring_advance(n, y, k)) = ring_distance(n, x, y) + k
BY DEF ring_distance, ring_advance

\* The slots so filled are the k slots beyond the old ones, in order; the old
\* ones are not touched.
LEMMA RingFillSlots ==
    ASSUME NEW n \in Nat \ {0}, NEW y \in 0 .. n - 1,
           NEW z \in 0 .. n - 1, NEW k \in Nat, NEW j \in Nat,
           ring_distance(n, z, y) + k <= n - 1
    PROVE  /\ j < ring_distance(n, z, y) =>
                /\ ring_advance(n, z, j) \in 0 .. n - 1
                /\ ring_distance(n, y, ring_advance(n, z, j)) >= k
           /\ j >= ring_distance(n, z, y) /\ j < ring_distance(n, z, y) + k =>
                /\ ring_advance(n, z, j) \in 0 .. n - 1
                /\ ring_distance(n, y, ring_advance(n, z, j)) = j - ring_distance(n, z, y)
BY DEF ring_distance, ring_advance

-----------------------------------------------------------------------------
(* The inductive invariant *)

\* Number of slots from x to y.
D(x, y) == ring_distance(N, x, y)

\* The indices: the transmit side's own position lies between take and put, its
\* snapshot between its position and put, and take is up to date except between
\* the end of a pass and the next critical section.
IndexInv ==
    /\ D(take, FirstUnsent) + D(FirstUnsent, put) = D(take, put)
    /\ tx_use_thread /\ txpc # "enter" => cur_inject_take = take
    /\ txpc = "send" => D(local_take, local_put) <= D(local_take, put)
    /\ ~tx_use_thread => txpc \in {"enter", "send", "detached"}

\* Every slot not dealt with yet holds a descriptor.
ContentInv == \A j \in Nat : j < D(FirstUnsent, put) =>
                                 descs[ring_advance(N, FirstUnsent, j)] \in Pd

\* The pass-local state is empty between passes and bounded during one.
PassInv ==
    /\ txpc # "send" => pkts = <<>> /\ pdctx_to_free = <<>>
    /\ txpc \in {"enter", "wait"} => inject_drops = 0 /\ n_copy = 0
    /\ Len(pkts) < MaxBurst
    /\ Len(pdctx_to_free) <= D(take, FirstUnsent)

\* CountedOnce, in terms of the indices.
CountInv ==
    txpc \notin {"stopped", "detached"} =>
        uncounted = drops + inject_drops + n_copy + Len(pkts) + D(FirstUnsent, put)

\* No call since the thread last looked means nothing beyond what it saw; and
\* asleep and not signalled means no call.
WakeInv ==
    tx_use_thread =>
        /\ tx_pkts_to_send = 0 /\ txpc = "send" => local_put = put
        /\ tx_pkts_to_send = 0 /\ txpc \in {"enter", "wait"} => cur_inject_take = put
        /\ txpc = "wait" /\ ~signalled => tx_pkts_to_send = 0

TxInv == TypeOK /\ IndexInv /\ ContentInv /\ PassInv /\ CountInv /\ WakeInv

-----------------------------------------------------------------------------
(* It holds initially and every step preserves it *)

\* Distances between slots.
LEMMA SlotDistance ==
    \A x, y \in Slot : D(x, y) \in Nat /\ D(x, y) <= N - 1 /\ (D(x, y) = 0 <=> x = y)
BY RingSize, RingRange DEF D, Slot

LEMMA InitTxInv == Init => TxInv
<1> SUFFICES ASSUME Init PROVE TxInv
  OBVIOUS
<1>1. N \in Nat \ {0} /\ 0 \in Slot
  BY RingSize DEF Slot
<1>2. TypeOK
  <2>1. tx_use_thread \in BOOLEAN /\ tx_disabled \in BOOLEAN /\ signalled \in BOOLEAN
        /\ stop_req \in BOOLEAN /\ astray \in BOOLEAN
    BY Zenon DEF Init
  <2> QED
    BY <1>1, <2>1, TxInjectAssumption DEF Init, TypeOK
<1>3. FirstUnsent = 0 /\ D(take, FirstUnsent) = 0 /\ D(FirstUnsent, put) = 0 /\ D(take, put) = 0
  BY DEF Init, FirstUnsent, D, ring_distance
<1>4. IndexInv /\ ContentInv /\ CountInv /\ WakeInv
  BY <1>1, <1>3 DEF Init, IndexInv, ContentInv, CountInv, WakeInv
<1>5. PassInv
  BY <1>1, <1>3, TxInjectAssumption DEF Init, PassInv
<1> QED
  BY <1>2, <1>4, <1>5 DEF TxInv

\* Lists of descriptors are sequences of descriptors.
LEMMA PdListType == ASSUME NEW list \in PdLists PROVE list \in Seq(Pd) /\ Len(list) \in Nat
BY TxInjectAssumption DEF PdLists

\* Every index a step of the proof mentions is a slot.
LEMMA FirstUnsentType == TypeOK => FirstUnsent \in Slot
BY DEF TypeOK, FirstUnsent

\* if_dpdk_inject_tx_pkts on an enabled interface.
LEMMA InjectTxPktsStep ==
    ASSUME TxInv, NEW p \in Producer, NEW list \in PdLists, InjectTxPkts(p, list),
           astray' \in BOOLEAN
    PROVE  TxInv'
<1> DEFINE n == Accepted(list)
           F == FirstUnsent
<1> USE DEF TxInv
<1>1. N \in Nat \ {0} /\ Slot = 0 .. N - 1 /\ F \in Slot /\ put \in Slot /\ take \in Slot
  BY RingSize, FirstUnsentType DEF Slot, TypeOK
<1>2. list \in Seq(Pd) /\ Len(list) \in Nat
  BY PdListType
<1>3. ring_space(N, put, take) = N - 1 - D(take, put) /\ D(take, put) \in 0 .. N - 1
  BY <1>1, RingRange DEF D
<1>4. n \in Nat /\ n <= Len(list) /\ n <= N - 1 - D(take, put)
  BY <1>2, <1>3, <1>1 DEF Accepted
<1>5. D(take, F) + D(F, put) = D(take, put) /\ D(take, F) \in Nat /\ D(F, put) \in Nat
  BY <1>1, RingRange DEF IndexInv, D
<1>6. /\ put' = ring_advance(N, put, n)
      /\ take' = take /\ txpc' = txpc /\ cur_inject_take' = cur_inject_take
      /\ tx_use_thread' = tx_use_thread
      /\ local_take' = local_take /\ local_put' = local_put /\ pkts' = pkts
      /\ pdctx_to_free' = pdctx_to_free /\ inject_drops' = inject_drops /\ n_copy' = n_copy
      /\ drops' = drops + (Len(list) - n)
      /\ uncounted' = uncounted + Len(list)
      /\ descs' = [i \in Slot |-> IF ring_distance(N, put, i) < n
                                  THEN list[ring_distance(N, put, i) + 1] ELSE descs[i]]
  BY DEF InjectTxPkts, passVars
<1>7. F' = F
  BY <1>6 DEF FirstUnsent
<1>8. put' \in Slot /\ D(F, put)' = D(F, put) + n /\ D(take, put)' = D(take, put) + n
      /\ D(take, F)' = D(take, F)
  BY <1>1, <1>4, <1>5, <1>6, <1>7, RingFill DEF D
<1>9. descs' \in [Slot -> Pd \cup {NoPd}]
  <2> SUFFICES ASSUME NEW i \in Slot PROVE descs'[i] \in Pd \cup {NoPd}
    BY <1>6
  <2>1. ring_distance(N, put, i) \in Nat
    BY <1>1, RingRange
  <2>2. CASE ring_distance(N, put, i) < n
    BY <2>1, <2>2, <1>2, <1>4, <1>6
  <2>3. CASE ~(ring_distance(N, put, i) < n)
    BY <2>3, <1>6 DEF TypeOK
  <2> QED
    BY <2>2, <2>3
<1>10. TypeOK'
  <2>1. pc' \in [Producer -> {"idle", "drop"}]
    BY DEF InjectTxPkts, TypeOK
  <2>2. DropList(list, n) \in Seq(Pd)
    BY <1>2, <1>4 DEF DropList
  <2>3. to_drop' \in [Producer -> Seq(Pd)]
    BY <2>2 DEF InjectTxPkts, TypeOK
  <2>4. tx_pkts_to_send' \in Nat
    BY DEF InjectTxPkts, TypeOK, CallsPlusOne
  <2>7. signalled' \in BOOLEAN
    BY Zenon DEF InjectTxPkts, TypeOK
  <2>5. refs' \in SUBSET (Pd \ MgmtPd)
    BY <1>2 DEF InjectTxPkts, TypeOK, SeqRange, HasCtx
  <2>6. drops' \in Nat /\ uncounted' \in Nat
    BY <1>2, <1>4, <1>6 DEF TypeOK
  <2> QED
    BY <1>1, <1>6, <1>8, <1>9, <2>1, <2>3, <2>4, <2>5, <2>6, <2>7
       DEF InjectTxPkts, TypeOK, passVars
<1>11. IndexInv'
  <2>1. txpc = "send" => D(local_take, local_put)' = D(local_take, local_put)
                         /\ D(local_take, put)' = D(local_take, put) + n
                         /\ D(local_take, local_put) \in Nat /\ D(local_take, put) \in Nat
    <3> SUFFICES ASSUME txpc = "send" PROVE F = local_take /\ F' = local_take'
                        /\ D(local_take, local_put)' = D(local_take, local_put)
                        /\ D(local_take, local_put) \in Nat
      BY <1>5, <1>6, <1>7, <1>8
    <3>1. F = local_take /\ F' = local_take'
      BY <1>6 DEF FirstUnsent
    <3>2. D(local_take, local_put)' = D(local_take, local_put)
      BY <1>6 DEF D
    <3>3. D(local_take, local_put) \in Nat
      BY <1>1, RingRange DEF D, TypeOK
    <3> QED
      BY <3>1, <3>2, <3>3
  <2> QED
    BY <1>4, <1>5, <1>6, <1>7, <1>8, <2>1 DEF IndexInv
<1>12. ContentInv'
  <2> SUFFICES ASSUME NEW j \in Nat, j < D(F, put) + n
               PROVE  descs'[ring_advance(N, F, j)] \in Pd
    BY <1>7, <1>8 DEF ContentInv
  <2>1. D(F, put) + n <= N - 1
    BY <1>1, <1>3, <1>4, <1>5
  <2>2. CASE j < D(F, put)
    <3>1. ring_advance(N, F, j) \in Slot /\ ring_distance(N, put, ring_advance(N, F, j)) >= n
      BY <2>1, <2>2, <1>1, <1>4, RingFillSlots DEF D
    <3>2. ring_distance(N, put, ring_advance(N, F, j)) \in Nat
      BY <3>1, <1>1, RingRange
    <3> QED
      BY <3>1, <3>2, <2>2, <1>4, <1>6 DEF ContentInv
  <2>3. CASE j >= D(F, put)
    <3>1. ring_advance(N, F, j) \in Slot
          /\ ring_distance(N, put, ring_advance(N, F, j)) = j - D(F, put)
      BY <2>1, <2>3, <1>1, <1>4, RingFillSlots DEF D
    <3>2. descs'[ring_advance(N, F, j)] = list[j - D(F, put) + 1]
      BY <3>1, <1>5, <1>4, <1>6
    <3> QED
      BY <3>2, <2>3, <1>2, <1>4, <1>5
  <2> QED
    BY <2>2, <2>3, <1>5
<1>13. PassInv'
  BY <1>6, <1>8 DEF PassInv
<1>14. CountInv'
  <2>1. drops \in Nat /\ inject_drops \in Nat /\ n_copy \in Nat /\ Len(pkts) \in Nat
        /\ uncounted \in Nat /\ Len(pkts') = Len(pkts)
    BY <1>6 DEF TypeOK
  <2> SUFFICES ASSUME txpc \notin {"stopped", "detached"}
               PROVE  uncounted + Len(list) = drops + (Len(list) - n) + inject_drops + n_copy
                                              + Len(pkts) + (D(F, put) + n)
    BY <2>1, <1>6, <1>8 DEF CountInv
  <2>2. uncounted = drops + inject_drops + n_copy + Len(pkts) + D(F, put)
    BY DEF CountInv
  <2>3. \A u, d, i, c, l, k, q, m \in Nat :
          u = d + i + c + k + q => u + l = d + (l - m) + i + c + k + (q + m)
    OBVIOUS
  <2> HIDE DEF n, F
  <2> QED
    BY <2>1, <2>2, <2>3, <1>2, <1>4, <1>5
<1>15. WakeInv'
  <2> SUFFICES ASSUME tx_use_thread PROVE WakeInv'
    BY <1>6 DEF WakeInv
  <2>1. tx_pkts_to_send' = tx_pkts_to_send + 1 /\ tx_pkts_to_send \in Nat
    BY DEF InjectTxPkts, TypeOK, CallsPlusOne
  <2>2. tx_pkts_to_send' # 0 /\ (tx_pkts_to_send = 0 => tx_pkts_to_send' = 1)
    BY <2>1
  <2>3. txpc = "wait" /\ ~signalled => signalled'
    BY <2>2 DEF InjectTxPkts, WakeInv, MustSignal
  <2>4. signalled => signalled'
    BY DEF InjectTxPkts
  <2> QED
    BY <2>2, <2>3, <2>4, <1>6 DEF WakeInv
<1> QED
  BY <1>10, <1>11, <1>12, <1>13, <1>14, <1>15

\* A step that leaves the ring and the pass alone; detaching is one, since it
\* only follows the thread's stop, or there is no thread and no pass under way.
LEMMA RingUntouchedStep ==
    ASSUME TxInv, TypeOK',
           UNCHANGED <<ringVars, passVars, tx_use_thread, tx_pkts_to_send, signalled, cur_inject_take, uncounted>>,
           \/ txpc' = txpc
           \/ txpc = "stopped" /\ txpc' = "detached"
           \/ ~tx_use_thread /\ txpc = "enter" /\ txpc' = "detached"
    PROVE  TxInv'
<1> USE DEF TxInv
<1>1. FirstUnsent' = FirstUnsent
  BY DEF FirstUnsent, ringVars, passVars
<1>2. UNCHANGED <<D(take, FirstUnsent), D(FirstUnsent, put), D(take, put),
                  D(local_take, local_put), D(local_take, put)>>
  BY <1>1 DEF D, ringVars, passVars
<1>3. IndexInv' /\ PassInv' /\ WakeInv'
  BY <1>1, <1>2 DEF IndexInv, PassInv, WakeInv, ringVars, passVars
<1>4. ContentInv'
  BY <1>1, <1>2 DEF ContentInv, ringVars
<1>5. CountInv'
  BY <1>1, <1>2 DEF CountInv, ringVars, passVars
<1> QED
  BY <1>3, <1>4, <1>5

\* A snapshot: whoever takes it, from wherever the transmit side is.
LEMMA SnapshotStep ==
    ASSUME TxInv, NEW nextpc \in {"send", "stopped"},
           Snapshot(FirstUnsent, nextpc),
           nextpc = "stopped" => tx_use_thread,
           txpc \in {"enter", "wait"},
           tx_use_thread => cur_inject_take = FirstUnsent /\ tx_pkts_to_send' = 0,
           ~tx_use_thread => UNCHANGED tx_pkts_to_send,
           signalled' \in BOOLEAN, astray' \in BOOLEAN,
           UNCHANGED <<prodVars, tx_use_thread, tx_disabled, cur_inject_take, stop_req, refs, uncounted>>
    PROVE  TxInv'
<1> DEFINE F == FirstUnsent
<1> USE DEF TxInv
<1>1. N \in Nat \ {0} /\ Slot = 0 .. N - 1 /\ F \in Slot /\ put \in Slot /\ take \in Slot
  BY RingSize, FirstUnsentType DEF Slot, TypeOK
<1>2. /\ take' = F /\ local_take' = F /\ local_put' = put /\ put' = put /\ descs' = descs
      /\ inject_drops' = drops /\ drops' = 0 /\ n_copy' = 0
      /\ pkts' = <<>> /\ pdctx_to_free' = <<>> /\ txpc' = nextpc
      /\ cur_inject_take' = cur_inject_take
  BY DEF Snapshot, CollectDrops
<1>3. F' = F
  BY <1>2 DEF FirstUnsent
<1>4. D(take, F)' = 0 /\ D(F, put)' = D(F, put) /\ D(take, put)' = D(F, put)
      /\ D(local_take, local_put)' = D(F, put) /\ D(local_take, put)' = D(F, put)
  BY <1>1, <1>2, <1>3, RingRange DEF D
<1>5. D(F, put) \in Nat
  BY <1>1, RingRange DEF D
<1>6. TypeOK'
  <2>1. tx_pkts_to_send' \in Nat
    BY DEF TypeOK
  <2> QED
    BY <2>1, <1>1, <1>2 DEF TypeOK, prodVars
<1>7. IndexInv'
  BY <1>2, <1>3, <1>4, <1>5 DEF IndexInv
<1>8. ContentInv'
  BY <1>2, <1>3, <1>4 DEF ContentInv
<1>9. PassInv'
  BY <1>2, <1>4, TxInjectAssumption DEF PassInv
<1>10. CountInv'
  <2> SUFFICES ASSUME nextpc = "send"
               PROVE  uncounted = 0 + drops + 0 + 0 + D(F, put)
    BY <1>2, <1>4 DEF CountInv
  <2>1. uncounted = drops + 0 + 0 + 0 + D(F, put)
    BY DEF CountInv, PassInv
  <2>2. drops \in Nat
    BY DEF TypeOK
  <2> QED
    BY <2>1, <2>2, <1>5
<1>11. WakeInv'
  BY <1>2 DEF WakeInv
<1> QED
  BY <1>6, <1>7, <1>8, <1>9, <1>10, <1>11

LEMMA TxEnterStep == ASSUME TxInv, TxEnter, astray' \in BOOLEAN PROVE TxInv'
<1> USE DEF TxInv
<1>1. FirstUnsent = cur_inject_take /\ tx_use_thread /\ txpc = "enter"
  BY DEF TxEnter, FirstUnsent
<1>2. CASE tx_pkts_to_send # 0
  <2>1. Snapshot(FirstUnsent, "send") /\ tx_pkts_to_send' = 0 /\ signalled' = signalled
    BY <1>1, <1>2 DEF TxEnter
  <2>2. UNCHANGED <<prodVars, tx_use_thread, tx_disabled, cur_inject_take, stop_req, refs, uncounted>>
    BY DEF TxEnter
  <2>3. signalled' \in BOOLEAN
    BY <2>1 DEF TypeOK
  <2> QED
    BY <1>1, <2>1, <2>2, <2>3, SnapshotStep
<1>3. CASE tx_pkts_to_send = 0
  <2>1. N \in Nat \ {0} /\ Slot = 0 .. N - 1 /\ cur_inject_take \in Slot /\ put \in Slot
    BY RingSize DEF Slot, TypeOK
  <2>2. /\ take' = cur_inject_take /\ txpc' = "wait" /\ signalled' = FALSE
        /\ put' = put /\ descs' = descs /\ drops' = drops /\ tx_pkts_to_send' = 0
        /\ cur_inject_take' = cur_inject_take /\ uncounted' = uncounted
        /\ UNCHANGED <<passVars, tx_use_thread>>
    BY <1>3 DEF TxEnter
  <2>3. FirstUnsent' = FirstUnsent
    BY <2>2, <1>1 DEF FirstUnsent
  <2>4. D(take, FirstUnsent)' = 0 /\ D(FirstUnsent, put)' = D(FirstUnsent, put)
        /\ D(take, put)' = D(FirstUnsent, put) /\ D(FirstUnsent, put) \in Nat
    BY <1>1, <2>1, <2>2, <2>3, RingRange DEF D
  <2>5. TypeOK'
    BY <2>1, <2>2 DEF TxEnter, TypeOK, passVars, prodVars
  <2>6. IndexInv' /\ ContentInv'
    BY <1>1, <2>2, <2>3, <2>4 DEF IndexInv, ContentInv
  <2>7. PassInv'
    BY <1>1, <2>2, <2>4 DEF PassInv, passVars
  <2>8. CountInv'
    BY <1>1, <2>2, <2>4 DEF CountInv, passVars
  <2>9. WakeInv'
    BY <1>1, <1>3, <2>2 DEF WakeInv
  <2> QED
    BY <2>5, <2>6, <2>7, <2>8, <2>9
<1> QED
  BY <1>2, <1>3

\* Asleep, the thread's position is take.
LEMMA AsleepPosition == ASSUME TxInv, txpc = "wait"
                        PROVE  tx_use_thread /\ FirstUnsent = take /\ cur_inject_take = take
BY TxInjectAssumption DEF TxInv, IndexInv, FirstUnsent

LEMMA TxWakeupStep == ASSUME TxInv, TxWakeup, astray' \in BOOLEAN PROVE TxInv'
<1> USE DEF TxInv
<1>1. txpc = "wait" /\ tx_use_thread /\ FirstUnsent = take /\ cur_inject_take = take
  BY AsleepPosition DEF TxWakeup
<1>2. UNCHANGED <<prodVars, tx_use_thread, tx_disabled, cur_inject_take, stop_req, refs, uncounted>>
      /\ signalled' = FALSE
  BY DEF TxWakeup
<1>3. CASE tx_pkts_to_send # 0
  <2>1. Snapshot(FirstUnsent, "send") /\ tx_pkts_to_send' = 0
    BY <1>1, <1>3 DEF TxWakeup
  <2> QED
    BY <1>1, <1>2, <2>1, SnapshotStep
<1>4. CASE tx_pkts_to_send = 0
  <2>1. UNCHANGED <<ringVars, passVars, txpc, tx_pkts_to_send>>
    BY <1>4 DEF TxWakeup
  <2>2. UNCHANGED <<FirstUnsent, D(take, FirstUnsent), D(FirstUnsent, put), D(take, put)>>
    BY <1>2, <2>1 DEF D, FirstUnsent, ringVars, passVars
  <2>3. TypeOK'
    BY <1>2, <2>1 DEF TypeOK, ringVars, passVars, prodVars
  <2>4. IndexInv' /\ ContentInv' /\ PassInv'
    BY <1>1, <1>2, <2>1, <2>2 DEF IndexInv, ContentInv, PassInv, ringVars, passVars
  <2>5. CountInv'
    BY <1>1, <1>2, <2>1, <2>2 DEF CountInv, ringVars, passVars
  <2>6. WakeInv'
    BY <1>1, <1>2, <1>4, <2>1 DEF WakeInv, ringVars, passVars
  <2> QED
    BY <2>3, <2>4, <2>5, <2>6
<1> QED
  BY <1>3, <1>4

LEMMA TxStopStep == ASSUME TxInv, TxStop, astray' \in BOOLEAN PROVE TxInv'
<1>1. txpc = "wait" /\ tx_use_thread /\ FirstUnsent = take /\ cur_inject_take = take
  BY AsleepPosition DEF TxStop
<1>2. UNCHANGED <<prodVars, tx_use_thread, tx_disabled, cur_inject_take, stop_req, refs, uncounted>>
      /\ signalled' = FALSE /\ tx_pkts_to_send' = 0 /\ Snapshot(FirstUnsent, "stopped")
  BY <1>1 DEF TxStop
<1> QED
  BY <1>1, <1>2, SnapshotStep

LEMMA BatchSendStep == ASSUME TxInv, BatchSend, astray' \in BOOLEAN PROVE TxInv'
<1>1. txpc = "enter" /\ ~tx_use_thread /\ FirstUnsent = take
  BY DEF BatchSend, FirstUnsent
<1>2. UNCHANGED <<prodVars, tx_use_thread, tx_disabled, cur_inject_take, stop_req, refs, uncounted>>
      /\ UNCHANGED <<signalled, tx_pkts_to_send>> /\ Snapshot(FirstUnsent, "send")
  BY <1>1 DEF BatchSend
<1>3. signalled' \in BOOLEAN
  BY <1>2 DEF TxInv, TypeOK
<1> QED
  BY <1>1, <1>2, <1>3, SnapshotStep

\* One descriptor dealt with.
LEMMA SendOneStep == ASSUME TxInv, SendOne, astray' \in BOOLEAN PROVE TxInv'
<1> DEFINE pd == descs[local_take]
           burst == Append(pkts, pd)
<1> USE DEF TxInv
<1>1. N \in Nat \ {0} /\ Slot = 0 .. N - 1 /\ local_take \in Slot /\ put \in Slot
      /\ take \in Slot /\ local_put \in Slot
  BY RingSize DEF Slot, TypeOK
<1>2. txpc = "send" /\ local_take # local_put /\ FirstUnsent = local_take
  BY DEF SendOne, FirstUnsent
<1>3. /\ local_take' = ring_next(N, local_take)
      /\ txpc' = txpc /\ put' = put /\ take' = take /\ descs' = descs /\ drops' = drops
      /\ local_put' = local_put /\ cur_inject_take' = cur_inject_take
      /\ tx_pkts_to_send' = tx_pkts_to_send /\ signalled' = signalled
      /\ tx_use_thread' = tx_use_thread
  BY DEF SendOne, ringVars
<1>4. FirstUnsent' = local_take'
  BY <1>2, <1>3 DEF FirstUnsent
<1>5. /\ D(take, local_take) \in Nat /\ D(local_take, put) \in Nat
      /\ D(take, put) \in Nat /\ D(take, put) <= N - 1
      /\ D(local_take, local_put) \in Nat /\ D(local_take, local_put) # 0
  BY <1>1, <1>2, SlotDistance
<1>6. D(take, local_take) + D(local_take, put) = D(take, put)
      /\ D(local_take, local_put) <= D(local_take, put)
  BY <1>2 DEF IndexInv
<1>7. local_take # put
  <2>1. D(local_take, put) # 0
    BY <1>5, <1>6
  <2> QED
    BY <2>1, <1>1, SlotDistance
<1>8. /\ local_take' \in Slot
      /\ D(local_take, put)' = D(local_take, put) - 1
      /\ D(local_take, local_put)' = D(local_take, local_put) - 1
  BY <1>1, <1>2, <1>3, <1>7, RingNext DEF D
<1>9. D(take, put)' = D(take, put) /\ D(take, local_take)' = D(take, local_take) + 1
  <2>1. D(take, put)' = D(take, put)
    BY <1>3 DEF D
  <2>2. \A n \in Nat \ {0} : \A t, l, p \in 0 .. n - 1 :
          l # p /\ ring_distance(n, t, l) + ring_distance(n, l, p) = ring_distance(n, t, p)
            => ring_distance(n, t, ring_next(n, l)) = ring_distance(n, t, l) + 1
    BY DEF ring_distance, ring_next
  <2> QED
    BY <2>1, <2>2, <1>1, <1>3, <1>6, <1>7 DEF D
<1>10. pd \in Pd
  <2>1. ring_advance(N, local_take, 0) = local_take
    BY <1>1, RingNext
  <2>2. 0 < D(local_take, put)
    BY <1>5, <1>6
  <2> QED
    BY <2>1, <2>2, <1>2 DEF ContentInv
<1>11. IndexInv'
  BY <1>2, <1>3, <1>4, <1>5, <1>6, <1>8, <1>9 DEF IndexInv
<1>12. ContentInv'
  <2> SUFFICES ASSUME NEW j \in Nat, j < D(local_take, put) - 1
               PROVE  descs[ring_advance(N, ring_next(N, local_take), j)] \in Pd
    BY <1>3, <1>4, <1>8 DEF ContentInv
  <2>1. j + 1 < D(local_take, put) /\ j + 1 < N /\ j + 1 \in Nat
    BY <1>1, <1>5, <1>6
  <2>2. ring_advance(N, ring_next(N, local_take), j) = ring_advance(N, local_take, j + 1)
    BY <1>1, <2>1, RingNext
  <2> QED
    BY <2>1, <2>2, <1>2 DEF ContentInv
<1>13. WakeInv'
  BY <1>2, <1>3 DEF WakeInv
<1>14. CASE ~HasCtx(pd)
  <2>1. UNCHANGED <<pkts, pdctx_to_free, inject_drops, n_copy>> /\ uncounted' = uncounted - 1
    BY <1>14 DEF SendOne
  <2>2. uncounted = drops + inject_drops + n_copy + Len(pkts) + D(local_take, put)
    BY <1>2 DEF CountInv
  <2>3. drops \in Nat /\ inject_drops \in Nat /\ n_copy \in Nat /\ Len(pkts) \in Nat
        /\ Len(pdctx_to_free) \in Nat
    BY DEF TypeOK
  <2>4. D(local_take, put) - 1 \in Nat
    BY <1>5, <1>6
  <2>5. uncounted' \in Nat
        /\ uncounted' = drops + inject_drops + n_copy + Len(pkts) + (D(local_take, put) - 1)
    BY <2>1, <2>2, <2>3, <2>4, <1>5
  <2>6. TypeOK'
    BY <2>1, <2>5, <1>3, <1>8 DEF SendOne, TypeOK, prodVars
  <2>7. CountInv'
    BY <2>1, <2>5, <1>3, <1>4, <1>8 DEF CountInv
  <2>8. PassInv'
    <3>1. D(take, FirstUnsent)' = D(take, local_take) + 1
      BY <1>4, <1>9
    <3>2. Len(pdctx_to_free') <= D(take, FirstUnsent)'
      BY <2>1, <2>3, <3>1, <1>2, <1>5 DEF PassInv
    <3> QED
      BY <2>1, <3>2, <1>2, <1>3 DEF PassInv
  <2> QED
    BY <2>6, <2>7, <2>8, <1>11, <1>12, <1>13
<1>15. CASE HasCtx(pd)
  <2>1. uncounted' = uncounted /\ pdctx_to_free' = Append(pdctx_to_free, pd)
    BY <1>15 DEF SendOne
  <2>2. uncounted = drops + inject_drops + n_copy + Len(pkts) + D(local_take, put)
    BY <1>2 DEF CountInv
  <2>3. drops \in Nat /\ inject_drops \in Nat /\ n_copy \in Nat /\ Len(pkts) \in Nat
        /\ Len(pdctx_to_free) \in Nat /\ pkts \in Seq(Pd) /\ pdctx_to_free \in Seq(Pd)
        /\ MaxBurst \in Nat \ {0}
    BY TxInjectAssumption DEF TypeOK
  <2>4. burst \in Seq(Pd) /\ Len(burst) = Len(pkts) + 1 /\ pdctx_to_free' \in Seq(Pd)
        /\ Len(pdctx_to_free') = Len(pdctx_to_free) + 1
    BY <2>1, <2>3, <1>10
  <2>5. /\ inject_drops' \in Nat /\ n_copy' \in Nat /\ pkts' \in Seq(Pd)
        /\ Len(pkts') < MaxBurst
        /\ inject_drops' + n_copy' + Len(pkts') = inject_drops + n_copy + Len(pkts) + 1
    <3>1. CASE Len(burst) = MaxBurst
      <4>1. PICK n_snd \in 0 .. MaxBurst : inject_drops' = inject_drops + Len(burst) - n_snd
                                           /\ n_copy' = n_copy + n_snd /\ pkts' = <<>>
        BY <1>15, <3>1 DEF SendOne, BurstFull
      <4>2. Len(pkts') = 0 /\ pkts' \in Seq(Pd)
        BY <4>1
      <4> QED
        BY <4>1, <4>2, <3>1, <2>3, <2>4
    <3>2. CASE Len(burst) # MaxBurst
      <4>1. pkts' = burst /\ inject_drops' = inject_drops /\ n_copy' = n_copy
        BY <1>15, <3>2 DEF SendOne, BurstFull
      <4>2. Len(pkts) < MaxBurst
        BY DEF PassInv
      <4> QED
        BY <4>1, <4>2, <3>2, <2>3, <2>4
    <3> QED
      BY <3>1, <3>2
  <2>6. TypeOK'
    BY <2>1, <2>4, <2>5, <1>3, <1>8 DEF SendOne, TypeOK, prodVars
  <2>7. CountInv'
    <3> DEFINE q == D(local_take, put)
               new == inject_drops' + n_copy' + Len(pkts')
               old == inject_drops + n_copy + Len(pkts)
    <3>1. Len(pkts') \in Nat
      BY <2>5
    <3>2. new \in Nat /\ old \in Nat /\ q \in Nat /\ drops \in Nat /\ new = old + 1
      <4>1. old \in Nat /\ drops \in Nat
        BY <2>3
      <4>2. new \in Nat
        BY <2>5, <3>1
      <4>3. new = old + 1
        BY <2>5
      <4>4. q \in Nat
        BY <1>5
      <4> QED
        BY <4>1, <4>2, <4>3, <4>4
    <3>3. uncounted' = drops + old + q
      BY <2>1, <2>2, <2>3, <1>5
    <3>4. uncounted' = drops + new + (q - 1)
      <4> HIDE DEF new, old, q
      <4> QED
        BY <3>2, <3>3
    <3>5. uncounted' = drops + inject_drops' + n_copy' + Len(pkts') + (q - 1)
      <4> HIDE DEF q
      <4> QED
        BY <3>1, <3>2, <3>4, <2>5
    <3> QED
      BY <3>5, <1>3, <1>4, <1>8 DEF CountInv
  <2>8. PassInv'
    <3>1. PICK n \in Nat : n = D(take, local_take)
      BY <1>5
    <3>2. PICK m \in Nat : m = Len(pdctx_to_free)
      BY <2>3
    <3>3. m <= n
      BY <3>1, <3>2, <1>2 DEF PassInv
    <3>4. D(take, FirstUnsent)' = n + 1
      BY <3>1, <1>4, <1>9
    <3>5. Len(pdctx_to_free') <= D(take, FirstUnsent)'
      BY <2>4, <3>2, <3>3, <3>4
    <3> QED
      BY <2>5, <3>5, <1>2, <1>3 DEF PassInv
  <2> QED
    BY <2>6, <2>7, <2>8, <1>11, <1>12, <1>13
<1> QED
  BY <1>14, <1>15

\* The end of a pass.
LEMMA FinishPassStep == ASSUME TxInv, FinishPass, astray' \in BOOLEAN PROVE TxInv'
<1> USE DEF TxInv
<1>1. N \in Nat \ {0} /\ Slot = 0 .. N - 1 /\ local_take \in Slot /\ put \in Slot
      /\ take \in Slot
  BY RingSize DEF Slot, TypeOK
<1>2. txpc = "send" /\ local_take = local_put /\ FirstUnsent = local_take
  BY DEF FinishPass, FirstUnsent
<1>3. /\ put' = put /\ descs' = descs /\ drops' = drops /\ local_take' = local_take
      /\ local_put' = local_put /\ tx_pkts_to_send' = tx_pkts_to_send
      /\ pkts' = <<>> /\ pdctx_to_free' = <<>> /\ inject_drops' = 0 /\ n_copy' = 0
      /\ txpc' = "enter" /\ tx_use_thread' = tx_use_thread
      /\ tx_use_thread => cur_inject_take' = local_take /\ take' = take
      /\ ~tx_use_thread => take' = local_take /\ cur_inject_take' = cur_inject_take
  BY DEF FinishPass
<1>4. FirstUnsent' = local_take /\ take' \in Slot /\ cur_inject_take' \in Slot
  BY <1>1, <1>3, TxInjectAssumption DEF FirstUnsent, TypeOK
<1>5. D(take, local_take) + D(local_take, put) = D(take, put)
      /\ D(take, local_take) \in Nat /\ D(local_take, put) \in Nat
      /\ D(local_take, local_take) = 0
  BY <1>1, <1>2, RingRange DEF IndexInv, D
<1>6. /\ D(FirstUnsent, put)' = D(local_take, put)
      /\ tx_use_thread => D(take, FirstUnsent)' = D(take, local_take) /\ D(take, put)' = D(take, put)
      /\ ~tx_use_thread => D(take, FirstUnsent)' = 0 /\ D(take, put)' = D(local_take, put)
  BY <1>3, <1>4, <1>5 DEF D
<1>7. uncounted' \in Nat /\ uncounted' = drops + D(local_take, put)
  <2>1. drops \in Nat /\ inject_drops \in Nat /\ n_copy \in Nat /\ Len(pkts) \in Nat
    BY DEF TypeOK
  <2>2. uncounted = drops + inject_drops + n_copy + Len(pkts) + D(local_take, put)
    BY <1>2 DEF CountInv
  <2>3. PICK n_snd \in 0 .. Len(pkts) :
          uncounted' = uncounted - (inject_drops + Len(pkts) - n_snd) - (n_copy + n_snd)
    BY DEF FinishPass
  <2> DEFINE q == D(local_take, put)
             k == Len(pkts)
  <2>4. q \in Nat /\ k \in Nat /\ uncounted \in Nat /\ n_snd \in Nat
    BY <2>1, <2>3, <1>5 DEF TypeOK
  <2> HIDE DEF q, k
  <2>5. uncounted' = drops + q
    BY <2>1, <2>2, <2>3, <2>4 DEF q, k
  <2> QED
    BY <2>1, <2>4, <2>5 DEF q
<1>8. TypeOK'
  BY <1>3, <1>4, <1>7 DEF FinishPass, TypeOK, prodVars
<1>9. IndexInv' /\ ContentInv'
  BY <1>2, <1>3, <1>4, <1>5, <1>6 DEF IndexInv, ContentInv
<1>10. PassInv'
  BY <1>3, <1>5, <1>6, TxInjectAssumption DEF PassInv
<1>11. CountInv'
  <2>1. drops \in Nat /\ Len(<<>>) = 0
    BY DEF TypeOK
  <2> QED
    BY <1>3, <1>5, <1>6, <1>7, <2>1 DEF CountInv
<1>12. WakeInv'
  BY <1>2, <1>3 DEF WakeInv
<1> QED
  BY <1>8, <1>9, <1>10, <1>11, <1>12

\* astray is a flag.
LEMMA AstrayType == ASSUME TypeOK, [Next]_vars PROVE astray' \in BOOLEAN
<1>1. UNCHANGED astray \/ astray' = TRUE
  BY Zenon DEF Next, Sound, FollowUnsetCtx, vars
<1> QED
  BY <1>1, Zenon DEF TypeOK

LEMMA NextTxInv == TxInv /\ [Next]_vars => TxInv'
<1> SUFFICES ASSUME TxInv, [Next]_vars PROVE TxInv'
  OBVIOUS
<1>0. astray' \in BOOLEAN
  BY AstrayType DEF TxInv
<1>1. ASSUME NEW p \in Producer, Inject(p) PROVE TxInv'
  <2>1. PICK list \in PdLists : InjectTxPkts(p, list) \/ InjectTxDisabled(p, list)
    BY <1>1 DEF Inject
  <2>2. CASE InjectTxPkts(p, list)
    BY <2>2, <1>0, InjectTxPktsStep
  <2>3. CASE InjectTxDisabled(p, list)
    <3>1. list \in Seq(Pd)
      BY PdListType
    <3>2. TypeOK'
      BY <1>0, <2>3, <3>1 DEF InjectTxDisabled, TxInv, TypeOK, ringVars, passVars, SeqRange, HasCtx
    <3> QED
      BY <2>3, <3>2, RingUntouchedStep DEF InjectTxDisabled
  <2> QED
    BY <2>1, <2>2, <2>3
<1>2. ASSUME NEW p \in Producer, DropInjected(p) PROVE TxInv'
  <2>1. TypeOK'
    BY <1>0, <1>2 DEF DropInjected, TxInv, TypeOK, ringVars, passVars
  <2> QED
    BY <1>2, <2>1, RingUntouchedStep DEF DropInjected
<1>3. CASE TxStep
  BY <1>0, <1>3, TxEnterStep, TxWakeupStep, TxStopStep, BatchSendStep, SendOneStep, FinishPassStep
     DEF TxStep
<1>4. CASE StopTxThread
  <2>1. TypeOK'
    BY <1>0, <1>4 DEF StopTxThread, TxInv, TypeOK, ringVars, passVars, prodVars
  <2> QED
    BY <1>4, <2>1, RingUntouchedStep DEF StopTxThread
<1>5. CASE Detach
  <2>1. TypeOK'
    BY <1>0, <1>5 DEF Detach, TxInv, TypeOK, ringVars, passVars, prodVars
  <2> QED
    BY <1>5, <2>1, RingUntouchedStep DEF Detach
<1>6. CASE FollowUnsetCtx
  <2>1. TypeOK'
    BY <1>0, <1>6 DEF FollowUnsetCtx, TxInv, TypeOK, ringVars, passVars, prodVars
  <2> QED
    BY <1>6, <2>1, RingUntouchedStep DEF FollowUnsetCtx
<1>7. CASE UNCHANGED vars
  <2>1. TypeOK'
    BY <1>0, <1>7 DEF vars, TxInv, TypeOK, ringVars, passVars, prodVars
  <2> QED
    BY <1>7, <2>1, RingUntouchedStep DEF vars
<1> QED
  BY <1>1, <1>2, <1>3, <1>4, <1>5, <1>6, <1>7 DEF Next

-----------------------------------------------------------------------------
(* The theorems *)

\* The invariant holds throughout.
THEOREM TxInvariant == Spec => []TxInv
BY InitTxInv, NextTxInv, PTL DEF Spec

\* Every variable of if_dpdk_softc's transmit side keeps its type: the indices
\* stay inside the ring and only descriptors are ever sent or released.
THEOREM TxTypeCorrect == Spec => []TypeOK
<1>1. TxInv => TypeOK
  BY DEF TxInv
<1> QED
  BY <1>1, TxInvariant, PTL

\* A pass of if_dpdk_process_tx_inject_ring overruns neither pkts[] nor
\* tx_pdctx_to_free[], whatever the ring size and however injections interleave.
THEOREM TxArraysInBounds == Spec => []ArraysInBounds
<1>1. TxInv => ArraysInBounds
  <2> SUFFICES ASSUME TxInv PROVE ArraysInBounds
    OBVIOUS
  <2>1. take \in Slot /\ FirstUnsent \in Slot /\ Len(pdctx_to_free) \in Nat
    BY FirstUnsentType DEF TxInv, TypeOK
  <2>2. D(take, FirstUnsent) \in Nat /\ D(take, FirstUnsent) <= N - 1
    BY <2>1, SlotDistance
  <2> QED
    BY <2>1, <2>2, RingSize DEF TxInv, PassInv, ArraysInBounds
<1> QED
  BY <1>1, TxInvariant, PTL

\* The descriptors waiting in the ring form a sequence whose length is the
\* distance between the transmit side's position and put.
LEMMA PendingType ==
    ASSUME TxInv
    PROVE  Pending \in Seq(Pd) /\ Len(Pending) = D(FirstUnsent, put)
<1>1. D(FirstUnsent, put) \in Nat
  BY FirstUnsentType, SlotDistance DEF TxInv, TypeOK
<1>2. \A j \in 1 .. D(FirstUnsent, put) : descs[ring_advance(N, FirstUnsent, j - 1)] \in Pd
  <2> SUFFICES ASSUME NEW j \in 1 .. D(FirstUnsent, put)
               PROVE  descs[ring_advance(N, FirstUnsent, j - 1)] \in Pd
    OBVIOUS
  <2>1. j - 1 \in Nat /\ j - 1 < D(FirstUnsent, put)
    BY <1>1
  <2> QED
    BY <2>1 DEF TxInv, ContentInv
<1>3. Pending = [j \in 1 .. D(FirstUnsent, put) |-> descs[ring_advance(N, FirstUnsent, j - 1)]]
  BY DEF Pending, D
<1> QED
  BY <1>1, <1>2, <1>3

\* Each descriptor offered to an enabled interface ends up in exactly one of
\* if_opackets and if_oerrors, until the thread is stopped.
THEOREM TxCountedOnce == Spec => []CountedOnce
<1>1. TxInv => CountedOnce
  BY PendingType DEF TxInv, CountInv, CountedOnce, RingAbandoned
<1> QED
  BY <1>1, TxInvariant, PTL

\* Signalling tx_cv only when tx_pkts_to_send becomes 1 loses no wakeup.
THEOREM TxPromptWakeup == Spec => []PromptWakeup
<1>1. TxInv => PromptWakeup
  <2> SUFFICES ASSUME TxInv, txpc = "wait", ~signalled
               PROVE  Pending = <<>> /\ tx_pkts_to_send = 0
    BY DEF PromptWakeup
  <2>1. tx_use_thread /\ FirstUnsent = cur_inject_take
    BY AsleepPosition
  <2>2. tx_pkts_to_send = 0 /\ FirstUnsent = put
    BY <2>1 DEF TxInv, WakeInv
  <2>3. D(FirstUnsent, put) = 0
    BY <2>2, SlotDistance DEF TxInv, TypeOK
  <2>4. Pending \in Seq(Pd) /\ Len(Pending) = 0
    BY <2>3, PendingType
  <2> QED
    BY <2>2, <2>4
<1> QED
  BY <1>1, TxInvariant, PTL

\* An injection writes behind the slots of the pass in progress.
LEMMA InjectOutsidePass ==
    ASSUME TxInv, NEW p \in Producer, NEW list \in PdLists, InjectTxPkts(p, list),
           txpc = "send", NEW j \in Nat, j < D(local_take, local_put)
    PROVE  descs'[ring_advance(N, local_take, j)] = descs[ring_advance(N, local_take, j)]
<1> DEFINE n == Accepted(list)
           i == ring_advance(N, local_take, j)
<1>1. /\ N \in Nat \ {0} /\ Slot = 0 .. N - 1 /\ put \in Slot /\ take \in Slot
      /\ local_take \in Slot /\ local_put \in Slot /\ FirstUnsent = local_take
  BY RingSize DEF Slot, TxInv, TypeOK, FirstUnsent
<1>2. list \in Seq(Pd) /\ Len(list) \in Nat
  BY PdListType
<1>3. ring_space(N, put, take) = N - 1 - D(take, put)
  BY <1>1, RingRange DEF D
<1>4. /\ D(take, put) \in Nat /\ D(take, local_take) \in Nat /\ D(local_take, put) \in Nat
      /\ D(local_take, local_put) \in Nat /\ D(take, put) <= N - 1
  BY <1>1, SlotDistance
<1>5. n \in Nat /\ n <= N - 1 - D(take, put)
  <2>1. D(take, put) \in 0 .. N - 1
    BY <1>1, <1>4
  <2> QED
    BY <1>1, <1>2, <1>3, <2>1 DEF Accepted
<1> HIDE DEF n
<1>6. D(take, local_take) + D(local_take, put) = D(take, put)
      /\ D(local_take, local_put) <= D(local_take, put)
  BY <1>1 DEF TxInv, IndexInv
<1>7. D(local_take, put) + n <= N - 1 /\ j < D(local_take, put)
  <2> HIDE DEF D
  <2> QED
    BY <1>1, <1>4, <1>5, <1>6
<1>8. i \in Slot /\ ring_distance(N, put, i) >= n
  BY <1>1, <1>5, <1>7, RingFillSlots DEF D
<1>9. ring_distance(N, put, i) \in Nat
  BY <1>1, <1>8, RingRange
<1>10. descs' = [k \in Slot |-> IF ring_distance(N, put, k) < n
                                THEN list[ring_distance(N, put, k) + 1] ELSE descs[k]]
  BY DEF InjectTxPkts, n
<1> QED
  BY <1>5, <1>8, <1>9, <1>10

\* The transmit thread works through its snapshot outside tx_lock, and no
\* producer changes a slot of it meanwhile.
THEOREM TxPassUndisturbed == Spec => PassUndisturbed
<1> DEFINE Kept == txpc = "send" =>
             \A j \in 0 .. ring_distance(N, local_take, local_put) - 1 :
               LET i == ring_advance(N, local_take, j) IN descs'[i] = descs[i]
<1>1. TxInv /\ [Next]_vars => Kept
  <2> SUFFICES ASSUME TxInv, [Next]_vars, txpc = "send",
                      NEW j \in 0 .. ring_distance(N, local_take, local_put) - 1
               PROVE  descs'[ring_advance(N, local_take, j)] = descs[ring_advance(N, local_take, j)]
    OBVIOUS
  <2>1. j \in Nat /\ j < D(local_take, local_put)
    <3>1. D(local_take, local_put) \in Nat
      BY SlotDistance DEF TxInv, TypeOK
    <3> QED
      BY <3>1 DEF D
  <2>2. CASE \E p \in Producer : \E list \in PdLists : InjectTxPkts(p, list)
    BY <2>1, <2>2, InjectOutsidePass
  <2>3. CASE descs' = descs
    BY <2>3
  <2>4. \/ descs' = descs
        \/ \E p \in Producer : \E list \in PdLists : InjectTxPkts(p, list)
    BY DEF Next, Inject, InjectTxDisabled, DropInjected, TxStep, TxEnter, TxWakeup, TxStop,
           BatchSend, SendOne, FinishPass, StopTxThread, Detach, FollowUnsetCtx, Snapshot,
           vars, ringVars
  <2> QED
    BY <2>2, <2>3, <2>4
<1>2. Spec => [][Kept]_vars
  BY <1>1, TxInvariant, PTL DEF Spec
<1> QED
  BY <1>2 DEF PassUndisturbed

-----------------------------------------------------------------------------
(* The queue implements the bounded FIFO of module PdFifo *)

\* The empty ring is the empty queue.
LEMMA InitFifo == Init => Fifo!FifoInit
<1> SUFFICES ASSUME Init PROVE Fifo!FifoInit
  OBVIOUS
<1>1. TxInv
  BY InitTxInv
<1>2. FirstUnsent = 0 /\ put = 0 /\ take = 0
  BY DEF Init, FirstUnsent
<1>3. D(FirstUnsent, put) = 0 /\ ring_distance(N, take, FirstUnsent) = 0
  BY <1>2 DEF D, ring_distance
<1>4. Pending = <<>>
  BY <1>1, <1>3, PendingType
<1> QED
  BY <1>3, <1>4 DEF Init, Fifo!FifoInit

\* A step that changes neither the waiting descriptors, nor the sender's
\* position relative to take, nor the pass's list leaves the queue alone.
LEMMA SameRingSameQueue ==
    ASSUME UNCHANGED <<descs, put, take, FirstUnsent, pdctx_to_free>>
    PROVE  UNCHANGED Fifo!fifoVars
<1>1. Pending' = Pending
  BY DEF Pending
<1> QED
  BY <1>1 DEF Fifo!fifoVars

\* An injection appends what it accepts, and it accepts what the slots not in
\* use allow, less the one that stays empty.
LEMMA InjectPending ==
    ASSUME TxInv, NEW p \in Producer, NEW list \in PdLists, InjectTxPkts(p, list),
           astray' \in BOOLEAN
    PROVE  /\ Accepted(list) \in 0 .. Len(list)
           /\ Accepted(list) = IF Len(list) <= N - 1 - D(take, FirstUnsent) - Len(Pending)
                               THEN Len(list)
                               ELSE N - 1 - D(take, FirstUnsent) - Len(Pending)
           /\ FirstUnsent' = FirstUnsent
           /\ Pending' = Pending \o SubSeq(list, 1, Accepted(list))
<1> DEFINE n == Accepted(list)
           F == FirstUnsent
           more == SubSeq(list, 1, n)
<1>1. N \in Nat \ {0} /\ Slot = 0 .. N - 1 /\ F \in Slot /\ put \in Slot /\ take \in Slot
  BY RingSize, FirstUnsentType DEF Slot, TxInv, TypeOK
<1>2. list \in Seq(Pd) /\ Len(list) \in Nat
  BY PdListType
<1>3. /\ D(take, put) \in Nat /\ D(take, F) \in Nat /\ D(F, put) \in Nat /\ D(take, put) <= N - 1
      /\ D(take, F) + D(F, put) = D(take, put)
  BY <1>1, SlotDistance DEF TxInv, IndexInv
<1>4. ring_space(N, put, take) = N - 1 - D(take, put)
  BY <1>1, RingRange DEF D
<1>5. Pending \in Seq(Pd) /\ Len(Pending) = D(F, put)
  BY PendingType
<1>6. /\ n \in 0 .. Len(list) /\ n <= N - 1 - D(take, put)
      /\ n = IF Len(list) <= N - 1 - D(take, F) - Len(Pending)
             THEN Len(list) ELSE N - 1 - D(take, F) - Len(Pending)
  <2> HIDE DEF F
  <2> QED
    BY <1>1, <1>2, <1>3, <1>4, <1>5 DEF Accepted
<1>7. F' = F
  BY DEF InjectTxPkts, passVars, FirstUnsent
<1>8. D(F, put)' = D(F, put) + n /\ D(F, put) + n <= N - 1
  <2>1. put' = ring_advance(N, put, n)
    BY DEF InjectTxPkts
  <2>2. n \in Nat
    BY <1>2, <1>6
  <2>3. ring_distance(N, F, ring_advance(N, put, n)) = ring_distance(N, F, put) + n
    BY <1>1, <1>3, <1>6, <2>2, RingFill DEF D
  <2> QED
    BY <1>1, <1>3, <1>6, <1>7, <2>1, <2>2, <2>3 DEF D
<1>9. more \in Seq(Pd) /\ Len(more) = n /\ \A k \in 1 .. n : more[k] = list[k]
  BY <1>2, <1>6, SubSeqProperties
<1>10. descs' = [i \in Slot |-> IF ring_distance(N, put, i) < n
                                THEN list[ring_distance(N, put, i) + 1] ELSE descs[i]]
  BY DEF InjectTxPkts
<1>11. Pending' = [j \in 1 .. D(F, put) + n |-> descs'[ring_advance(N, F, j - 1)]]
  BY <1>7, <1>8 DEF Pending, D
<1>12. Pending = [j \in 1 .. D(F, put) |-> descs[ring_advance(N, F, j - 1)]]
  BY DEF Pending, D
<1> HIDE DEF n, F
<1>13. ASSUME NEW j \in 1 .. D(F, put) + n
       PROVE  Pending'[j] = (Pending \o more)[j]
  <2> DEFINE s == ring_advance(N, F, j - 1)
  <2>1. j - 1 \in Nat /\ n \in Nat /\ j \in Nat /\ 1 <= j /\ j <= D(F, put) + n
    BY <1>2, <1>3, <1>6
  <2>2. Pending'[j] = descs'[s]
    BY <1>11
  <2>3. CASE j <= D(F, put)
    <3>1. s \in Slot /\ ring_distance(N, put, s) >= n
      BY <2>1, <2>3, <1>1, <1>3, <1>8, RingFillSlots DEF D
    <3>2. ring_distance(N, put, s) \in Nat
      BY <3>1, <1>1, RingRange
    <3>3. descs'[s] = descs[s]
      BY <3>1, <3>2, <2>1, <1>10
    <3>4. Pending[j] = descs[s]
      BY <2>1, <2>3, <1>3, <1>12
    <3>5. (Pending \o more)[j] = Pending[j]
      BY <2>1, <2>3, <1>5, <1>9, <1>3, ConcatProperties
    <3> QED
      BY <2>2, <3>3, <3>4, <3>5
  <2>4. CASE ~(j <= D(F, put))
    <3>1. s \in Slot /\ ring_distance(N, put, s) = j - 1 - D(F, put)
      <4>1. j - 1 >= D(F, put) /\ j - 1 < D(F, put) + n
        BY <2>1, <2>4, <1>3
      <4> QED
        BY <4>1, <2>1, <1>1, <1>8, RingFillSlots DEF D
    <3>2. descs'[s] = list[j - D(F, put)]
      <4>1. ring_distance(N, put, s) < n /\ ring_distance(N, put, s) + 1 = j - D(F, put)
        BY <3>1, <2>1, <2>4, <1>3
      <4> QED
        BY <4>1, <3>1, <1>10
    <3>3. j - D(F, put) \in 1 .. n
      BY <2>1, <2>4, <1>3
    <3>4. (Pending \o more)[j] = more[j - D(F, put)]
      <4>1. j \in 1 .. Len(Pending) + Len(more) /\ ~(j <= Len(Pending))
        BY <2>4, <1>5, <1>9
      <4>2. (Pending \o more)[j] = more[j - Len(Pending)]
        <5> HIDE DEF more
        <5> QED
          BY <4>1, <1>5, <1>9, ConcatProperties
      <4> QED
        BY <4>2, <1>5
    <3> QED
      BY <2>2, <3>2, <3>3, <3>4, <1>9
  <2> QED
    BY <2>3, <2>4
<1>14. Pending' = Pending \o more
  <2>1. Pending' \in Seq(Pd) /\ Len(Pending') = D(F, put) + n
    <3>1. TxInv'
      BY InjectTxPktsStep
    <3>2. (TxInv => Pending \in Seq(Pd) /\ Len(Pending) = D(FirstUnsent, put))'
      BY PendingType, PTL
    <3> QED
      BY <3>1, <3>2, <1>8 DEF F
  <2>2. Pending \o more \in Seq(Pd) /\ Len(Pending \o more) = D(F, put) + n
    BY <1>5, <1>9, ConcatProperties
  <2> QED
    BY <1>13, <2>1, <2>2, SeqEqual
<1> QED
  BY <1>6, <1>7, <1>14 DEF n, F

\* Dealing with a descriptor takes the oldest one off the queue; its slot is
\* not given back yet.
LEMMA SendPending ==
    ASSUME TxInv, SendOne
    PROVE  /\ Pending # <<>> /\ Pending' = Tail(Pending) /\ Head(Pending) = descs[local_take]
           /\ ring_distance(N, take, FirstUnsent)' = ring_distance(N, take, FirstUnsent) + 1
<1> USE DEF TxInv
<1>1. N \in Nat \ {0} /\ Slot = 0 .. N - 1 /\ local_take \in Slot /\ put \in Slot
      /\ take \in Slot /\ local_put \in Slot
  BY RingSize DEF Slot, TypeOK
<1>2. txpc = "send" /\ local_take # local_put /\ FirstUnsent = local_take
  BY DEF SendOne, FirstUnsent
<1>3. /\ local_take' = ring_next(N, local_take)
      /\ txpc' = txpc /\ put' = put /\ take' = take /\ descs' = descs
  BY DEF SendOne, ringVars
<1>4. FirstUnsent' = ring_next(N, local_take)
  BY <1>2, <1>3 DEF FirstUnsent
<1>5. /\ D(take, local_take) \in Nat /\ D(local_take, put) \in Nat
      /\ D(take, put) \in Nat /\ D(local_take, put) <= N - 1
      /\ D(local_take, local_put) \in Nat /\ D(local_take, local_put) # 0
  BY <1>1, <1>2, SlotDistance
<1>6. D(take, local_take) + D(local_take, put) = D(take, put)
      /\ D(local_take, local_put) <= D(local_take, put)
  BY <1>2 DEF IndexInv
<1>7. local_take # put /\ D(local_take, put) >= 1
  <2>1. D(local_take, put) # 0
    BY <1>5, <1>6
  <2> QED
    BY <2>1, <1>1, <1>5, SlotDistance
<1>8. ring_distance(N, ring_next(N, local_take), put) = D(local_take, put) - 1
  BY <1>1, <1>7, RingNext DEF D
<1>9. ring_distance(N, take, FirstUnsent)' = ring_distance(N, take, FirstUnsent) + 1
  <2>1. \A n \in Nat \ {0} : \A t, l, p \in 0 .. n - 1 :
          l # p /\ ring_distance(n, t, l) + ring_distance(n, l, p) = ring_distance(n, t, p)
            => ring_distance(n, t, ring_next(n, l)) = ring_distance(n, t, l) + 1
    BY DEF ring_distance, ring_next
  <2> QED
    BY <2>1, <1>1, <1>2, <1>3, <1>4, <1>6, <1>7 DEF D
<1>10. Pending \in Seq(Pd) /\ Len(Pending) = D(local_take, put)
  BY <1>2, PendingType
<1>11. Pending = [j \in 1 .. D(local_take, put) |-> descs[ring_advance(N, local_take, j - 1)]]
  BY <1>2 DEF Pending, D
<1>12. Pending # <<>> /\ Head(Pending) = Pending[1] /\ Tail(Pending) \in Seq(Pd)
       /\ Len(Tail(Pending)) = D(local_take, put) - 1
       /\ \A j \in 1 .. D(local_take, put) - 1 : Tail(Pending)[j] = Pending[j + 1]
  BY <1>5, <1>7, <1>10, HeadTailProperties, EmptySeq
<1>13. Head(Pending) = descs[local_take]
  <2>1. ring_advance(N, local_take, 0) = local_take
    BY <1>1, RingNext
  <2> QED
    BY <2>1, <1>5, <1>7, <1>11, <1>12
<1>14. Pending' = [j \in 1 .. D(local_take, put) - 1 |->
                     descs[ring_advance(N, ring_next(N, local_take), j - 1)]]
  BY <1>3, <1>4, <1>8 DEF Pending
<1>15. ASSUME NEW j \in 1 .. D(local_take, put) - 1 PROVE Pending'[j] = Tail(Pending)[j]
  <2>1. j - 1 \in Nat /\ (j - 1) + 1 = j /\ j < N /\ j + 1 \in 1 .. D(local_take, put) /\ (j + 1) - 1 = j
    BY <1>1, <1>5
  <2>2. ring_advance(N, ring_next(N, local_take), j - 1) = ring_advance(N, local_take, j)
    BY <2>1, <1>1, RingNext
  <2>3. Pending[j + 1] = descs[ring_advance(N, local_take, j)]
    BY <2>1, <1>11
  <2> QED
    BY <2>2, <2>3, <1>12, <1>14
<1>16. Pending' = Tail(Pending)
  <2>1. Tail(Pending) = [j \in 1 .. D(local_take, put) - 1 |-> Tail(Pending)[j]]
    BY <1>12, LenProperties
  <2> QED
    BY <2>1, <1>14, <1>15
<1> QED
  BY <1>9, <1>12, <1>13, <1>16

\* A step that leaves the sender's position and the slots from there to put
\* alone changes nothing that waits.
LEMMA SamePending ==
    ASSUME UNCHANGED <<descs, put, FirstUnsent>>
    PROVE  Pending' = Pending
BY DEF Pending

\* The end of a pass and the critical section that follows it give the slots
\* back: no slot lies between take and the sender's position any more.
LEMMA GiveBackStep ==
    ASSUME TxInv, UNCHANGED <<descs, put, FirstUnsent, pdctx_to_free>>, take' = FirstUnsent
    PROVE  Fifo!GiveBack
<1>1. Pending' = Pending
  BY SamePending
<1>2. ring_distance(N, take, FirstUnsent)' = 0
  BY FirstUnsentType, SlotDistance DEF TxInv, D
<1> QED
  BY <1>1, <1>2 DEF Fifo!GiveBack

\* A snapshot gives the slots of the last pass back.
LEMMA SnapshotGivesBack ==
    ASSUME TxInv, NEW nextpc \in {"send", "stopped"}, Snapshot(FirstUnsent, nextpc),
           nextpc = "stopped" => tx_use_thread,
           tx_use_thread => cur_inject_take = FirstUnsent,
           txpc # "send", UNCHANGED <<tx_use_thread, cur_inject_take>>
    PROVE  Fifo!GiveBack
<1>1. take' = FirstUnsent /\ local_take' = FirstUnsent /\ put' = put /\ descs' = descs
      /\ pdctx_to_free' = <<>> /\ txpc' = nextpc
  BY DEF Snapshot
<1>2. FirstUnsent' = FirstUnsent
  BY <1>1 DEF FirstUnsent
<1>3. pdctx_to_free' = pdctx_to_free
  BY <1>1 DEF TxInv, PassInv
<1> QED
  BY <1>1, <1>2, <1>3, GiveBackStep

\* Every step of the driver is a step of the queue or leaves it alone.
LEMMA NextFifo == TxInv /\ [Next]_vars => [Fifo!FifoNext]_Fifo!fifoVars
<1> SUFFICES ASSUME TxInv, [Next]_vars PROVE Fifo!FifoNext \/ UNCHANGED Fifo!fifoVars
  OBVIOUS
<1>0. astray' \in BOOLEAN
  BY AstrayType DEF TxInv
<1>1. ASSUME NEW p \in Producer, NEW list \in PdLists, InjectTxPkts(p, list)
      PROVE  Fifo!FifoNext
  <2>1. UNCHANGED <<take, FirstUnsent, pdctx_to_free>>
    BY <1>0, <1>1, InjectPending DEF InjectTxPkts, passVars
  <2>2. Pending' = Pending \o SubSeq(list, 1, Accepted(list))
    BY <1>0, <1>1, InjectPending
  <2>3. Accepted(list) = IF Len(list) <= Fifo!Room THEN Len(list) ELSE Fifo!Room
    BY <1>0, <1>1, InjectPending DEF Fifo!Room, D
  <2>4. Fifo!Offer(list)
    BY <2>1, <2>2, <2>3 DEF Fifo!Offer
  <2> QED
    BY <2>4 DEF Fifo!FifoNext
<1>2. CASE SendOne
  <2>1. pdctx_to_free' = IF HasCtx(descs[local_take]) THEN Append(pdctx_to_free, descs[local_take])
                         ELSE pdctx_to_free
    BY <1>2 DEF SendOne
  <2>2. Fifo!Consume
    BY <2>1, <1>2, SendPending DEF Fifo!Consume
  <2> QED
    BY <2>2 DEF Fifo!FifoNext
<1>3. CASE FinishPass
  <2>1. UNCHANGED <<descs, put>> /\ pdctx_to_free' = <<>> /\ FirstUnsent = local_take
        /\ FirstUnsent' = local_take
    BY <1>3 DEF FinishPass, FirstUnsent
  <2>2. Pending' = Pending
    BY <2>1, SamePending
  <2>3. CASE tx_use_thread
    <3>1. take' = take
      BY <1>3, <2>3 DEF FinishPass
    <3> QED
      BY <3>1, <2>1, <2>2 DEF Fifo!EndPass, Fifo!FifoNext
  <2>4. CASE ~tx_use_thread
    <3>1. take' = local_take
      BY <1>3, <2>4 DEF FinishPass
    <3>2. ring_distance(N, take, FirstUnsent)' = 0
      BY <3>1, <2>1, FirstUnsentType, SlotDistance DEF TxInv, D
    <3> QED
      BY <3>2, <2>1, <2>2 DEF Fifo!EndPassAndGiveBack, Fifo!FifoNext
  <2> QED
    BY <2>3, <2>4
<1>4. CASE TxEnter
  <2>1. FirstUnsent = cur_inject_take /\ tx_use_thread /\ txpc = "enter"
        /\ UNCHANGED <<tx_use_thread, cur_inject_take>>
    BY <1>4 DEF TxEnter, FirstUnsent
  <2>2. CASE tx_pkts_to_send = 0
    <3>1. UNCHANGED <<descs, put, pdctx_to_free>> /\ take' = FirstUnsent /\ FirstUnsent' = FirstUnsent
      BY <2>1, <2>2, <1>4 DEF TxEnter, passVars, FirstUnsent
    <3> QED
      BY <3>1, GiveBackStep DEF Fifo!FifoNext
  <2>3. CASE tx_pkts_to_send # 0
    <3>1. Snapshot(FirstUnsent, "send")
      BY <2>1, <2>3, <1>4 DEF TxEnter
    <3> QED
      BY <2>1, <3>1, SnapshotGivesBack DEF Fifo!FifoNext
  <2> QED
    BY <2>2, <2>3
<1>5. CASE TxWakeup
  <2>1. FirstUnsent = take /\ cur_inject_take = take /\ tx_use_thread /\ txpc = "wait"
        /\ UNCHANGED <<tx_use_thread, cur_inject_take>>
    BY <1>5, AsleepPosition DEF TxWakeup
  <2>2. CASE tx_pkts_to_send = 0
    <3>1. UNCHANGED <<descs, put, take, FirstUnsent, pdctx_to_free>>
      BY <2>1, <2>2, <1>5 DEF TxWakeup, ringVars, passVars, FirstUnsent
    <3> QED
      BY <3>1, SameRingSameQueue
  <2>3. CASE tx_pkts_to_send # 0
    <3>1. Snapshot(FirstUnsent, "send")
      BY <2>1, <2>3, <1>5 DEF TxWakeup
    <3> QED
      BY <2>1, <3>1, SnapshotGivesBack DEF Fifo!FifoNext
  <2> QED
    BY <2>2, <2>3
<1>6. CASE TxStop
  <2>1. FirstUnsent = take /\ cur_inject_take = take /\ tx_use_thread /\ txpc = "wait"
        /\ UNCHANGED <<tx_use_thread, cur_inject_take>> /\ Snapshot(FirstUnsent, "stopped")
    BY <1>6, AsleepPosition DEF TxStop
  <2> QED
    BY <2>1, SnapshotGivesBack DEF Fifo!FifoNext
<1>7. CASE BatchSend
  <2>1. FirstUnsent = take /\ ~tx_use_thread /\ txpc = "enter"
        /\ UNCHANGED <<tx_use_thread, cur_inject_take>> /\ Snapshot(FirstUnsent, "send")
    BY <1>7 DEF BatchSend, FirstUnsent
  <2> QED
    BY <2>1, SnapshotGivesBack DEF Fifo!FifoNext
<1>8. CASE \/ \E p \in Producer : \E list \in PdLists : InjectTxDisabled(p, list)
           \/ \E p \in Producer : DropInjected(p)
           \/ StopTxThread \/ FollowUnsetCtx \/ UNCHANGED vars
  <2>1. UNCHANGED <<ringVars, passVars, txpc, tx_use_thread, cur_inject_take>>
    BY <1>8 DEF InjectTxDisabled, DropInjected, StopTxThread, FollowUnsetCtx, vars
  <2>2. UNCHANGED <<descs, put, take, FirstUnsent, pdctx_to_free>>
    BY <2>1 DEF ringVars, passVars, FirstUnsent
  <2> QED
    BY <2>2, SameRingSameQueue
<1>9. CASE Detach
  <2>1. UNCHANGED <<descs, put, take, FirstUnsent, pdctx_to_free>>
    BY <1>9 DEF Detach, FirstUnsent, ringVars, passVars
  <2> QED
    BY <2>1, SameRingSameQueue
<1> QED
  BY <1>1, <1>2, <1>3, <1>4, <1>5, <1>6, <1>7, <1>8, <1>9 DEF Next, Inject, TxStep

\* The injection queue is a bounded first-in first-out queue with ring_alloc's
\* slots less one: if_dpdk_inject_tx_pkts accepts the longest prefix that fits,
\* if_dpdk_process_tx_inject_ring deals with every accepted descriptor once and
\* in order, and room comes back only once its pass is over.
THEOREM TxRefinesFifo == Spec => RefinesFifo
BY InitFifo, NextFifo, TxInvariant, PTL DEF Spec, RefinesFifo, Fifo!FifoSpec

-----------------------------------------------------------------------------
(* Who owns an injection reference *)

\* pd occurs in s; it occurs there at most once.
In(pd, s) == \E i \in 1 .. Len(s) : s[i] = pd
Once(pd, s) == \A i, j \in 1 .. Len(s) : s[i] = pd /\ s[j] = pd => i = j

\* The reference of pd is outstanding exactly if pd waits in the ring (s), is on
\* the list the pass will release (out) or on a producer's list of drops (d),
\* and it is in one place only.
Owned(pd, s, out, d, r) ==
    /\ pd \in r <=> In(pd, s) \/ In(pd, out) \/ \E p \in Producer : In(pd, d[p])
    /\ Once(pd, s) /\ Once(pd, out) /\ \A p \in Producer : Once(pd, d[p])
    /\ ~(In(pd, s) /\ In(pd, out))
    /\ \A p \in Producer : In(pd, d[p]) => ~In(pd, s) /\ ~In(pd, out)
    /\ \A p, u \in Producer : In(pd, d[p]) /\ In(pd, d[u]) => p = u

\* A producer that is not in uinet_pd_drop_injected has nothing to release.
IdleInv == \A p \in Producer : pc[p] = "idle" => to_drop[p] = <<>>

OwnInv ==
    /\ IdleInv
    /\ \A pd \in Pd \ MgmtPd : Owned(pd, Pending, pdctx_to_free, to_drop, refs)

\* Nothing occurs in the empty list.
LEMMA InEmpty == \A pd : ~In(pd, <<>>) /\ Once(pd, <<>>)
BY DEF In, Once

\* Occurrences in a list that is appended to another.
LEMMA InConcat ==
    ASSUME NEW S, NEW s \in Seq(S), NEW t \in Seq(S), NEW pd
    PROVE  /\ In(pd, s \o t) <=> In(pd, s) \/ In(pd, t)
           /\ Once(pd, s) /\ Once(pd, t) /\ ~(In(pd, s) /\ In(pd, t)) => Once(pd, s \o t)
<1>1. /\ Len(s) \in Nat /\ Len(t) \in Nat /\ Len(s \o t) = Len(s) + Len(t)
      /\ \A i \in 1 .. Len(s) + Len(t) :
           (s \o t)[i] = IF i <= Len(s) THEN s[i] ELSE t[i - Len(s)]
  BY LenProperties, ConcatProperties
<1>2. ASSUME NEW i \in 1 .. Len(s) PROVE i \in 1 .. Len(s) + Len(t) /\ (s \o t)[i] = s[i]
  BY <1>1
<1>3. ASSUME NEW i \in 1 .. Len(t)
      PROVE  i + Len(s) \in 1 .. Len(s) + Len(t) /\ (s \o t)[i + Len(s)] = t[i]
  <2>1. i + Len(s) \in 1 .. Len(s) + Len(t) /\ ~(i + Len(s) <= Len(s)) /\ i + Len(s) - Len(s) = i
    BY <1>1
  <2> QED
    BY <2>1, <1>1
<1>4. ASSUME NEW i \in 1 .. Len(s) + Len(t)
      PROVE  \/ i \in 1 .. Len(s) /\ (s \o t)[i] = s[i]
             \/ i - Len(s) \in 1 .. Len(t) /\ (s \o t)[i] = t[i - Len(s)]
  BY <1>1
<1>5. In(pd, s \o t) <=> In(pd, s) \/ In(pd, t)
  BY <1>1, <1>2, <1>3, <1>4 DEF In
<1>6. ASSUME Once(pd, s), Once(pd, t), ~(In(pd, s) /\ In(pd, t)),
             NEW i \in 1 .. Len(s) + Len(t), NEW j \in 1 .. Len(s) + Len(t),
             (s \o t)[i] = pd, (s \o t)[j] = pd
      PROVE  i = j
  <2>1. \/ i \in 1 .. Len(s) /\ s[i] = pd
        \/ i - Len(s) \in 1 .. Len(t) /\ t[i - Len(s)] = pd
    BY <1>4, <1>6
  <2>2. \/ j \in 1 .. Len(s) /\ s[j] = pd
        \/ j - Len(s) \in 1 .. Len(t) /\ t[j - Len(s)] = pd
    BY <1>4, <1>6
  <2>3. CASE In(pd, s)
    BY <2>1, <2>2, <2>3, <1>6 DEF In, Once
  <2>4. CASE ~In(pd, s)
    <3>1. i - Len(s) \in 1 .. Len(t) /\ t[i - Len(s)] = pd
          /\ j - Len(s) \in 1 .. Len(t) /\ t[j - Len(s)] = pd
      BY <2>1, <2>2, <2>4 DEF In
    <3>2. i - Len(s) = j - Len(s)
      BY <3>1, <1>6 DEF Once
    <3> QED
      BY <3>2, <1>1
  <2> QED
    BY <2>3, <2>4
<1>7. Once(pd, s) /\ Once(pd, t) /\ ~(In(pd, s) /\ In(pd, t)) => Once(pd, s \o t)
  BY <1>1, <1>6 DEF Once
<1> QED
  BY <1>5, <1>7

\* A list of distinct descriptors, cut after its first n.
LEMMA InSplit ==
    ASSUME NEW S, NEW s \in Seq(S), NEW n \in 0 .. Len(s), NEW pd
    PROVE  /\ In(pd, s) <=> In(pd, SubSeq(s, 1, n)) \/ In(pd, SubSeq(s, n + 1, Len(s)))
           /\ Once(pd, s) => /\ Once(pd, SubSeq(s, 1, n)) /\ Once(pd, SubSeq(s, n + 1, Len(s)))
                             /\ ~(In(pd, SubSeq(s, 1, n)) /\ In(pd, SubSeq(s, n + 1, Len(s))))
<1> DEFINE a == SubSeq(s, 1, n)
           b == SubSeq(s, n + 1, Len(s))
<1>1. Len(s) \in Nat /\ n \in Nat /\ n <= Len(s)
  BY LenProperties
<1>2. Len(a) = n /\ \A i \in 1 .. n : i \in 1 .. Len(s) /\ a[i] = s[i]
  BY <1>1, SubSeqProperties
<1>3. Len(b) = Len(s) - n /\ \A i \in 1 .. Len(s) - n : i + n \in 1 .. Len(s) /\ b[i] = s[i + n]
  <2>1. Len(b) = Len(s) - n /\ \A i \in 1 .. Len(s) - n : b[i] = s[n + 1 + i - 1]
    BY <1>1, SubSeqProperties
  <2>2. \A i \in 1 .. Len(s) - n : i + n \in 1 .. Len(s) /\ n + 1 + i - 1 = i + n
    BY <1>1
  <2> QED
    BY <2>1, <2>2
<1>4. ASSUME NEW i \in 1 .. Len(s)
      PROVE  i \in 1 .. n \/ (i - n \in 1 .. Len(s) - n /\ i - n + n = i)
  BY <1>1
<1> HIDE DEF a, b
<1>5. In(pd, s) <=> In(pd, a) \/ In(pd, b)
  <2>1. In(pd, a) \/ In(pd, b) => In(pd, s)
    BY <1>2, <1>3 DEF In
  <2>2. ASSUME In(pd, s) PROVE In(pd, a) \/ In(pd, b)
    <3>1. PICK i \in 1 .. Len(s) : s[i] = pd
      BY <2>2 DEF In
    <3>2. CASE i \in 1 .. n
      BY <3>1, <3>2, <1>2 DEF In
    <3>3. CASE i - n \in 1 .. Len(s) - n /\ i - n + n = i
      BY <3>1, <3>3, <1>3 DEF In
    <3> QED
      BY <3>2, <3>3, <1>4
  <2> QED
    BY <2>1, <2>2
<1>6. ASSUME Once(pd, s) PROVE Once(pd, a) /\ Once(pd, b) /\ ~(In(pd, a) /\ In(pd, b))
  <2>1. Once(pd, a)
    BY <1>2, <1>6 DEF Once
  <2>2. ASSUME NEW i \in 1 .. Len(s) - n, NEW j \in 1 .. Len(s) - n, b[i] = pd, b[j] = pd
        PROVE  i = j
    <3>1. i + n = j + n
      BY <2>2, <1>3, <1>6 DEF Once
    <3> QED
      BY <3>1, <1>1
  <2>3. ASSUME NEW i \in 1 .. n, NEW j \in 1 .. Len(s) - n, a[i] = pd, b[j] = pd
        PROVE  FALSE
    <3>1. i = j + n
      BY <2>3, <1>2, <1>3, <1>6 DEF Once
    <3> QED
      BY <3>1, <1>1
  <2> QED
    BY <2>1, <2>2, <2>3, <1>2, <1>3 DEF Once, In
<1> QED
  BY <1>5, <1>6 DEF a, b

\* The oldest descriptor of a list and the rest.
LEMMA InTail ==
    ASSUME NEW S, NEW s \in Seq(S), s # <<>>, NEW pd
    PROVE  /\ In(pd, s) <=> pd = Head(s) \/ In(pd, Tail(s))
           /\ Once(pd, s) => Once(pd, Tail(s)) /\ (pd = Head(s) => ~In(pd, Tail(s)))
<1>1. /\ Len(s) \in Nat /\ Len(s) >= 1 /\ Head(s) = s[1] /\ Len(Tail(s)) = Len(s) - 1
      /\ \A i \in 1 .. Len(s) - 1 : i + 1 \in 1 .. Len(s) /\ i + 1 # 1 /\ Tail(s)[i] = s[i + 1]
  BY LenProperties, HeadTailProperties, EmptySeq
<1>2. 1 \in 1 .. Len(s) /\ \A i \in 1 .. Len(s) : i = 1 \/ (i - 1 \in 1 .. Len(s) - 1 /\ i - 1 + 1 = i)
  BY <1>1
<1>3. In(pd, s) <=> pd = Head(s) \/ In(pd, Tail(s))
  <2>1. pd = Head(s) \/ In(pd, Tail(s)) => In(pd, s)
    BY <1>1, <1>2 DEF In
  <2>2. In(pd, s) => pd = Head(s) \/ In(pd, Tail(s))
    BY <1>1, <1>2 DEF In
  <2> QED
    BY <2>1, <2>2
<1>4. ASSUME Once(pd, s), NEW i \in 1 .. Len(s) - 1, NEW j \in 1 .. Len(s) - 1,
             Tail(s)[i] = pd, Tail(s)[j] = pd
      PROVE  i = j
  <2>1. i + 1 = j + 1
    BY <1>1, <1>4 DEF Once
  <2> QED
    BY <2>1, <1>1
<1>5. ASSUME Once(pd, s), pd = Head(s), In(pd, Tail(s)) PROVE FALSE
  <2>1. PICK i \in 1 .. Len(s) - 1 : Tail(s)[i] = pd
    BY <1>1, <1>5 DEF In
  <2> QED
    BY <2>1, <1>1, <1>2, <1>5 DEF Once
<1> QED
  BY <1>1, <1>3, <1>4, <1>5 DEF Once

\* A descriptor added to a list.
LEMMA InAppend ==
    ASSUME NEW S, NEW s \in Seq(S), NEW e \in S, NEW pd
    PROVE  /\ In(pd, Append(s, e)) <=> In(pd, s) \/ pd = e
           /\ Once(pd, s) /\ ~(pd = e /\ In(pd, s)) => Once(pd, Append(s, e))
<1>1. /\ Len(s) \in Nat /\ Len(Append(s, e)) = Len(s) + 1
      /\ \A i \in 1 .. Len(s) : i \in 1 .. Len(s) + 1 /\ Append(s, e)[i] = s[i]
      /\ Append(s, e)[Len(s) + 1] = e
  BY LenProperties, AppendProperties
<1>2. Len(s) + 1 \in 1 .. Len(s) + 1 /\ \A i \in 1 .. Len(s) + 1 : i \in 1 .. Len(s) \/ i = Len(s) + 1
  BY <1>1
<1>3. In(pd, Append(s, e)) <=> In(pd, s) \/ pd = e
  BY <1>1, <1>2 DEF In
<1>4. Once(pd, s) /\ ~(pd = e /\ In(pd, s)) => Once(pd, Append(s, e))
  BY <1>1, <1>2 DEF In, Once
<1> QED
  BY <1>3, <1>4

\* A list whose references are not outstanding is offered: its first part a goes
\* to the ring, which makes t of s, the rest b to the drops of p, which makes e of
\* d, and all references of the list to r, which makes w of it.
Handed(pd, s, t, a, b, d, e, r, w, p) ==
    /\ d[p] = <<>> /\ e[p] = b
    /\ \A u \in Producer : u # p => e[u] = d[u]
    /\ pd \in w <=> pd \in r \/ In(pd, a) \/ In(pd, b)
    /\ In(pd, a) \/ In(pd, b) => pd \notin r
    /\ Once(pd, b) /\ ~(In(pd, a) /\ In(pd, b))
    /\ In(pd, t) <=> In(pd, s) \/ In(pd, a)
    /\ ~(In(pd, s) /\ In(pd, a)) => Once(pd, t)

\* Offering it keeps every reference in one place.
LEMMA OwnedInject ==
    ASSUME NEW pd, NEW s, NEW t, NEW a, NEW b, NEW out, NEW d, NEW e, NEW r, NEW w,
           NEW p \in Producer,
           Owned(pd, s, out, d, r), Handed(pd, s, t, a, b, d, e, r, w, p)
    PROVE  Owned(pd, t, out, e, w)
<1> USE DEF Handed
<1>1. ~In(pd, d[p])
  BY InEmpty
<1>2. (\E u \in Producer : In(pd, e[u])) <=> In(pd, b) \/ \E u \in Producer : In(pd, d[u])
  BY <1>1
<1>3. pd \in w <=> In(pd, t) \/ In(pd, out) \/ \E u \in Producer : In(pd, e[u])
  BY <1>2 DEF Owned
<1>4. Once(pd, t) /\ Once(pd, out) /\ \A u \in Producer : Once(pd, e[u])
  BY DEF Owned
<1>5. ~(In(pd, t) /\ In(pd, out))
  BY DEF Owned
<1>6. ASSUME NEW u \in Producer, In(pd, e[u]) PROVE ~In(pd, t) /\ ~In(pd, out)
  <2>1. CASE u = p
    BY <1>6, <2>1 DEF Owned
  <2>2. CASE u # p
    BY <1>6, <2>2 DEF Owned
  <2> QED
    BY <2>1, <2>2
<1>7. ASSUME NEW u \in Producer, NEW v \in Producer, In(pd, e[u]), In(pd, e[v]) PROVE u = v
  <2>1. CASE In(pd, b)
    <3>1. \A x \in Producer : ~In(pd, d[x])
      BY <2>1 DEF Owned
    <3>2. u = p /\ v = p
      BY <3>1, <1>7
    <3> QED
      BY <3>2
  <2>2. CASE ~In(pd, b)
    <3>1. u # p /\ v # p
      BY <2>2, <1>7
    <3> QED
      BY <3>1, <1>7 DEF Owned
  <2> QED
    BY <2>1, <2>2
<1> QED
  BY <1>3, <1>4, <1>5, <1>6, <1>7 DEF Owned

\* What a list of PdLists contributes to refs, and that it holds nothing twice.
LEMMA ListRefs ==
    ASSUME NEW list \in PdLists, NEW pd \in Pd \ MgmtPd
    PROVE  /\ In(pd, list) <=> pd \in SeqRange(list)
           /\ pd \in {x \in SeqRange(list) : HasCtx(x)} <=> In(pd, list)
           /\ Once(pd, list)
<1>1. In(pd, list) <=> pd \in SeqRange(list)
  BY DEF In, SeqRange
<1>2. \A i, j \in 1 .. Len(list) : i # j => list[i] # list[j]
  BY DEF PdLists
<1> QED
  BY <1>1, <1>2 DEF Once, HasCtx

\* The empty ring owns nothing.
LEMMA InitOwn == Init => OwnInv
<1> SUFFICES ASSUME Init PROVE OwnInv
  OBVIOUS
<1>1. Pending = <<>>
  BY InitFifo DEF Fifo!FifoInit
<1>2. pdctx_to_free = <<>> /\ refs = {} /\ \A p \in Producer : to_drop[p] = <<>>
  BY DEF Init
<1> QED
  BY <1>1, <1>2, InEmpty DEF OwnInv, IdleInv, Owned

\* A step that moves no reference.
LEMMA SameOwners ==
    ASSUME OwnInv, Pending' = Pending, UNCHANGED <<pdctx_to_free, pc, to_drop, refs>>
    PROVE  OwnInv'
BY DEF OwnInv, IdleInv, Owned

\* An injection hands each reference to the ring or to its own drops.
LEMMA InjectOwn ==
    ASSUME TxInv, OwnInv, NEW p \in Producer, NEW list \in PdLists, InjectTxPkts(p, list),
           astray' \in BOOLEAN
    PROVE  OwnInv'
<1> DEFINE n == Accepted(list)
           a == SubSeq(list, 1, n)
           b == SubSeq(list, n + 1, Len(list))
<1>1. n \in 0 .. Len(list) /\ Pending' = Pending \o a
  BY InjectPending
<1>2. list \in Seq(Pd) /\ Pending \in Seq(Pd) /\ Len(list) \in Nat
  BY PdListType, PendingType
<1>3. a \in Seq(Pd)
  BY <1>1, <1>2, SubSeqProperties
<1>4. /\ pc[p] = "idle" /\ SeqRange(list) \cap refs = {}
      /\ refs' = refs \cup {pd \in SeqRange(list) : HasCtx(pd)}
      /\ pdctx_to_free' = pdctx_to_free
      /\ to_drop' = [to_drop EXCEPT ![p] = b]
      /\ pc' = [pc EXCEPT ![p] = IF Len(list) - n > 0 THEN "drop" ELSE "idle"]
  BY DEF InjectTxPkts, passVars, DropList
<1>5. to_drop[p] = <<>> /\ to_drop'[p] = b /\ \A u \in Producer : u # p => to_drop'[u] = to_drop[u]
  BY <1>4 DEF OwnInv, IdleInv, TxInv, TypeOK
<1>6. IdleInv'
  <2> SUFFICES ASSUME NEW u \in Producer, pc'[u] = "idle" PROVE to_drop'[u] = <<>>
    BY DEF IdleInv
  <2>1. CASE u # p
    BY <2>1, <1>4, <1>5 DEF OwnInv, IdleInv, TxInv, TypeOK
  <2>2. CASE u = p
    <3>1. ~(Len(list) - n > 0)
      BY <2>2, <1>4 DEF TxInv, TypeOK
    <3>2. n = Len(list)
      BY <3>1, <1>1, <1>2
    <3>3. b = <<>>
      <4>1. Len(b) = 0 /\ b \in Seq(Pd)
        <5> HIDE DEF n
        <5> QED
          BY <3>2, <1>2, SubSeqProperties
      <4> QED
        BY <4>1, EmptySeq
    <3> QED
      BY <2>2, <3>3, <1>5
  <2> QED
    BY <2>1, <2>2
<1>7. ASSUME NEW pd \in Pd \ MgmtPd
      PROVE  Owned(pd, Pending', pdctx_to_free', to_drop', refs')
  <2> HIDE DEF n
  <2>1. Owned(pd, Pending, pdctx_to_free, to_drop, refs)
    BY DEF OwnInv
  <2>2. /\ In(pd, list) <=> In(pd, a) \/ In(pd, b)
        /\ Once(pd, a) /\ Once(pd, b) /\ ~(In(pd, a) /\ In(pd, b))
    BY <1>1, <1>2, ListRefs, InSplit
  <2>3. /\ In(pd, Pending') <=> In(pd, Pending) \/ In(pd, a)
        /\ Once(pd, Pending) /\ Once(pd, a) /\ ~(In(pd, Pending) /\ In(pd, a)) => Once(pd, Pending')
    BY <1>1, <1>2, <1>3, InConcat
  <2>4. Once(pd, Pending)
    BY <2>1 DEF Owned
  <2>5. /\ pd \in refs' <=> pd \in refs \/ In(pd, a) \/ In(pd, b)
        /\ In(pd, a) \/ In(pd, b) => pd \notin refs
    BY <2>2, <1>4, ListRefs
  <2> HIDE DEF a, b
  <2>6. Handed(pd, Pending, Pending', a, b, to_drop, to_drop', refs, refs', p)
    BY <2>2, <2>3, <2>4, <2>5, <1>5 DEF Handed
  <2>7. Owned(pd, Pending', pdctx_to_free, to_drop', refs')
    BY <2>1, <2>6, OwnedInject
  <2> QED
    BY <2>7, <1>4
<1> QED
  BY <1>6, <1>7 DEF OwnInv

\* Without a transmit interface the whole list goes to the drops.
LEMMA InjectDisabledOwn ==
    ASSUME TxInv, OwnInv, NEW p \in Producer, NEW list \in PdLists, InjectTxDisabled(p, list),
           Pending' = Pending
    PROVE  OwnInv'
<1>1. /\ pc[p] = "idle" /\ SeqRange(list) \cap refs = {}
      /\ refs' = refs \cup {pd \in SeqRange(list) : HasCtx(pd)}
      /\ pdctx_to_free' = pdctx_to_free
      /\ to_drop' = [to_drop EXCEPT ![p] = list] /\ pc' = [pc EXCEPT ![p] = "drop"]
  BY DEF InjectTxDisabled, passVars
<1>2. to_drop[p] = <<>> /\ to_drop'[p] = list /\ \A u \in Producer : u # p => to_drop'[u] = to_drop[u]
  BY <1>1 DEF OwnInv, IdleInv, TxInv, TypeOK
<1>3. IdleInv'
  BY <1>1, <1>2 DEF OwnInv, IdleInv, TxInv, TypeOK
<1>4. ASSUME NEW pd \in Pd \ MgmtPd
      PROVE  Owned(pd, Pending', pdctx_to_free', to_drop', refs')
  <2>1. Owned(pd, Pending, pdctx_to_free, to_drop, refs)
    BY DEF OwnInv
  <2>2. Once(pd, Pending)
    BY <2>1 DEF Owned
  <2>3. /\ pd \in refs' <=> pd \in refs \/ In(pd, <<>>) \/ In(pd, list)
        /\ In(pd, <<>>) \/ In(pd, list) => pd \notin refs
        /\ Once(pd, list) /\ ~In(pd, <<>>)
    BY <1>1, ListRefs, InEmpty
  <2>4. Handed(pd, Pending, Pending, <<>>, list, to_drop, to_drop', refs, refs', p)
    BY <2>2, <2>3, <1>2 DEF Handed
  <2>5. Owned(pd, Pending, pdctx_to_free, to_drop', refs')
    BY <2>1, <2>4, OwnedInject
  <2> QED
    BY <2>5, <1>1
<1> QED
  BY <1>3, <1>4 DEF OwnInv

\* uinet_pd_drop_injected releases exactly the references of its list.
LEMMA DropOwn ==
    ASSUME TxInv, OwnInv, NEW p \in Producer, DropInjected(p), Pending' = Pending
    PROVE  OwnInv'
<1>1. /\ refs' = refs \ SeqRange(to_drop[p]) /\ pdctx_to_free' = pdctx_to_free
      /\ to_drop'[p] = <<>> /\ \A u \in Producer : u # p => to_drop'[u] = to_drop[u]
      /\ \A u \in Producer : u # p => pc'[u] = pc[u]
  BY DEF DropInjected, passVars, TxInv, TypeOK
<1>2. IdleInv'
  BY <1>1 DEF OwnInv, IdleInv
<1>3. ASSUME NEW pd \in Pd \ MgmtPd
      PROVE  Owned(pd, Pending', pdctx_to_free', to_drop', refs')
  <2>1. Owned(pd, Pending, pdctx_to_free, to_drop, refs)
    BY DEF OwnInv
  <2>2. pd \in refs' <=> pd \in refs /\ ~In(pd, to_drop[p])
    BY <1>1 DEF In, SeqRange
  <2>3. ~In(pd, to_drop'[p]) /\ Once(pd, to_drop'[p])
    BY <1>1, InEmpty
  <2>4. \A u \in Producer : In(pd, to_drop'[u]) <=> u # p /\ In(pd, to_drop[u])
    BY <2>3, <1>1
  <2>5. \A u \in Producer : Once(pd, to_drop'[u])
    BY <2>1, <2>3, <1>1 DEF Owned
  <2>6. pd \in refs' <=> \/ In(pd, Pending') \/ In(pd, pdctx_to_free')
                         \/ \E u \in Producer : In(pd, to_drop'[u])
    BY <2>1, <2>2, <2>4, <1>1 DEF Owned
  <2> QED
    BY <2>1, <2>4, <2>5, <2>6, <1>1 DEF Owned
<1> QED
  BY <1>2, <1>3 DEF OwnInv

\* A descriptor the pass deals with moves from the ring to the pass's list.
LEMMA SendOwn ==
    ASSUME TxInv, OwnInv, SendOne
    PROVE  OwnInv'
<1>1. Pending # <<>> /\ Pending' = Tail(Pending) /\ Head(Pending) = descs[local_take]
  BY SendPending
<1>2. Pending \in Seq(Pd) /\ pdctx_to_free \in Seq(Pd) /\ Head(Pending) \in Pd
  BY <1>1, PendingType, HeadTailProperties DEF TxInv, TypeOK
<1>3. UNCHANGED <<pc, to_drop, refs>>
  BY DEF SendOne, prodVars
<1>4. pdctx_to_free' = IF HasCtx(Head(Pending)) THEN Append(pdctx_to_free, Head(Pending))
                       ELSE pdctx_to_free
  BY <1>1 DEF SendOne
<1>5. ASSUME NEW pd \in Pd \ MgmtPd
      PROVE  Owned(pd, Pending', pdctx_to_free', to_drop', refs')
  <2> DEFINE h == pd = Head(Pending)
  <2>1. Owned(pd, Pending, pdctx_to_free, to_drop, refs)
    BY DEF OwnInv
  <2>2. /\ In(pd, Pending) <=> h \/ In(pd, Pending')
        /\ Once(pd, Pending) => Once(pd, Pending') /\ (h => ~In(pd, Pending'))
    BY <1>1, <1>2, InTail
  <2>3. /\ In(pd, pdctx_to_free') <=> In(pd, pdctx_to_free) \/ h
        /\ Once(pd, pdctx_to_free) /\ ~(h /\ In(pd, pdctx_to_free)) => Once(pd, pdctx_to_free')
    <3>1. CASE HasCtx(Head(Pending))
      BY <3>1, <1>2, <1>4, InAppend
    <3>2. CASE ~HasCtx(Head(Pending))
      <4>1. ~h
        BY <3>2 DEF HasCtx
      <4> QED
        BY <4>1, <3>2, <1>4
    <3> QED
      BY <3>1, <3>2
  <2> HIDE DEF h
  <2> QED
    BY <2>1, <2>2, <2>3, <1>3 DEF Owned
<1>6. IdleInv'
  BY <1>3 DEF OwnInv, IdleInv
<1> QED
  BY <1>5, <1>6 DEF OwnInv

\* The end of a pass releases exactly the references of its list.
LEMMA FinishOwn ==
    ASSUME TxInv, OwnInv, FinishPass, Pending' = Pending
    PROVE  OwnInv'
<1>1. refs' = refs \ SeqRange(pdctx_to_free) /\ pdctx_to_free' = <<>> /\ UNCHANGED <<pc, to_drop>>
  BY DEF FinishPass, prodVars
<1>2. ASSUME NEW pd \in Pd \ MgmtPd
      PROVE  Owned(pd, Pending', pdctx_to_free', to_drop', refs')
  <2>1. Owned(pd, Pending, pdctx_to_free, to_drop, refs)
    BY DEF OwnInv
  <2>2. pd \in refs' <=> pd \in refs /\ ~In(pd, pdctx_to_free)
    BY <1>1 DEF In, SeqRange
  <2>3. ~In(pd, pdctx_to_free') /\ Once(pd, pdctx_to_free')
    BY <1>1, InEmpty
  <2> QED
    BY <2>1, <2>2, <2>3, <1>1 DEF Owned
<1>3. IdleInv'
  BY <1>1 DEF OwnInv, IdleInv
<1> QED
  BY <1>2, <1>3 DEF OwnInv

\* Every other step leaves the waiting descriptors, the pass's list, the drops
\* and the references alone.
LEMMA NextOwn == TxInv /\ OwnInv /\ [Next]_vars => OwnInv'
<1> SUFFICES ASSUME TxInv, OwnInv, [Next]_vars PROVE OwnInv'
  OBVIOUS
<1>0. astray' \in BOOLEAN
  BY AstrayType DEF TxInv
<1>1. ASSUME NEW p \in Producer, Inject(p) PROVE OwnInv'
  <2>1. PICK list \in PdLists : InjectTxPkts(p, list) \/ InjectTxDisabled(p, list)
    BY <1>1 DEF Inject
  <2>2. CASE InjectTxDisabled(p, list)
    <3>1. Pending' = Pending
      BY <2>2, SamePending DEF InjectTxDisabled, ringVars, passVars, FirstUnsent
    <3> QED
      BY <2>2, <3>1, InjectDisabledOwn
  <2> QED
    BY <1>0, <2>1, <2>2, InjectOwn
<1>2. ASSUME NEW p \in Producer, DropInjected(p) PROVE OwnInv'
  <2>1. Pending' = Pending
    BY <1>2, SamePending DEF DropInjected, ringVars, passVars, FirstUnsent
  <2> QED
    BY <1>2, <2>1, DropOwn
<1>3. CASE SendOne
  BY <1>3, SendOwn
<1>4. CASE FinishPass
  <2>1. Pending' = Pending
    BY <1>4, SamePending DEF FinishPass, FirstUnsent
  <2> QED
    BY <1>4, <2>1, FinishOwn
<1>5. CASE TxEnter \/ TxWakeup \/ TxStop \/ BatchSend
  <2>1. UNCHANGED <<descs, put, tx_use_thread, cur_inject_take, pc, to_drop, refs>>
    BY <1>5 DEF TxEnter, TxWakeup, TxStop, BatchSend, Snapshot, ringVars, prodVars
  <2>2. txpc # "send" /\ (txpc = "wait" => tx_use_thread /\ cur_inject_take = take)
    BY <1>5, AsleepPosition DEF TxEnter, TxWakeup, TxStop, BatchSend
  <2>3. FirstUnsent' = FirstUnsent
    <3>1. CASE TxEnter
      BY <3>1, <2>1 DEF TxEnter, Snapshot, FirstUnsent
    <3>2. CASE TxWakeup
      BY <3>2, <2>1, <2>2 DEF TxWakeup, Snapshot, FirstUnsent, ringVars, passVars
    <3>3. CASE TxStop
      BY <3>3, <2>1, <2>2 DEF TxStop, Snapshot, FirstUnsent
    <3>4. CASE BatchSend
      BY <3>4, <2>1 DEF BatchSend, Snapshot, FirstUnsent
    <3> QED
      BY <1>5, <3>1, <3>2, <3>3, <3>4
  <2>4. pdctx_to_free' = pdctx_to_free
    <3>1. pdctx_to_free = <<>>
      BY <2>2 DEF TxInv, PassInv
    <3> QED
      BY <3>1, <1>5 DEF TxEnter, TxWakeup, TxStop, BatchSend, Snapshot, passVars
  <2> QED
    BY <2>1, <2>3, <2>4, SamePending, SameOwners
<1>6. CASE StopTxThread \/ Detach \/ FollowUnsetCtx \/ UNCHANGED vars
  <2>1. UNCHANGED <<descs, put, FirstUnsent, pdctx_to_free, pc, to_drop, refs>>
    BY <1>6 DEF StopTxThread, Detach, FollowUnsetCtx, vars, ringVars, passVars, prodVars, FirstUnsent
  <2> QED
    BY <2>1, SamePending, SameOwners
<1> QED
  BY <1>1, <1>2, <1>3, <1>4, <1>5, <1>6 DEF Next, TxStep

\* Whatever the producers and the transmit side do, a reference that
\* if_dpdk_inject_tx_pkts took over is never released twice, and it is released
\* by the pass that sends the packet or by the producer that had to drop it,
\* unless the thread stops or the interface is detached with the descriptor
\* still in the ring: those references, and no others, are never released.
THEOREM TxRefsOwnedOnce == Spec => []RefsOwnedOnce
<1>1. OwnInv => RefsOwnedOnce
  <2> SUFFICES ASSUME OwnInv, NEW pd \in Pd \ MgmtPd
               PROVE  /\ pd \in refs <=> Holders(pd) # {} \/ Leaked(pd)
                      /\ \A x, y \in Holders(pd) : x = y
                      /\ Leaked(pd) => Holders(pd) = {}
    BY DEF RefsOwnedOnce
  <2>1. Owned(pd, Pending, pdctx_to_free, to_drop, refs)
    BY DEF OwnInv
  <2>2. ASSUME NEW x \in Holders(pd)
        PROVE  \/ ~RingAbandoned /\ \E j \in 1 .. Len(Pending) : Pending[j] = pd /\ x = <<"ring", j>>
               \/ \E j \in 1 .. Len(pdctx_to_free) : pdctx_to_free[j] = pd /\ x = <<"pass", j>>
               \/ \E p \in Producer : \E j \in 1 .. Len(to_drop[p]) :
                    to_drop[p][j] = pd /\ x = <<p, j>>
    BY <2>2, Zenon DEF Holders
  <2>3. ASSUME ~RingAbandoned, NEW j \in 1 .. Len(Pending), Pending[j] = pd
        PROVE  <<"ring", j>> \in Holders(pd)
    BY <2>3, Zenon DEF Holders
  <2>4. ASSUME NEW j \in 1 .. Len(pdctx_to_free), pdctx_to_free[j] = pd
        PROVE  <<"pass", j>> \in Holders(pd)
    BY <2>4, Zenon DEF Holders
  <2>5. ASSUME NEW p \in Producer, NEW j \in 1 .. Len(to_drop[p]), to_drop[p][j] = pd
        PROVE  <<p, j>> \in Holders(pd)
    <3> DEFINE Mine(u) == {<<u, k>> : k \in {i \in 1 .. Len(to_drop[u]) : to_drop[u][i] = pd}}
    <3>1. <<p, j>> \in Mine(p)
      BY <2>5
    <3> HIDE DEF Mine
    <3>2. <<p, j>> \in UNION {Mine(u) : u \in Producer}
      BY <3>1
    <3> QED
      BY <3>2 DEF Holders, Mine
  <2>6. Holders(pd) # {} <=> \/ ~RingAbandoned /\ In(pd, Pending)
                             \/ In(pd, pdctx_to_free)
                             \/ \E p \in Producer : In(pd, to_drop[p])
    BY <2>2, <2>3, <2>4, <2>5, Zenon DEF In
  <2>7. ASSUME NEW x \in Holders(pd), NEW y \in Holders(pd) PROVE x = y
    <3>1. CASE In(pd, Pending)
      <4>1. ~In(pd, pdctx_to_free) /\ \A p \in Producer : ~In(pd, to_drop[p])
        BY <2>1, <3>1 DEF Owned
      <4>2. PICK i \in 1 .. Len(Pending) : Pending[i] = pd /\ x = <<"ring", i>>
        BY <2>2, <4>1, Zenon DEF In
      <4>3. PICK j \in 1 .. Len(Pending) : Pending[j] = pd /\ y = <<"ring", j>>
        BY <2>2, <4>1, Zenon DEF In
      <4> QED
        BY <4>2, <4>3, <2>1 DEF Owned, Once
    <3>2. CASE In(pd, pdctx_to_free)
      <4>1. ~In(pd, Pending) /\ \A p \in Producer : ~In(pd, to_drop[p])
        BY <2>1, <3>2 DEF Owned
      <4>2. PICK i \in 1 .. Len(pdctx_to_free) : pdctx_to_free[i] = pd /\ x = <<"pass", i>>
        BY <2>2, <4>1, Zenon DEF In
      <4>3. PICK j \in 1 .. Len(pdctx_to_free) : pdctx_to_free[j] = pd /\ y = <<"pass", j>>
        BY <2>2, <4>1, Zenon DEF In
      <4> QED
        BY <4>2, <4>3, <2>1 DEF Owned, Once
    <3>3. CASE ~In(pd, Pending) /\ ~In(pd, pdctx_to_free)
      <4>1. PICK p \in Producer : \E i \in 1 .. Len(to_drop[p]) : to_drop[p][i] = pd /\ x = <<p, i>>
        BY <2>2, <3>3, Zenon DEF In
      <4>2. PICK u \in Producer : \E j \in 1 .. Len(to_drop[u]) : to_drop[u][j] = pd /\ y = <<u, j>>
        BY <2>2, <3>3, Zenon DEF In
      <4>3. p = u
        BY <4>1, <4>2, <2>1 DEF Owned, In
      <4> QED
        BY <4>1, <4>2, <4>3, <2>1 DEF Owned, Once
    <3> QED
      BY <3>1, <3>2, <3>3
  <2>8. Leaked(pd) <=> RingAbandoned /\ In(pd, Pending)
    BY Zenon DEF Leaked, In
  <2>9. In(pd, Pending) => ~In(pd, pdctx_to_free) /\ \A p \in Producer : ~In(pd, to_drop[p])
    BY <2>1 DEF Owned
  <2> QED
    BY <2>1, <2>6, <2>7, <2>8, <2>9 DEF Owned
<1>2. Spec => []OwnInv
  BY InitOwn, NextOwn, TxInvariant, PTL DEF Spec
<1> QED
  BY <1>1, <1>2, PTL
=============================================================================

----------------------------- MODULE RxBuffers ------------------------------
(***************************************************************************)
(* The buffers and packet contexts of the DPDK receive path: how           *)
(* if_dpdk_batch_receive (uinet_if_dpdk.c) fills its descriptor list with  *)
(* contexts (uinet_pkt_desc.c), lends each context a NIC buffer whose own  *)
(* 16-bit count becomes the mbuf's reference count, and hands the mbufs to *)
(* the stack; and how the threads that free the last mbuf give buffer and  *)
(* context back (mb_free_ext, if_dpdk_free_rte_buf, rte_pktmbuf_free).     *)
(*                                                                         *)
(* The interface has no first-look handler, as ud_ifconfig.c sets it up.   *)
(* The receive thread runs against any number of threads that share and    *)
(* free mbufs.  What the stack does with a packet in between is external.  *)
(***************************************************************************)
EXTENDS Naturals, Sequences, FiniteSets

CONSTANTS
  Ctx,       \* contexts: struct uinet_pd_ctx with its mbuf
  Buf,       \* NIC buffers: struct rte_mbuf
  Threads,   \* threads that free mbufs
  Nil,       \* neither a context nor a buffer
  BatchSize, \* rx_batch_size
  Burst,     \* MAX_BURST_SIZE
  MaxMbufs   \* bound on the mbufs that share one buffer

UINT16_MAX == 65535

\* The mbufs that share a buffer, and those on their way through mb_free_ext,
\* are no more than its 16-bit count can hold.
ASSUME RxBuffersAssumption ==
  /\ Nil \notin Ctx \cup Buf
  /\ BatchSize \in Nat \ {0} /\ Burst \in Nat \ {0}
  /\ IsFiniteSet(Threads)
  /\ MaxMbufs \in Nat \ {0}
  /\ MaxMbufs + Cardinality(Threads) <= UINT16_MAX

VARIABLES
  zone,      \* contexts that zone_pd_mbuf_ctx holds
  rx_pds,    \* the contexts of sc->rx_pds, num_descs of them
  descs,     \* the buffers lent to the contexts at its head in this batch
  delivered, \* how many of those the stack has been given
  rxpc,      \* where if_dpdk_batch_receive is
  nic,       \* buffers that DPDK owns: in its pool or on the NIC's queue
  arg2,      \* m_ext.ext_arg2 of the mbufs that refer to a buffer: its context
  refcnt,    \* the rte_mbuf's 16-bit count, which m_ext.ref_cnt points to
  mbufs,     \* how many mbufs of the stack refer to the buffer
  freeing,   \* the arguments of the ext_free that a thread is on its way to
  fpc,       \* where each thread is in mb_free_ext
  truncated  \* buffers of a burst that found no context (history)

rxvars == <<rx_pds, descs, delivered, rxpc>>
freevars == <<freeing, fpc>>
vars == <<zone, rxvars, nic, arg2, refcnt, mbufs, freevars, truncated>>

RxPlaces == {"topup", "recv", "deliver"}
\* Outside mb_free_ext, about to decrement atomically, about to call
\* dh_free_desc, about to free the context.
FreePlaces == {"out", "dec", "desc", "ctx"}

Init ==
  /\ zone = Ctx
  /\ rx_pds = <<>> /\ descs = <<>> /\ delivered = 0 /\ rxpc = "topup"
  /\ nic = Buf
  /\ arg2 = [b \in Buf |-> Nil]
  /\ refcnt = [b \in Buf |-> 0]
  /\ mbufs = [b \in Buf |-> 0]
  /\ freeing = [t \in Threads |-> [base |-> Nil, ctx |-> Nil]]
  /\ fpc = [t \in Threads |-> "out"]
  /\ truncated = {}

SeqRange(s) == {s[i] : i \in DOMAIN s}
\* Lists of at most n different elements of S.
ListsOf(S, n) ==
  UNION {{s \in [1..m -> S] : \A i, j \in 1..m : s[i] = s[j] => i = j} : m \in 0..n}

----------------------------------------------------------------------------
(* if_dpdk_batch_receive *)

\* Mutant: the list is filled up by a whole batch.
RoomForBatch == BatchSize

\* What the list lacks.
Room == BatchSize - Len(rx_pds)

\* Top off the packet descriptor list: uinet_pd_mbuf_alloc_descs, which stops
\* where uma_zalloc(M_NOWAIT) gives nothing more.
TopUp ==
  /\ rxpc = "topup"
  /\ \E new \in ListsOf(zone, Room) :
       /\ rx_pds' = rx_pds \o new
       /\ zone' = zone \ SeqRange(new)
  /\ rxpc' = "recv"
  /\ UNCHANGED <<descs, delivered, nic, arg2, refcnt, mbufs, freevars, truncated>>

\* The packets of a burst for which there is a context.
Fitting(burst) ==
  SubSeq(burst, 1, IF Len(burst) < Len(rx_pds) THEN Len(burst) ELSE Len(rx_pds))

\* if_dpdk_getpacket, and the loop that lends the buffers received to the
\* contexts at the head of the list, m_extadd setting each count to 1.
Receive ==
  /\ rxpc = "recv"
  /\ \E burst \in ListsOf(nic, Burst) :
       LET lent == Fitting(burst) IN
         /\ nic' = nic \ SeqRange(burst)
         /\ descs' = lent
         /\ arg2' = [b \in Buf |->
                       IF b \in SeqRange(lent)
                         THEN rx_pds[CHOOSE i \in DOMAIN lent : lent[i] = b] ELSE arg2[b]]
         /\ refcnt' = [b \in Buf |-> IF b \in SeqRange(burst) THEN 1 ELSE refcnt[b]]
         /\ truncated' = truncated \cup (SeqRange(burst) \ SeqRange(lent))
         /\ rxpc' = IF lent = <<>> THEN "topup" ELSE "deliver"
  /\ delivered' = 0
  /\ UNCHANGED <<zone, rx_pds, mbufs, freevars>>

\* uinet_pd_deliver_to_stack gives the next mbuf to if_input.
Deliver ==
  /\ rxpc = "deliver" /\ delivered < Len(descs)
  /\ delivered' = delivered + 1
  /\ mbufs' = [mbufs EXCEPT ![descs[delivered + 1]] = 1]
  /\ UNCHANGED <<zone, rx_pds, descs, rxpc, nic, arg2, refcnt, freevars, truncated>>

\* The descriptors that memmove brings to the front.
Rest == SubSeq(rx_pds, Len(descs) + 1, Len(rx_pds))

FinishBatch ==
  /\ rxpc = "deliver" /\ delivered = Len(descs)
  /\ rx_pds' = Rest
  /\ descs' = <<>> /\ delivered' = 0
  /\ rxpc' = "topup"
  /\ UNCHANGED <<zone, nic, arg2, refcnt, mbufs, freevars, truncated>>

----------------------------------------------------------------------------
(* The stack's mbufs *)

\* Mutant: the new mbuf is not counted.
DupUncounted(n) == n

\* The count after one more mbuf refers to the buffer.
Dup(n) == n + 1

\* mb_dupcl: an mbuf of the stack is shared, by m_copym for example.
Share(b) ==
  /\ mbufs[b] \in 1 .. MaxMbufs - 1
  /\ mbufs' = [mbufs EXCEPT ![b] = @ + 1]
  /\ refcnt' = [refcnt EXCEPT ![b] = Dup(@)]
  /\ UNCHANGED <<zone, rxvars, nic, arg2, freevars, truncated>>

\* A thread frees an mbuf: mb_free_ext reads the count, and leaves a count of
\* 1 as it is.
FreeReads(t, b) ==
  /\ fpc[t] = "out" /\ mbufs[b] > 0
  /\ mbufs' = [mbufs EXCEPT ![b] = @ - 1]
  /\ freeing' = [freeing EXCEPT ![t] = [base |-> b, ctx |-> arg2[b]]]
  /\ fpc' = [fpc EXCEPT ![t] = IF refcnt[b] = 1 THEN "desc" ELSE "dec"]
  /\ UNCHANGED <<zone, rxvars, nic, arg2, refcnt, truncated>>

\* atomic_fetchadd_int: the thread that finds 1 has the last reference.
FreeDecrements(t) ==
  LET b == freeing[t].base IN
  /\ fpc[t] = "dec"
  /\ refcnt' = [refcnt EXCEPT ![b] = @ - 1]
  /\ fpc' = [fpc EXCEPT ![t] = IF refcnt[b] = 1 THEN "desc" ELSE "out"]
  /\ UNCHANGED <<zone, rxvars, nic, arg2, mbufs, freeing, truncated>>

\* What rte_mbuf_refcnt_update(m, -1) makes of a 16-bit count.
Lowered(n) == IF n = 0 THEN UINT16_MAX ELSE n - 1

\* Mutant: the NIC buffer is not given back.
DescKept(b) == nic

\* rte_pktmbuf_free puts the buffer back only if that made its count 0.
DescFreed(b) == IF Lowered(refcnt[b]) = 0 THEN nic \cup {b} ELSE nic

\* if_dpdk_free_rte_buf, up to dh_free_desc.
FreeDesc(t) ==
  LET b == freeing[t].base IN
  /\ fpc[t] = "desc"
  /\ refcnt' = [refcnt EXCEPT ![b] = Lowered(@)]
  /\ nic' = DescFreed(b)
  /\ fpc' = [fpc EXCEPT ![t] = "ctx"]
  /\ UNCHANGED <<zone, rxvars, arg2, mbufs, freeing, truncated>>

\* Mutant: the context that the buffer is lent to by now is given back.
CtxOfBuffer(t) == arg2[freeing[t].base]

\* The dummy of if_dpdk_free_rte_buf.
CtxGivenBack(t) == freeing[t].ctx

\* uinet_pd_mbuf_free_descs
FreeCtx(t) ==
  /\ fpc[t] = "ctx"
  /\ zone' = zone \cup {CtxGivenBack(t)}
  /\ fpc' = [fpc EXCEPT ![t] = "out"]
  /\ UNCHANGED <<rxvars, nic, arg2, refcnt, mbufs, freeing, truncated>>

----------------------------------------------------------------------------
RxNext == TopUp \/ Receive \/ Deliver \/ FinishBatch
FreeNext(t) ==
  \/ \E b \in Buf : FreeReads(t, b)
  \/ FreeDecrements(t) \/ FreeDesc(t) \/ FreeCtx(t)
Next == RxNext \/ (\E b \in Buf : Share(b)) \/ (\E t \in Threads : FreeNext(t))

Spec == Init /\ [][Next]_vars

----------------------------------------------------------------------------
(* Properties *)

\* Every variable has its type; the descriptor list never outgrows the
\* rx_batch_size entries it was allocated with.
TypeOK ==
  /\ zone \subseteq Ctx /\ nic \subseteq Buf /\ truncated \subseteq Buf
  /\ rx_pds \in Seq(Ctx) /\ Len(rx_pds) <= BatchSize
  /\ descs \in Seq(Buf) /\ Len(descs) <= Len(rx_pds)
  /\ delivered \in 0 .. Len(descs)
  /\ rxpc \in RxPlaces
  /\ arg2 \in [Buf -> Ctx \cup {Nil}]
  /\ refcnt \in [Buf -> 0 .. UINT16_MAX]
  /\ mbufs \in [Buf -> 0 .. MaxMbufs]
  /\ freeing \in [Threads -> [base : Buf \cup {Nil}, ctx : Ctx \cup {Nil}]]
  /\ fpc \in [Threads -> FreePlaces]

\* In this batch and not with the stack yet.
InBatch(b) == \E i \in delivered + 1 .. Len(descs) : descs[i] = b
\* Someone will still look at the buffer or its count.
InUse(b) ==
  \/ InBatch(b) \/ mbufs[b] > 0
  \/ \E t \in Threads : fpc[t] \in {"dec", "desc"} /\ freeing[t].base = b
\* Contexts that belong to the receive thread's list.
Listed == {rx_pds[i] : i \in Len(descs) + 1 .. Len(rx_pds)}

\* A buffer that some mbuf, or some thread on its way through mb_free_ext,
\* refers to is not with the NIC, and its context is neither free nor on the
\* list for the next packet: nobody's packet is overwritten, however the
\* releases of shared mbufs interleave.
NoUseAfterFree == \A b \in Buf : InUse(b) =>
  /\ b \notin nic
  /\ arg2[b] \in Ctx \ (zone \cup Listed)

\* No context is lost and none is handed out twice: each is free, on the list,
\* lent to a buffer in use, or about to be given back by one thread.
ContextsKept ==
  /\ Ctx = zone \cup Listed
             \cup {arg2[b] : b \in {x \in Buf : InUse(x)}}
             \cup {freeing[t].ctx : t \in {u \in Threads : fpc[u] = "ctx"}}
  /\ zone \cap Listed = {}
  /\ \A i, j \in DOMAIN rx_pds : rx_pds[i] = rx_pds[j] => i = j
  /\ \A a, b \in Buf : InUse(a) /\ InUse(b) /\ arg2[a] = arg2[b] => a = b

\* A NIC buffer gets lost in two ways only: its burst met a list without a
\* context left for it, or its last two mbufs were freed at the same time, so
\* that the atomic decrement took the count to 0 and rte_mbuf_refcnt_update
\* from there to 65535.
LostOnlyByRace == \A b \in Buf :
  b \in nic \/ InUse(b) \/ b \in truncated \/ refcnt[b] = UINT16_MAX
=============================================================================

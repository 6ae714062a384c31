------------------------------ MODULE TxInject ------------------------------
(***************************************************************************)
(* The transmit injection queue of a DPDK interface (uinet_if_dpdk.c).     *)
(*                                                                         *)
(* Any number of producers (first-look handlers, applications) copy packet *)
(* descriptors into tx_inject_ring under tx_lock; one transmit thread      *)
(* (if_dpdk_send) snapshots the ring under the lock, hands the packets to  *)
(* the NIC without it, and gives the slots back only when it next takes    *)
(* the lock.  In single-threaded-stack (STS) mode there is no thread and no *)
(* lock: if_dpdk_batch_send drains the ring on the stack's own thread.     *)
(*                                                                         *)
(* A critical section is one atomic action; everything the code does       *)
(* outside the lock is an action of its own.                               *)
(***************************************************************************)
EXTENDS PdRing, Sequences, FiniteSets

CONSTANTS
    Pd,          \* descriptors flagged UINET_PD_INJECT that callers may offer
    MgmtPd,      \* those flagged UINET_PD_MGMT_ONLY: no packet, no context
    Producer,    \* threads that call uif->inject_tx_pkts
    NoPd,        \* contents of a slot that was never filled
    QueueLen,    \* uif->tx_inject_queue_len
    MaxBurst,    \* MAX_BURST_SIZE, packets per call of if_dpdk_sendpacket
    MaxBatch,    \* bound: descriptors per list
    MaxDrops,    \* bound: drops not yet collected by the transmit side
    MaxCalls     \* bound: tx_pkts_to_send

ASSUME TxInjectAssumption ==
    /\ MgmtPd \subseteq Pd
    /\ NoPd \notin Pd
    /\ QueueLen \in Nat
    /\ MaxBurst \in Nat \ {0}
    /\ MaxBatch \in Nat
    /\ MaxDrops \in Nat
    /\ MaxCalls \in Nat

VARIABLES
    descs, put, take, drops, \* struct uinet_pd_ring *tx_inject_ring
    tx_use_thread,           \* sc->tx_use_thread: a transmit thread of its own, or STS
    tx_disabled,             \* no transmit interface in the configuration string
    tx_pkts_to_send,         \* calls made since the transmit thread last looked
    pc,                      \* per producer: "idle", or "drop" with drops to release
    to_drop,                 \* per producer: the descriptors it must release
    txpc,                    \* where the transmit side is
    signalled,               \* a cv_signal reached the waiting transmit thread
    cur_inject_take,         \* if_dpdk_send's own copy of take
    local_take, local_put,   \* snapshot being worked through
    inject_drops, n_copy,    \* per-pass statistics
    pkts,                    \* pkts[]: packets collected for the next burst
    pdctx_to_free,           \* tx_pdctx_to_free[]: contexts to release after the pass
    stop_req,                \* kthread_stop was called on the transmit thread
    refs,                    \* descriptors whose injection reference is outstanding
    uncounted,               \* descriptors offered that no interface counter shows yet
    astray                   \* an unset ctx was followed: a crash or worse, not modelled

ringVars == <<descs, put, take, drops>>
passVars == <<local_take, local_put, inject_drops, n_copy, pkts, pdctx_to_free>>
prodVars == <<pc, to_drop>>
vars == <<ringVars, passVars, prodVars, tx_use_thread, tx_disabled, tx_pkts_to_send, txpc,
          signalled, cur_inject_take, stop_req, refs, uncounted, astray>>

N == ring_alloc(QueueLen)
Slot == 0 .. N - 1
HasCtx(pd) == pd \notin MgmtPd
SeqRange(s) == {s[i] : i \in 1 .. Len(s)}

\* Lists of distinct descriptors, none of them still referenced elsewhere.  The
\* loop of if_dpdk_inject_tx_pkts skips descriptors without UINET_PD_INJECT, so
\* a list is represented by the ones that have it.
PdLists == {s \in UNION {[1 .. n -> Pd] : n \in 0 .. MaxBatch} :
                \A i, j \in 1 .. Len(s) : i # j => s[i] # s[j]}

Init ==
    /\ descs = [i \in Slot |-> NoPd]
    /\ put = 0 /\ take = 0 /\ drops = 0
    /\ tx_use_thread \in BOOLEAN /\ tx_disabled \in BOOLEAN
    /\ tx_pkts_to_send = 0
    /\ pc = [p \in Producer |-> "idle"]
    /\ to_drop = [p \in Producer |-> <<>>]
    /\ txpc = "enter"
    /\ signalled = FALSE
    /\ cur_inject_take = 0
    /\ local_take = 0 /\ local_put = 0
    /\ inject_drops = 0 /\ n_copy = 0
    /\ pkts = <<>> /\ pdctx_to_free = <<>>
    /\ stop_req = FALSE
    /\ refs = {}
    /\ uncounted = 0
    /\ astray = FALSE

-----------------------------------------------------------------------------
(* Producers: if_dpdk_inject_tx_pkts *)

\* In STS mode producers and the transmit side share one thread of control.
ProducerMayRun ==
    /\ txpc # "detached"
    /\ ~tx_use_thread => txpc = "enter" /\ \A q \in Producer : pc[q] = "idle"

\* Mutant: fills the slot that must stay empty.
AcceptedUsingEverySlot(list) ==
    LET space == ring_space(N, put, take) + 1
    IN  IF Len(list) <= space THEN Len(list) ELSE space

\* How many descriptors of the list find a free slot.
Accepted(list) ==
    LET space == ring_space(N, put, take)
    IN  IF Len(list) <= space THEN Len(list) ELSE space

\* Mutant: the list to release starts one descriptor too early.
DropListOffByOne(list, n) == SubSeq(list, IF n = 0 THEN 1 ELSE n, Len(list))

\* The descriptors from first_drop_pd on, n having been accepted.
DropList(list, n) == SubSeq(list, n + 1, Len(list))

\* Mutant: forgets to count the call.
CallsPlusNothing(calls) == calls

\* tx_pkts_to_send counts calls, not packets.
CallsPlusOne(calls) == calls + 1

\* Mutant: signals on every call but the first.
SignalUnlessFirst(calls) == calls > 1

\* cv_signal only when the count leaves zero.
MustSignal(calls) == calls = 1

\* Lines 384-422 up to the unlock: fill slots, count drops, wake the thread on
\* the first call since it last looked.
InjectTxPkts(p, list) ==
    /\ pc[p] = "idle" /\ ProducerMayRun /\ ~tx_disabled
    /\ SeqRange(list) \cap refs = {}
    /\ tx_pkts_to_send < MaxCalls
    /\ LET n == Accepted(list)
           num_drops == Len(list) - n
       IN  /\ drops + num_drops <= MaxDrops
           /\ descs' = [i \in Slot |->
                          IF ring_distance(N, put, i) < n
                          THEN list[ring_distance(N, put, i) + 1] ELSE descs[i]]
           /\ put' = ring_advance(N, put, n)
           /\ drops' = drops + num_drops
           /\ to_drop' = [to_drop EXCEPT ![p] = DropList(list, n)]
           /\ pc' = [pc EXCEPT ![p] = IF num_drops > 0 THEN "drop" ELSE "idle"]
    /\ IF tx_use_thread
       THEN /\ tx_pkts_to_send' = CallsPlusOne(tx_pkts_to_send)
            /\ signalled' = (signalled \/ (txpc = "wait" /\ MustSignal(tx_pkts_to_send')))
       ELSE UNCHANGED <<tx_pkts_to_send, signalled>>
    /\ refs' = refs \cup {pd \in SeqRange(list) : HasCtx(pd)}
    /\ uncounted' = uncounted + Len(list)
    /\ UNCHANGED <<take, passVars, tx_use_thread, tx_disabled, txpc, cur_inject_take, stop_req>>

\* Lines 376-380: without a transmit interface the whole list is dropped, and
\* no counter shows it.
InjectTxDisabled(p, list) ==
    /\ pc[p] = "idle" /\ ProducerMayRun /\ tx_disabled
    /\ SeqRange(list) \cap refs = {}
    /\ list # <<>>
    /\ to_drop' = [to_drop EXCEPT ![p] = list]
    /\ pc' = [pc EXCEPT ![p] = "drop"]
    /\ refs' = refs \cup {pd \in SeqRange(list) : HasCtx(pd)}
    /\ UNCHANGED <<ringVars, passVars, tx_use_thread, tx_disabled, tx_pkts_to_send, txpc,
                   signalled, cur_inject_take, stop_req, uncounted>>

\* uinet_pd_drop_injected, called without the lock; see FollowUnsetCtx.
DropInjected(p) ==
    /\ pc[p] = "drop"
    /\ refs' = refs \ SeqRange(to_drop[p])
    /\ to_drop' = [to_drop EXCEPT ![p] = <<>>]
    /\ pc' = [pc EXCEPT ![p] = "idle"]
    /\ UNCHANGED <<ringVars, passVars, tx_use_thread, tx_disabled, tx_pkts_to_send, txpc,
                   signalled, cur_inject_take, stop_req, uncounted>>

-----------------------------------------------------------------------------
(* The transmit side: if_dpdk_process_tx_inject_ring *)

\* Mutant: the producers' drop counter is read but not reset.
CollectDropsWithoutReset == inject_drops' = drops /\ UNCHANGED drops

\* The pass takes over the drops counted so far.
CollectDrops == inject_drops' = drops /\ drops' = 0

\* Lines 457-466, with the value of take that the critical section has set.
Snapshot(newTake, nextpc) ==
    /\ take' = newTake
    /\ local_take' = newTake /\ local_put' = put
    /\ CollectDrops
    /\ n_copy' = 0 /\ pkts' = <<>> /\ pdctx_to_free' = <<>>
    /\ txpc' = nextpc
    /\ UNCHANGED <<descs, put>>

\* Lock, release the slots of the last pass, and look for work.
TxEnter ==
    /\ tx_use_thread /\ txpc = "enter"
    /\ IF tx_pkts_to_send = 0
       THEN /\ take' = cur_inject_take
            /\ txpc' = "wait" /\ signalled' = FALSE
            /\ UNCHANGED <<descs, put, drops, passVars, tx_pkts_to_send>>
       ELSE /\ Snapshot(cur_inject_take, "send")
            /\ tx_pkts_to_send' = 0
            /\ UNCHANGED signalled
    /\ UNCHANGED <<prodVars, tx_use_thread, tx_disabled, cur_inject_take, stop_req, refs, uncounted>>

\* cv_timedwait returns, signalled, timed out without the thread seeing a stop
\* request (kthread_stop_check may find it too early to look), or spuriously.
\* The loop goes back to sleep unless there is something to send.
TxWakeup ==
    /\ txpc = "wait"
    /\ IF tx_pkts_to_send = 0
       THEN signalled' = FALSE /\ UNCHANGED <<ringVars, passVars, txpc, tx_pkts_to_send>>
       ELSE /\ Snapshot(take, "send")
            /\ tx_pkts_to_send' = 0 /\ signalled' = FALSE
    /\ UNCHANGED <<prodVars, tx_use_thread, tx_disabled, cur_inject_take, stop_req, refs, uncounted>>

\* Mutant: looks for a stop request when signalled instead of on a timeout.
TxStopWhenSignalled ==
    /\ txpc = "wait" /\ stop_req /\ signalled
    /\ Snapshot(take, "stopped")
    /\ tx_pkts_to_send' = 0 /\ signalled' = FALSE
    /\ UNCHANGED <<prodVars, tx_use_thread, tx_disabled, cur_inject_take, stop_req, refs, uncounted>>

\* cv_timedwait times out and kthread_stop_check sees the request: whatever is
\* queued by now stays in the ring, and its drops are forgotten.
TxStop ==
    /\ txpc = "wait" /\ stop_req
    /\ Snapshot(take, "stopped")
    /\ tx_pkts_to_send' = 0 /\ signalled' = FALSE
    /\ UNCHANGED <<prodVars, tx_use_thread, tx_disabled, cur_inject_take, stop_req, refs, uncounted>>

\* if_dpdk_batch_send in STS mode: the same snapshot, no lock and no waiting.
BatchSend ==
    /\ ~tx_use_thread /\ txpc = "enter" /\ ~tx_disabled
    /\ \A p \in Producer : pc[p] = "idle"
    /\ Snapshot(take, "send")
    /\ UNCHANGED <<prodVars, tx_use_thread, tx_disabled, tx_pkts_to_send, signalled,
                   cur_inject_take, stop_req, refs, uncounted>>

\* Mutant: flushes one packet too late.
BurstOverfull(burst) == Len(burst) = MaxBurst + 1

\* pkts_num == MAX_BURST_SIZE.
BurstFull(burst) == Len(burst) = MaxBurst

\* One iteration of the loop at line 478.  A full burst goes to the NIC, which
\* takes any number of its packets; the rest are counted as drops.  A
\* descriptor without a packet is passed over, if FollowUnsetCtx lets it.
SendOne ==
    /\ txpc = "send" /\ local_take # local_put
    /\ LET pd == descs[local_take]
           burst == Append(pkts, pd)
       IN  IF ~HasCtx(pd)
           THEN UNCHANGED <<pkts, pdctx_to_free, inject_drops, n_copy>>
           ELSE /\ pdctx_to_free' = Append(pdctx_to_free, pd)
                /\ IF BurstFull(burst)
                   THEN \E n_snd \in 0 .. Len(burst) :
                          /\ inject_drops' = inject_drops + Len(burst) - n_snd
                          /\ n_copy' = n_copy + n_snd
                          /\ pkts' = <<>>
                   ELSE pkts' = burst /\ UNCHANGED <<inject_drops, n_copy>>
    \* a descriptor without a packet is passed over: no counter ever shows it
    /\ uncounted' = IF HasCtx(descs[local_take]) THEN uncounted ELSE uncounted - 1
    /\ local_take' = ring_next(N, local_take)
    /\ UNCHANGED <<ringVars, local_put, prodVars, tx_use_thread, tx_disabled, tx_pkts_to_send, txpc,
                   signalled, cur_inject_take, stop_req, refs>>

\* Lines 519-552: flush the last burst, update the counters, release the
\* references, and remember (thread) or publish (STS) how far the pass went.
FinishPass ==
    /\ txpc = "send" /\ local_take = local_put
    /\ \E n_snd \in 0 .. Len(pkts) :
         uncounted' = uncounted - (inject_drops + Len(pkts) - n_snd) - (n_copy + n_snd)
    /\ refs' = refs \ SeqRange(pdctx_to_free)
    /\ pkts' = <<>> /\ pdctx_to_free' = <<>> /\ inject_drops' = 0 /\ n_copy' = 0
    /\ IF tx_use_thread
       THEN cur_inject_take' = local_take /\ UNCHANGED take
       ELSE take' = local_take /\ UNCHANGED cur_inject_take
    /\ txpc' = "enter"
    /\ UNCHANGED <<descs, put, drops, local_take, local_put, prodVars, tx_use_thread, tx_disabled,
                   tx_pkts_to_send, signalled, stop_req>>

\* Line 480 reads cur_pd->ctx->m before it looks at the flags, and
\* uinet_pd_drop_injected looks into the ctx of every descriptor of its list.
\* in_copy.c leaves the ctx of a descriptor without a packet unset: what is
\* read there may be harmless, as SendOne and DropInjected have it, or not.
FollowUnsetCtx ==
    /\ ~astray
    /\ \/ txpc = "send" /\ local_take # local_put /\ ~HasCtx(descs[local_take])
       \/ \E p \in Producer : pc[p] = "drop" /\ SeqRange(to_drop[p]) \cap MgmtPd # {}
    /\ astray' = TRUE
    /\ UNCHANGED <<ringVars, passVars, prodVars, tx_use_thread, tx_disabled, tx_pkts_to_send, txpc,
                   signalled, cur_inject_take, stop_req, refs, uncounted>>

-----------------------------------------------------------------------------
(* Detaching the interface: if_dpdk_detach *)

StopTxThread ==
    /\ tx_use_thread /\ ~stop_req
    /\ stop_req' = TRUE
    /\ UNCHANGED <<ringVars, passVars, prodVars, tx_use_thread, tx_disabled, tx_pkts_to_send, txpc,
                   signalled, cur_inject_take, refs, uncounted>>

\* kthread_stop_wait returned, or there is no thread to wait for: the ring is
\* freed with whatever is in it.  No producer may be left; the code relies on
\* its callers for that.
Detach ==
    /\ IF tx_use_thread THEN txpc = "stopped" ELSE txpc = "enter"
    /\ \A p \in Producer : pc[p] = "idle"
    /\ txpc' = "detached"
    /\ UNCHANGED <<ringVars, passVars, prodVars, tx_use_thread, tx_disabled, tx_pkts_to_send,
                   signalled, cur_inject_take, stop_req, refs, uncounted>>

Inject(p) == \E list \in PdLists : InjectTxPkts(p, list) \/ InjectTxDisabled(p, list)

TxStep == TxEnter \/ TxWakeup \/ TxStop \/ BatchSend \/ SendOne \/ FinishPass

Sound == ~astray /\ UNCHANGED astray

Next ==
    \/ Sound /\ \E p \in Producer : Inject(p) \/ DropInjected(p)
    \/ Sound /\ (TxStep \/ StopTxThread \/ Detach)
    \/ FollowUnsetCtx

\* The host runs every thread that is not blocked, a timed wait returns, and a
\* thread waiting for a mutex whose holders leave gets it.
Fairness ==
    /\ WF_vars(Sound /\ TxEnter) /\ WF_vars(Sound /\ TxWakeup) /\ WF_vars(Sound /\ TxStop)
    /\ WF_vars(Sound /\ SendOne) /\ WF_vars(Sound /\ FinishPass)
    /\ WF_vars(Sound /\ BatchSend)
    /\ \A p \in Producer : WF_vars(Sound /\ DropInjected(p))

Spec == Init /\ [][Next]_vars
FairSpec == Spec /\ Fairness

-----------------------------------------------------------------------------
(* Properties *)

\* The oldest slot whose descriptor the transmit side has not dealt with.
FirstUnsent == IF txpc = "send" THEN local_take
               ELSE IF tx_use_thread THEN cur_inject_take ELSE take

\* The accepted descriptors not dealt with yet, oldest first.
Pending == [j \in 1 .. ring_distance(N, FirstUnsent, put) |->
              descs[ring_advance(N, FirstUnsent, j - 1)]]

\* The type of every variable of the interface's transmit state.
TypeOK ==
    /\ descs \in [Slot -> Pd \cup {NoPd}]
    /\ put \in Slot /\ take \in Slot /\ cur_inject_take \in Slot
    /\ local_take \in Slot /\ local_put \in Slot
    /\ drops \in Nat /\ inject_drops \in Nat /\ n_copy \in Nat
    /\ tx_pkts_to_send \in Nat /\ uncounted \in Nat
    /\ tx_use_thread \in BOOLEAN /\ tx_disabled \in BOOLEAN
    /\ signalled \in BOOLEAN /\ stop_req \in BOOLEAN
    /\ pc \in [Producer -> {"idle", "drop"}]
    /\ to_drop \in [Producer -> Seq(Pd)]
    /\ txpc \in {"enter", "wait", "send", "stopped", "detached"}
    /\ pkts \in Seq(Pd) /\ pdctx_to_free \in Seq(Pd)
    /\ refs \in SUBSET (Pd \ MgmtPd)
    /\ astray \in BOOLEAN

\* The two arrays a pass fills without checking their size: pkts[MAX_BURST_SIZE]
\* on the stack and tx_pdctx_to_free[], allocated with one entry per ring slot,
\* cannot be overrun however injections interleave with passes.
ArraysInBounds == Len(pkts) < MaxBurst /\ Len(pdctx_to_free) < N

\* Nobody will look at the ring any more: line 468 has returned, or the ring is
\* freed.
RingAbandoned == txpc \in {"stopped", "detached"}

\* Who will release the injection reference to pd: the pass that comes to its
\* ring slot, the current pass at its end, or a producer with its list of drops.
Holders(pd) ==
    {<<"ring", j>> : j \in {k \in 1 .. Len(Pending) : ~RingAbandoned /\ Pending[k] = pd}}
    \cup {<<"pass", j>> : j \in {k \in 1 .. Len(pdctx_to_free) : pdctx_to_free[k] = pd}}
    \cup UNION {{<<p, j>> : j \in {k \in 1 .. Len(to_drop[p]) : to_drop[p][k] = pd}} :
                  p \in Producer}

\* The context of pd is lost: it is in a ring that nobody will look at.
Leaked(pd) == RingAbandoned /\ \E j \in 1 .. Len(Pending) : Pending[j] = pd

\* A descriptor's injection reference is never released twice: at most one
\* place will release it, and none once it has been released, so
\* uinet_pd_ref_release and uinet_pd_drop_injected never both do.  And it is
\* released once, unless it is still in the ring when the transmit thread stops
\* or the interface is detached: then, and only then, it leaks.
RefsOwnedOnce ==
    \A pd \in Pd \ MgmtPd :
        /\ pd \in refs <=> Holders(pd) # {} \/ Leaked(pd)
        /\ \A x, y \in Holders(pd) : x = y
        /\ Leaked(pd) => Holders(pd) = {}

\* Every descriptor offered to an enabled interface is counted once, in
\* if_opackets or if_oerrors, across the hand-over of the drop counter from the
\* producers to the pass.  (A stopping thread throws away the drops it
\* collected: line 468 returns before they reach if_oerrors.)
CountedOnce ==
    ~RingAbandoned =>
        uncounted = drops + inject_drops + n_copy + Len(pkts) + Len(Pending)

\* The transmit thread never sleeps through an injection: signalling only on
\* the first call since it last looked is enough.
PromptWakeup == txpc = "wait" /\ ~signalled => Pending = <<>> /\ tx_pkts_to_send = 0

\* A slot belongs to the transmit side from the snapshot until it takes the
\* lock again: no producer changes a slot of the pass in progress.
PassUndisturbed ==
    [][txpc = "send" =>
        \A j \in 0 .. ring_distance(N, local_take, local_put) - 1 :
            LET i == ring_advance(N, local_take, j) IN descs'[i] = descs[i]]_vars

\* The queue implements the bounded FIFO of module PdFifo.
Fifo == INSTANCE PdFifo WITH
    List <- PdLists, Payload <- HasCtx, Capacity <- N - 1,
    q <- Pending, held <- ring_distance(N, take, FirstUnsent), out <- pdctx_to_free

RefinesFifo == Fifo!FifoSpec

\* Whatever is queued is dealt with, unless the interface is being detached or
\* the process has gone astray over an unset ctx.
QueueDrains ==
    \A pd \in Pd \ MgmtPd : (tx_use_thread /\ \E j \in 1 .. Len(Pending) : Pending[j] = pd)
                            ~> (stop_req \/ astray \/ \A j \in 1 .. Len(Pending) : Pending[j] # pd)

\* Once producers are quiet, the thread acknowledges a stop request.
QuietStops ==
    <>[][~\E p \in Producer : Inject(p)]_vars
        => (stop_req ~> (RingAbandoned \/ astray))
=============================================================================

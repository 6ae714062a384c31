--------------------------- MODULE ShutdownProofs ---------------------------
(***************************************************************************)
(* Proofs about the shutdown and the threads it takes down, however many   *)
(* call, whenever they do and whatever the sets of instances and           *)
(* interfaces are:                                                         *)
(*   - RxInv of RxThread is inductive, and what follows from it also holds *)
(*     in the composition, whose steps are steps of RxThread or none;      *)
(*   - no caller of uinet_shutdown is left without an answer (AnswerInv);  *)
(*   - the lists hold live memory only, nobody falls over freed memory     *)
(*     unless the helper's walk met the application at work on the lists,  *)
(*     and who comes back finds everything down that was there when the    *)
(*     shutdown began (ShutInv).                                           *)
(***************************************************************************)
EXTENDS Shutdown, TailQProofs, FiniteSetTheorems, TLAPS

-----------------------------------------------------------------------------
(* The receive thread *)

\* The state an interface is attached in satisfies the inductive invariant.
LEMMA RxInitInv == Init => RxInv
<1> SUFFICES ASSUME Init PROVE RxInv
  OBVIOUS
<1>1. TypeOK
  BY DEF Init, TypeOK, RxPlaces, TxPlaces, CtlPlaces, DetPlaces
<1>2. StateFollowsCtl /\ PromptStart
  BY DEF Init, StateFollowsCtl, PromptStart
<1>3. AckFollowsExit
  BY DEF Init, AckFollowsExit
<1>4. QED
  BY <1>1, <1>2, <1>3 DEF RxInv

\* Every step of the configuring thread, of the receive and transmit threads,
\* of the detaching thread and of the clock preserves the inductive invariant.
LEMMA RxNextInv == RxInv /\ [Next]_vars => RxInv'
<1> SUFFICES ASSUME RxInv, [Next]_vars PROVE RxInv'
  OBVIOUS
<1> USE DEF RxInv, TypeOK, StateFollowsCtl, PromptStart, AckFollowsExit,
            RxPlaces, TxPlaces, CtlPlaces, DetPlaces
<1>1. CASE KthreadAdd
  BY <1>1 DEF KthreadAdd
<1>2. CASE KthreadAddReturns
  BY <1>2 DEF KthreadAddReturns
<1>3. CASE FlagsUp
  <2>1. TypeOK'
    BY <1>3 DEF FlagsUp, UpState, RxSignalled
  <2>2. StateFollowsCtl'
    BY <1>3 DEF FlagsUp, UpState, RxSignalled
  <2>3. PromptStart'
    BY <1>3 DEF FlagsUp, UpState, RxSignalled
  <2>4. AckFollowsExit'
    BY <1>3 DEF FlagsUp, UpState, RxSignalled
  <2>5. QED
    BY <2>1, <2>2, <2>3, <2>4
<1>4. CASE FlagsDown
  <2>1. TypeOK'
    BY <1>4 DEF FlagsDown, RxSignalled
  <2>2. StateFollowsCtl'
    <3>1. CASE run_state = 1 /\ ~RxDisabled
      <4>1. run_state' = 2 /\ ctl' = "downwait"
        BY <1>4, <3>1 DEF FlagsDown
      <4>2. QED
        BY <4>1
    <3>2. CASE ~(run_state = 1 /\ ~RxDisabled)
      <4>1. run_state # 1 /\ UNCHANGED <<run_state, rx, ctl>>
        BY <1>4, <3>2 DEF FlagsDown
      <4>2. QED
        BY <4>1
    <3>3. QED
      BY <3>1, <3>2
  <2>3. PromptStart'
    BY <1>4 DEF FlagsDown, RxSignalled
  <2>4. AckFollowsExit'
    BY <1>4 DEF FlagsDown, RxSignalled
  <2>5. QED
    BY <2>1, <2>2, <2>3, <2>4
<1>5. CASE DownWakes
  <2>1. TypeOK'
    BY <1>5 DEF DownWakes, DownState
  <2>2. StateFollowsCtl'
    BY <1>5 DEF DownWakes, DownState
  <2>3. PromptStart'
    BY <1>5 DEF DownWakes, DownState
  <2>4. AckFollowsExit'
    BY <1>5 DEF DownWakes, DownState
  <2>5. QED
    BY <2>1, <2>2, <2>3, <2>4
<1>6. CASE StartHook
  BY <1>6 DEF StartHook
<1>7. CASE NotifyStarted
  BY <1>7 DEF NotifyStarted
<1>8. CASE RxCheck
  BY <1>8 DEF RxCheck, StopCheckSays
<1>9. CASE RxLock
  BY <1>9 DEF RxLock, AfterLock, CtlSignalled
<1>10. CASE RxWakes
  BY <1>10 DEF RxWakes, AfterLock
<1>11. CASE RxTimesOut
  BY <1>11 DEF RxTimesOut, AfterLock, StopCheckSays
<1>12. CASE RxReceive
  BY <1>12 DEF RxReceive
<1>13. CASE RxAck
  BY <1>13 DEF RxAck
<1>14. CASE KthreadStop
  <2>1. TypeOK'
    BY <1>14 DEF KthreadStop
  <2>2. StateFollowsCtl' /\ PromptStart'
    BY <1>14 DEF KthreadStop
  <2>3. AckFollowsExit'
    BY <1>14 DEF KthreadStop
  <2>4. QED
    BY <2>1, <2>2, <2>3
<1>15. CASE DetachFrees
  BY <1>15 DEF DetachFrees, StopWaitOver
<1>16. CASE SpuriousWakeup
  <2>1. TypeOK'
    BY <1>16 DEF SpuriousWakeup
  <2>2. StateFollowsCtl'
    BY <1>16 DEF SpuriousWakeup
  <2>3. PromptStart'
    BY <1>16 DEF SpuriousWakeup
  <2>4. AckFollowsExit'
    BY <1>16 DEF SpuriousWakeup
  <2>5. QED
    BY <2>1, <2>2, <2>3, <2>4
<1>17. CASE TicksPass
  <2>1. TypeOK'
    <3>1. stop_limited' \in BOOLEAN
      BY <1>17 DEF TicksPass
    <3>2. UNCHANGED <<run_state, drv_running, notice_utd, td_stop_req, tsr_ack, rx, ctl, tx, det>>
      BY <1>17 DEF TicksPass
    <3>3. QED
      BY <3>1, <3>2
  <2>2. StateFollowsCtl' /\ PromptStart' /\ AckFollowsExit'
    BY <1>17 DEF TicksPass
  <2>3. QED
    BY <2>1, <2>2
<1>18. CASE UNCHANGED vars
  BY <1>18 DEF vars
<1>19. CASE TxInjected \/ TxNext
  BY <1>19 DEF TxInjected, TxNext, TxSent, TxStopped
<1>20. CASE DetachRxGone
  BY <1>20 DEF DetachRxGone, StopWaitOver
<1>21. QED
  BY <1>1, <1>2, <1>3, <1>4, <1>5, <1>6, <1>7, <1>8, <1>9, <1>10, <1>11, <1>12, <1>13, <1>14, <1>15, <1>16, <1>17, <1>18, <1>19, <1>20 DEF Next, CtlNext, RxNext, DetNext

\* The inductive invariant holds in every state of every behaviour.
THEOREM RxInvariant == Spec => []RxInv
  BY RxInitInv, RxNextInv, PTL DEF Spec

\* rx_thread_run_state and the threads' places never leave their types.
THEOREM RxTypeCorrect == Spec => []TypeOK
<1>1. RxInv => TypeOK
  BY DEF RxInv
<1>2. QED
  BY RxInvariant, <1>1, PTL

\* An interface that SIOCSIFFLAGS has taken down receives nothing until it is
\* brought up again.
THEOREM RxStoppedMeansQuiet == Spec => []StoppedMeansQuiet
<1>1. RxInv => StoppedMeansQuiet
  BY DEF RxInv, TypeOK, StateFollowsCtl, StoppedMeansQuiet
<1>2. QED
  BY RxInvariant, <1>1, PTL

\* The receive thread never sleeps through the signal that should start it.
THEOREM RxPromptStart == Spec => []PromptStart
<1>1. RxInv => PromptStart
  BY DEF RxInv
<1>2. QED
  BY RxInvariant, <1>1, PTL

\* The receive thread is gone when if_dpdk_detach destroys its lock, and both
\* threads are when it frees what they used.
THEOREM RxGoneAtFree == Spec => []ThreadsGoneBeforeFree
<1>1. RxInv => ThreadsGoneBeforeFree
  BY DEF RxInv, AckFollowsExit, ThreadsGoneBeforeFree
<1>2. QED
  BY RxInvariant, <1>1, PTL

-----------------------------------------------------------------------------
(* The composition takes only steps of the receive thread's module *)

\* Whoever detaches the watched interface and whoever sets its flags, the
\* receive thread and its surroundings take a step of RxThread or none.
LEMMA StepOfRxThread == [ShutdownNext]_allvars => [Next]_vars
<1> SUFFICES ASSUME [ShutdownNext]_allvars PROVE [Next]_vars
  OBVIOUS
<1>1. CASE CallNext
  BY <1>1 DEF CallNext, MsgSend, RspWait, RspWaitInterrupted
<1>2. ASSUME NEW t \in Walkers, DestroyBegins(t) \/ DestroyWaits(t) \/ DestroyEnds(t)
      PROVE  [Next]_vars
  BY <1>2 DEF DestroyBegins, DestroyWaits, DestroyEnds, Next, DetNext
<1>3. CASE HelperNext
  <2>1. CASE DestroyBegins(Helper) \/ DestroyWaits(Helper) \/ DestroyEnds(Helper)
    BY <2>1, <1>2 DEF Walkers
  <2>2. CASE ~(DestroyBegins(Helper) \/ DestroyWaits(Helper) \/ DestroyEnds(Helper))
    BY <1>3, <2>2 DEF HelperNext, MsgWait, TryLockSucceeds, TryLockFails, WithoutLock,
                      VisitVnet, NextVnet, ShutdownDone, RspSend
  <2> QED
    BY <2>1, <2>2
<1>4. CASE AppCompletes
  <2>1. CASE DestroyBegins(App) \/ DestroyWaits(App) \/ DestroyEnds(App)
    BY <2>1, <1>2 DEF Walkers
  <2>2. CASE IfCreateEnds \/ SetFlagsWakes
    BY <2>2 DEF IfCreateEnds, SetFlagsWakes, Next, CtlNext
  <2>3. CASE IfInsert \/ AppDestroyed \/ VnetLink \/ VnetUnlock \/ InstanceInit
             \/ VnetDestroyLocks
    BY <2>3 DEF IfInsert, AppDestroyed, VnetLink, VnetUnlock, InstanceInit, VnetDestroyLocks
  <2> QED
    BY <1>4, <2>1, <2>2, <2>3 DEF AppCompletes
<1>5. CASE IfCreateBegins \/ SetFlags
  BY <1>5 DEF IfCreateBegins, SetFlags, Next, CtlNext
<1>6. ASSUME NEW u \in Ifs, NEW i \in Instances,
             IfDestroy(u) \/ IfCreate(u, i) \/ InstanceDestroy(i) \/ VnetAlloc(i)
      PROVE  [Next]_vars
  BY <1>6 DEF IfDestroy, IfCreate, InstanceDestroy, VnetAlloc
<1>7. CASE AppNext
  BY <1>4, <1>5, <1>6, <1>7, ShutdownAssumption DEF AppNext
<1>8. CASE DriverNext \/ Injected
  BY <1>8 DEF DriverNext, Injected, Next
<1>9. CASE UNCHANGED allvars
  BY <1>9 DEF allvars
<1> QED
  BY <1>1, <1>3, <1>7, <1>8, <1>9 DEF ShutdownNext

\* The inductive invariant of the receive thread in the composition.
LEMMA RxInvInShutdown == ShutdownSpec => []RxInv
<1>1. ShutdownInit => RxInv
  BY RxInitInv DEF ShutdownInit
<1>2. RxInv /\ [ShutdownNext]_allvars => RxInv'
  BY StepOfRxThread, RxNextInv
<1> QED
  BY <1>1, <1>2, PTL DEF ShutdownSpec

\* An interface that is down receives nothing, also while the helper takes the
\* instances down.
THEOREM ShutdownStoppedMeansQuiet == ShutdownSpec => []StoppedMeansQuiet
<1>1. RxInv => StoppedMeansQuiet
  BY DEF RxInv, TypeOK, StateFollowsCtl, StoppedMeansQuiet
<1> QED
  BY RxInvInShutdown, <1>1, PTL

\* The interface's threads are gone when the helper or the application frees
\* what they used.
THEOREM ShutdownRxGoneAtFree == ShutdownSpec => []ThreadsGoneBeforeFree
<1>1. RxInv => ThreadsGoneBeforeFree
  BY DEF RxInv, AckFollowsExit, ThreadsGoneBeforeFree
<1> QED
  BY RxInvInShutdown, <1>1, PTL

-----------------------------------------------------------------------------
(* Answers *)

\* What the proof needs of the types: counts, and who is where.
AnswerTypes ==
  /\ msgs \in Nat /\ rsps \in Nat
  /\ call \in [Callers -> CallPlaces]
  /\ pc \in [Walkers -> Places]

AnswerInv == AnswerTypes /\ NoAnswerMissing

\* The callers that wait are finitely many.
LEMMA WaitingFinite == IsFiniteSet(Waiting) /\ Cardinality(Waiting) \in Nat
<1>1. IsFiniteSet(Callers)
  BY ShutdownAssumption, FS_AddElement DEF Callers
<1>2. IsFiniteSet(Waiting)
  BY <1>1, FS_Subset DEF Waiting
<1> QED
  BY <1>2, FS_CardinalityType

\* A step that neither sends, takes nor receives a message, and leaves the
\* helper busy or idle as it is.
LEMMA AnswersUntouched ==
    ASSUME AnswerInv, msgs' = msgs, rsps' = rsps, call' = call,
           pc' \in [Walkers -> Places],
           pc[Helper] = "msgwait" <=> pc'[Helper] = "msgwait"
    PROVE  AnswerInv'
<1>1. Waiting' = Waiting /\ HelperBusy' = HelperBusy
  BY DEF Waiting, HelperBusy
<1>2. AnswerTypes'
  BY DEF AnswerInv, AnswerTypes
<1>3. NoAnswerMissing'
  BY <1>1 DEF AnswerInv, NoAnswerMissing
<1> QED
  BY <1>2, <1>3 DEF AnswerInv

\* One waiter less makes up for one answer less.
LEMMA OneAnswerLess ==
    ASSUME NEW n \in Nat, NEW m \in Nat, NEW r \in Nat, NEW r2 \in Nat, NEW k \in {0, 1},
           n <= m + r + k, r2 >= r - 1
    PROVE  n - 1 <= m + r2 + k
OBVIOUS

\* uinet_shutdown: who begins to wait has sent a message, who stops waiting
\* takes at most one answer.
LEMMA CallKeepsAnswers == ASSUME AnswerInv, CallNext PROVE AnswerInv'
<1> PICK c \in Callers : MsgSend(c) \/ RspWait(c) \/ RspWaitInterrupted(c)
  BY DEF CallNext
<1> DEFINE n == Cardinality(Waiting)
           k == HelperBusy
<1>1. /\ msgs \in Nat /\ rsps \in Nat /\ call \in [Callers -> CallPlaces]
      /\ pc \in [Walkers -> Places] /\ n \in Nat /\ k \in {0, 1} /\ n <= msgs + rsps + k
  BY WaitingFinite DEF AnswerInv, AnswerTypes, NoAnswerMissing, HelperBusy
<1>2. pc' = pc /\ HelperBusy' = k
  BY DEF MsgSend, RspWait, RspWaitInterrupted, HelperBusy
<1>4. CASE MsgSend(c)
  <2>1. call' = [call EXCEPT ![c] = "wait"] /\ call[c] = "idle"
        /\ msgs' = msgs + 1 /\ rsps' = rsps
    BY <1>4 DEF MsgSend
  <2>2. Waiting' = Waiting \cup {c} /\ c \notin Waiting
    BY <2>1, <1>1 DEF Waiting
  <2>3. Cardinality(Waiting') = n + 1
    BY <2>2, WaitingFinite, FS_AddElement
  <2>4. call' \in [Callers -> CallPlaces]
    BY <2>1, <1>1 DEF CallPlaces
  <2>5. Cardinality(Waiting') <= msgs' + rsps' + k
    <3> HIDE DEF n, k
    <3> QED
      BY <1>1, <2>1, <2>3
  <2> QED
    BY <1>1, <1>2, <2>1, <2>4, <2>5 DEF AnswerInv, AnswerTypes, NoAnswerMissing
<1>5. CASE RspWait(c) \/ RspWaitInterrupted(c)
  <2>1. /\ call[c] = "wait" /\ msgs' = msgs /\ rsps' \in Nat /\ rsps' >= rsps - 1
        /\ \E x \in {"returned", "cut"} : call' = [call EXCEPT ![c] = x]
    BY <1>5, <1>1 DEF RspWait, RspWaitInterrupted
  <2>2. Waiting' = Waiting \ {c} /\ c \in Waiting
    BY <2>1, <1>1 DEF Waiting
  <2>3. Cardinality(Waiting') = n - 1
    BY <2>2, WaitingFinite, FS_RemoveElement
  <2>4. call' \in [Callers -> CallPlaces]
    BY <2>1, <1>1 DEF CallPlaces
  <2>5. Cardinality(Waiting') <= msgs' + rsps' + k
    <3>1. msgs' = msgs /\ rsps' \in Nat /\ rsps' >= rsps - 1
      BY <2>1
    <3> HIDE DEF n, k
    <3>2. n - 1 <= msgs + rsps' + k
      BY <1>1, <3>1, OneAnswerLess
    <3> QED
      BY <2>3, <3>1, <3>2
  <2> QED
    BY <1>1, <1>2, <2>1, <2>4, <2>5 DEF AnswerInv, AnswerTypes, NoAnswerMissing
<1> QED
  BY <1>4, <1>5

\* The helper: a message read makes it busy until its answer is on the way.
LEMMA HelperKeepsAnswers == ASSUME AnswerInv, HelperNext PROVE AnswerInv'
<1> DEFINE n == Cardinality(Waiting)
<1>1. /\ msgs \in Nat /\ rsps \in Nat /\ call \in [Callers -> CallPlaces]
      /\ pc \in [Walkers -> Places] /\ n \in Nat /\ n <= msgs + rsps + HelperBusy
  BY WaitingFinite DEF AnswerInv, AnswerTypes, NoAnswerMissing
<1>2. Helper \in Walkers
  BY DEF Walkers
<1>3. CASE MsgWait
  <2>1. /\ msgs' = msgs - 1 /\ msgs' \in Nat /\ rsps' = rsps /\ call' = call
        /\ pc[Helper] = "msgwait" /\ pc' \in [Walkers -> Places] /\ pc'[Helper] # "msgwait"
    BY <1>1, <1>2, <1>3 DEF MsgWait, GoTo, Places
  <2>2. Waiting' = Waiting /\ HelperBusy = 0 /\ HelperBusy' = 1
    BY <2>1 DEF Waiting, HelperBusy
  <2> QED
    BY <1>1, <2>1, <2>2 DEF AnswerInv, AnswerTypes, NoAnswerMissing
<1>4. CASE RspSend
  <2>1. /\ rsps' = rsps + 1 /\ msgs' = msgs /\ call' = call
        /\ pc[Helper] = "answer" /\ pc' \in [Walkers -> Places] /\ pc'[Helper] = "msgwait"
    BY <1>1, <1>2, <1>4 DEF RspSend, GoTo, Places
  <2>2. Waiting' = Waiting /\ HelperBusy = 1 /\ HelperBusy' = 0
    BY <2>1 DEF Waiting, HelperBusy
  <2> QED
    BY <1>1, <2>1, <2>2 DEF AnswerInv, AnswerTypes, NoAnswerMissing
<1>5. CASE TryLockSucceeds \/ TryLockFails \/ WithoutLock \/ VisitVnet \/ NextVnet \/ ShutdownDone
  <2>1. msgs' = msgs /\ rsps' = rsps /\ call' = call
    BY <1>5 DEF TryLockSucceeds, TryLockFails, WithoutLock, VisitVnet, NextVnet, ShutdownDone
  <2>2. /\ pc[Helper] # "msgwait"
        /\ pc' = pc \/ \E x \in Places \ {"msgwait"} : pc' = [pc EXCEPT ![Helper] = x]
    BY <1>5 DEF TryLockSucceeds, TryLockFails, WithoutLock, VisitVnet, NextVnet, ShutdownDone,
                ToFirstVnet, GoTo, Places
  <2> QED
    BY <1>1, <1>2, <2>1, <2>2, AnswersUntouched
<1>6. CASE DestroyBegins(Helper) \/ DestroyWaits(Helper) \/ DestroyEnds(Helper)
  <2>1. /\ pc[Helper] # "msgwait" /\ msgs' = msgs /\ rsps' = rsps /\ call' = call
        /\ pc' = pc \/ \E x \in Places \ {"msgwait"} : pc' = [pc EXCEPT ![Helper] = x]
    BY <1>6 DEF DestroyBegins, DestroyWaits, DestroyEnds, GoTo, Places, own
  <2> QED
    BY <1>1, <1>2, <2>1, AnswersUntouched
<1> QED
  BY <1>3, <1>4, <1>5, <1>6 DEF HelperNext

\* The application leaves the channel and the helper alone.
LEMMA AppKeepsAnswers == ASSUME AnswerInv, AppNext PROVE AnswerInv'
<1>1. App \in Walkers /\ Helper \in Walkers /\ App # Helper /\ pc \in [Walkers -> Places]
  BY ShutdownAssumption DEF Walkers, AnswerInv, AnswerTypes
<1>2. msgs' = msgs /\ rsps' = rsps /\ call' = call
  BY DEF AppNext, AppCompletes, IfCreateBegins, IfCreateEnds, IfInsert, SetFlags, SetFlagsWakes,
         IfDestroy, IfCreate, InstanceDestroy, VnetAlloc, AppDestroyed, VnetLink, VnetUnlock,
         InstanceInit, VnetDestroyLocks, DestroyBegins, DestroyWaits, DestroyEnds, AppUnchanged, own
<1>3. pc' = pc \/ \E x \in Places : pc' = [pc EXCEPT ![App] = x]
  BY DEF AppNext, AppCompletes, IfCreateBegins, IfCreateEnds, IfInsert, SetFlags, SetFlagsWakes,
         IfDestroy, IfCreate, InstanceDestroy, VnetAlloc, AppDestroyed, VnetLink, VnetUnlock,
         InstanceInit, VnetDestroyLocks, DestroyBegins, DestroyWaits, DestroyEnds, InsertBegins,
         GoTo, Places, own
<1>4. pc' \in [Walkers -> Places] /\ pc'[Helper] = pc[Helper]
  BY <1>1, <1>3
<1> QED
  BY <1>2, <1>4, AnswersUntouched

\* No answer goes missing, for any number of threads and handlers that share
\* the channel.
THEOREM ShutdownNoAnswerMissing == ShutdownSpec => []NoAnswerMissing
<1>1. ShutdownInit => AnswerInv
  <2> SUFFICES ASSUME ShutdownInit PROVE AnswerInv
    OBVIOUS
  <2>1. Waiting = {} /\ msgs = 0 /\ rsps = 0 /\ HelperBusy \in {0, 1}
    BY DEF ShutdownInit, Waiting, HelperBusy
  <2>2. AnswerTypes
    BY DEF ShutdownInit, AnswerTypes, CallPlaces, Places
  <2> QED
    BY <2>1, <2>2, FS_EmptySet DEF AnswerInv, NoAnswerMissing
<1>2. AnswerInv /\ [ShutdownNext]_allvars => AnswerInv'
  <2> SUFFICES ASSUME AnswerInv, [ShutdownNext]_allvars PROVE AnswerInv'
    OBVIOUS
  <2>1. CASE DriverNext \/ Injected \/ UNCHANGED allvars
    <3>1. msgs' = msgs /\ rsps' = rsps /\ call' = call /\ pc' = pc
      BY <2>1 DEF DriverNext, Injected, allvars, own
    <3> QED
      BY <3>1, AnswersUntouched DEF AnswerInv, AnswerTypes
  <2> QED
    BY <2>1, CallKeepsAnswers, HelperKeepsAnswers, AppKeepsAnswers DEF ShutdownNext
<1>3. AnswerInv => NoAnswerMissing
  BY DEF AnswerInv
<1> QED
  BY <1>1, <1>2, <1>3, PTL DEF ShutdownSpec

-----------------------------------------------------------------------------
(* What the lists hold and where the walks over them are *)

\* Where the helper is while it walks over the instances, and where the
\* application is.
HelperWalks == {"vnet", "uif", "detach"}
AppPlaces == {"idle", "create", "insert", "uif", "detach", "alloc", "linked", "listed",
              "wlock", "wlocked", "unlinked", "crash"}

ListTypes ==
  /\ ShutdownTypeOK
  /\ vnet_list \in Seq(Instances)
  /\ uinet_if_list \in [Instances -> Seq(Ifs)]
  /\ at_vnet \in [Walkers -> Instances \cup {Nil}]
  /\ at_uif \in [Walkers -> Ifs \cup {Nil}]
  /\ at_tmp \in [Walkers -> Ifs \cup {Nil}]

\* Before the first call the helper waits; it walks once, and answers, and
\* callers come back with an answer, only once it has been through.  Nothing
\* crashes unless the walk met the application at work.
PhaseInv ==
  /\ pc[App] \in AppPlaces
  /\ pc[Helper] \in HelperWalks \cup {"msgwait", "lock", "down", "answer", "crash"}
  /\ ~Called => /\ msgs = 0 /\ pc[Helper] = "msgwait" /\ ~shutdown_complete
                /\ ~overlapped /\ due = {}
  /\ shutdown_complete => pc[Helper] \in {"msgwait", "answer"}
  /\ ~shutdown_complete => /\ rsps = 0 /\ pc[Helper] # "answer"
                           /\ \A c \in Callers : call[c] # "returned"
  /\ call[App] # "cut"
  /\ Overlap \/ Crashed => overlapped

\* While the helper walks, the vnet list stands still: it has the lock, or the
\* application stands still with it.
LockInv ==
  /\ vnet_lock = App <=> pc[App] \in {"alloc", "linked", "wlocked", "unlinked"}
  /\ vnet_lock = Helper => pc[Helper] \in HelperWalks \cup {"down", "crash"}
  /\ lock_attempts = LockAttempts => LockHeldLong /\ pc[Helper] \notin {"msgwait", "answer"}
  /\ pc[Helper] \in HelperWalks => vnet_lock = Helper \/ lock_attempts = LockAttempts

\* The instances on the vnet list, once each, are those that exist.
VnetInv ==
  /\ Unrepeated(vnet_list)
  /\ \A i \in Instances : Has(vnet_list, i) =>
       \/ inst[i] = "live"
       \/ inst[i] = "nouinet" /\ i = at_vnet[App] /\ pc[App] \in {"linked", "listed"}
  /\ \A i \in Instances : inst[i] = "live" =>
       Has(vnet_list, i) \/ (pc[App] = "unlinked" /\ i = at_vnet[App])
  /\ pc[App] \in {"alloc", "linked", "listed"} =>
       /\ at_vnet[App] \in Instances /\ inst[at_vnet[App]] = "nouinet"
       /\ uinet_if_list[at_vnet[App]] = <<>>
       /\ pc[App] # "alloc" <=> Has(vnet_list, at_vnet[App])
  /\ pc[App] \in {"wlock", "wlocked", "unlinked"} =>
       /\ at_vnet[App] \in Instances /\ inst[at_vnet[App]] = "live"
       /\ uinet_if_list[at_vnet[App]] = <<>>
       /\ pc[App] # "unlinked" <=> Has(vnet_list, at_vnet[App])
  /\ pc[App] \in {"uif", "detach"} /\ at_vnet[App] # Nil => inst[at_vnet[App]] = "live"

\* The default instance is not destroyed.
DefaultInv ==
  /\ inst[Default] = "live"
  /\ pc[App] \in {"uif", "detach", "wlock", "wlocked", "unlinked"} => at_vnet[App] # Default

\* The interfaces on the instances' lists, once each and on one list, are
\* alive, and only instances on the vnet list have any.  Only an insertion that
\* met the helper can have lost an interface, and none that is due.
IfInv ==
  /\ \A i \in Instances : Unrepeated(uinet_if_list[i])
  /\ \A i, j \in Instances, u \in Ifs :
       Has(uinet_if_list[i], u) /\ Has(uinet_if_list[j], u) => i = j
  /\ \A i \in Instances, u \in Ifs :
       Has(uinet_if_list[i], u) => uif_mem[u] \in {"attached", "detaching"}
  /\ \A u \in Ifs : uif_mem[u] \in {"attached", "detaching"} =>
       (\E i \in Instances : Has(uinet_if_list[i], u)) \/ (overlapped /\ u \notin due)
  /\ \A i \in Instances : ~Has(vnet_list, i) => uinet_if_list[i] = <<>>
  /\ \A u \in due : uif_mem[u] # "none"

\* u was freed while a walk was on its way to it.
Gone(u) == uif_mem[u] = "freed" /\ overlapped

\* s holds nothing that walker t still has to destroy: the helper may leave
\* what came later than the shutdown.
NothingLeft(t, s) == IF t = App THEN s = <<>> ELSE \A u \in due : ~Has(s, u)

\* Whoever destroys all interfaces of an instance stands on the first of its
\* list, unless the other one has freed it.
StandsOn(t) ==
  /\ at_uif[t] # Nil /\ ~overlapped => uif_mem[at_uif[t]] = "attached"
  /\ at_vnet[t] # Nil =>
       IF at_uif[t] = Nil THEN NothingLeft(t, uinet_if_list[at_vnet[t]])
       ELSE at_uif[t] = First(uinet_if_list[at_vnet[t]]) \/ Gone(at_uif[t])
WaitsFor(t) ==
  /\ at_uif[t] # Nil /\ uif_mem[at_uif[t]] = "detaching"
  /\ at_vnet[t] = Nil => at_tmp[t] = Nil
  /\ at_vnet[t] # Nil =>
       /\ uinet_if_list[at_vnet[t]] # <<>>
       /\ at_uif[t] = Head(uinet_if_list[at_vnet[t]])
       /\ IF at_tmp[t] = Nil THEN NothingLeft(t, Tail(uinet_if_list[at_vnet[t]]))
          ELSE at_tmp[t] = First(Tail(uinet_if_list[at_vnet[t]])) \/ Gone(at_tmp[t])
\* An interface is detached by one of them.
EachByOne ==
  /\ \A u \in Ifs : uif_mem[u] = "detaching" =>
       \E t \in Walkers : pc[t] = "detach" /\ at_uif[t] = u
  /\ \A t, r \in Walkers :
       pc[t] = "detach" /\ pc[r] = "detach" /\ at_uif[t] = at_uif[r] => t = r
CursorInv ==
  /\ \A t \in Walkers : pc[t] = "uif" => StandsOn(t)
  /\ \A t \in Walkers : pc[t] = "detach" => WaitsFor(t)
  /\ EachByOne

\* An interface that is being inserted is new, and goes on the list of a live
\* instance, at the place where the list ends unless the helper was there.
InsertInv ==
  pc[App] = "insert" =>
    /\ at_vnet[App] \in Instances /\ inst[at_vnet[App]] = "live"
    /\ at_uif[App] \in Ifs /\ uif_mem[at_uif[App]] = "none"
    /\ ~overlapped => at_tmp[App] = Final(uinet_if_list[at_vnet[App]])

\* What lies behind the helper has nothing due any more, and in the end no
\* instance has.
WalkInv ==
  /\ pc[Helper] \in HelperWalks =>
       \E k \in 1 .. Len(vnet_list) :
         /\ vnet_list[k] = at_vnet[Helper]
         /\ \A j \in 1 .. k - 1 : NothingLeft(Helper, uinet_if_list[vnet_list[j]])
  /\ pc[Helper] = "down" \/ shutdown_complete =>
       \A i \in Instances : NothingLeft(Helper, uinet_if_list[i])

\* The watched interface is created once, and freed once its threads have ended.
WatchedInv ==
  /\ pc[App] = "create" => ctl = "addwait"
  /\ pc[App] = "insert" /\ at_uif[App] = Watched => ctl \notin {"attach", "addwait"}
  /\ uif_mem[Watched] # "none" => ctl \notin {"attach", "addwait"}
  /\ uif_mem[Watched] = "freed" => det = "done"

ShutInv ==
  /\ ListTypes /\ PhaseInv /\ LockInv /\ VnetInv /\ DefaultInv /\ IfInv
  /\ CursorInv /\ InsertInv /\ WalkInv /\ WatchedInv

\* What is where: the constants' assumption in the form the steps use.
LEMMA WhoIsWho ==
  /\ App \in Walkers /\ Helper \in Walkers /\ App # Helper /\ App \in Callers
  /\ Walkers = {App, Helper}
  /\ Nil \notin Instances /\ Nil \notin Ifs /\ App # Nil /\ Helper # Nil
  /\ Default \in Instances /\ Watched \in Ifs /\ LockAttempts \in Nat /\ LockAttempts # 0
BY ShutdownAssumption DEF Walkers, Callers

\* The types in the form the steps use.
LEMMA Typed ==
    ASSUME ShutInv
    PROVE  /\ msgs \in Nat /\ rsps \in Nat /\ call \in [Callers -> CallPlaces]
           /\ pc \in [Walkers -> Places] /\ lock_attempts \in 0 .. LockAttempts
           /\ vnet_list \in Seq(Instances) /\ uinet_if_list \in [Instances -> Seq(Ifs)]
           /\ inst \in [Instances -> {"none", "nouinet", "live", "freed"}]
           /\ uif_mem \in [Ifs -> {"none", "attached", "detaching", "freed"}]
           /\ at_vnet \in [Walkers -> Instances \cup {Nil}]
           /\ at_uif \in [Walkers -> Ifs \cup {Nil}]
           /\ at_tmp \in [Walkers -> Ifs \cup {Nil}]
           /\ due \subseteq Ifs
BY DEF ShutInv, ListTypes, ShutdownTypeOK

\* What the history variables do: overlapped is never reset, and what is due
\* is fixed by the first call, before the helper stirs.
LEMMA History ==
    ASSUME ShutInv, Running
    PROVE  /\ pc[App] # "crash" /\ pc[Helper] # "crash"
           /\ overlapped => overlapped'
           /\ Overlap' => overlapped'
           /\ overlapped' => overlapped \/ Overlap'
           /\ due' \subseteq Ifs /\ overlapped' \in BOOLEAN
           /\ call' = call => due' = due
           /\ Called => due' = due
<1>1. pc[App] # "crash" /\ pc[Helper] # "crash"
  BY WhoIsWho DEF Running, Crashed
<1>2. overlapped' = (overlapped \/ Overlap') /\ overlapped \in BOOLEAN
  BY DEF Running, ShutInv, ListTypes, ShutdownTypeOK
<1>3. call' = call => (Called' <=> Called)
  BY DEF Called
<1>4. due' = due \/ (~Called /\ Called' /\ due' \subseteq Ifs)
  BY DEF Running
<1>5. due' \subseteq Ifs
  BY <1>4, Typed
<1>6. /\ overlapped => overlapped'
      /\ Overlap' => overlapped'
      /\ overlapped' => overlapped \/ Overlap'
  BY <1>2, Zenon
<1>7. overlapped' \in BOOLEAN
  BY <1>2, Zenon DEF Overlap
<1> QED
  BY <1>1, <1>3, <1>4, <1>5, <1>6, <1>7

\* While the helper walks, nobody changes the vnet list: it has the lock, or
\* the application stands still with it.
LEMMA HelperWalking ==
    ASSUME ShutInv, pc[Helper] \in HelperWalks
    PROVE  /\ Called /\ ~shutdown_complete
           /\ vnet_lock # Nil /\ (vnet_lock = App => ~AppRuns)
<1>1. pc[Helper] # "msgwait" /\ pc[Helper] # "answer"
  BY DEF HelperWalks
<1>2. Called /\ ~shutdown_complete
  BY <1>1 DEF ShutInv, PhaseInv
<1>3. vnet_lock # Nil /\ (vnet_lock = App => ~AppRuns)
  BY WhoIsWho DEF ShutInv, LockInv, LockHeldLong
<1> QED
  BY <1>2, <1>3

\* Two that destroy at the same time have met.
LEMMA BothDestroy ==
    ASSUME ShutInv, NEW t \in Walkers, NEW r \in Walkers, t # r,
           pc[t] \in {"uif", "detach"}, pc[r] \in {"uif", "detach"}
    PROVE  overlapped
<1>1. pc[App] \in {"uif", "detach"} /\ pc[Helper] \in {"uif", "detach"}
  BY WhoIsWho
<1>2. Overlap
  BY <1>1 DEF Overlap
<1> QED
  BY <1>2 DEF ShutInv, PhaseInv

\* So have two that will.
LEMMA BothWillDestroy ==
    ASSUME ShutInv, Running, NEW t \in Walkers, NEW r \in Walkers, t # r,
           pc'[t] \in {"uif", "detach"}, pc'[r] \in {"uif", "detach"}
    PROVE  overlapped'
<1>1. pc'[App] \in {"uif", "detach"} /\ pc'[Helper] \in {"uif", "detach"}
  BY WhoIsWho
<1>2. Overlap'
  BY <1>1 DEF Overlap
<1> QED
  BY <1>2, History

-----------------------------------------------------------------------------
(* Lists *)

\* The first element of a list of interfaces or instances, or NULL.
LEMMA FirstOf ==
    ASSUME NEW S, NEW s \in Seq(S), Nil \notin S
    PROVE  /\ First(s) \in S \cup {Nil} /\ (First(s) = Nil <=> s = <<>>)
           /\ s # <<>> => First(s) = Head(s) /\ Has(s, First(s))
<1>1. CASE s = <<>>
  BY <1>1 DEF First
<1>2. CASE s # <<>>
  BY <1>2, HeadOn DEF First
<1> QED
  BY <1>1, <1>2

\* What follows the element at a place.
LEMMA AfterPlace ==
    ASSUME NEW S, NEW s \in Seq(S), Nil \notin S, Unrepeated(s), NEW k \in 1 .. Len(s)
    PROVE  /\ After(s, s[k]) = IF k = Len(s) THEN Nil ELSE s[k + 1]
           /\ k # Len(s) => k + 1 \in 1 .. Len(s) /\ s[k + 1] \in S
<1>1. PlaceOf(s, s[k]) = k
  BY PlaceIn
<1>2. k # Len(s) => k + 1 \in 1 .. Len(s)
  BY LenProperties
<1> QED
  BY <1>1, <1>2, ElementOfSeq DEF After

\* What follows the first element is the first of the rest.
LEMMA AfterHead ==
    ASSUME NEW S, NEW s \in Seq(S), Nil \notin S, Unrepeated(s), s # <<>>
    PROVE  After(s, Head(s)) = First(Tail(s)) /\ Tail(s) \in Seq(S)
<1>1. Len(s) \in Nat /\ 1 \in 1 .. Len(s) /\ Head(s) = s[1]
  BY HeadOn
<1>2. PICK t : t = Tail(s)
  OBVIOUS
<1>3. t \in Seq(S) /\ Len(t) = Len(s) - 1 /\ \A i \in 1 .. Len(t) : t[i] = s[i + 1]
  BY <1>2, HeadTailProperties
<1>4. After(s, Head(s)) = IF 1 = Len(s) THEN Nil ELSE s[1 + 1]
  BY <1>1, AfterPlace
<1>5. CASE Len(s) = 1
  <2>1. t = <<>>
    BY <1>3, <1>5, EmptySeq
  <2> QED
    BY <1>2, <1>3, <1>4, <1>5, <2>1 DEF First
<1>6. CASE Len(s) # 1
  <2>1. 1 \in 1 .. Len(t) /\ t # <<>>
    BY <1>1, <1>3, <1>6, EmptySeq
  <2>2. Head(t) = s[1 + 1]
    BY <1>3, <2>1, HeadOn
  <2> QED
    BY <1>2, <1>3, <1>4, <1>6, <2>1, <2>2 DEF First
<1> QED
  BY <1>5, <1>6

\* What another element that is unlinked does to the first one and to the rest.
LEMMA WithoutKeepsFirst ==
    ASSUME NEW S, NEW s \in Seq(S), Nil \notin S, Unrepeated(s), NEW x, x # First(s)
    PROVE  First(Without(s, x)) = First(s)
<1>1. CASE s = <<>>
  <2>1. ~Has(s, x)
    BY <1>1, EmptyList
  <2> QED
    BY <2>1 DEF Without
<1>2. CASE s # <<>>
  <2>1. First(s) = Head(s)
    BY <1>2 DEF First
  <2>2. Without(s, x) # <<>> /\ Head(Without(s, x)) = Head(s)
    BY <1>2, <2>1, WithoutOther
  <2> QED
    BY <2>1, <2>2 DEF First
<1> QED
  BY <1>1, <1>2

\* What an element linked in at the end does to them.
LEMMA AppendKeepsFirst ==
    ASSUME NEW S, NEW s \in Seq(S), Nil \notin S, NEW x \in S, First(s) # Nil
    PROVE  /\ First(Append(s, x)) = First(s)
           /\ Append(s, x) # <<>> /\ Head(Append(s, x)) = Head(s)
           /\ Tail(Append(s, x)) = Append(Tail(s), x)
<1>1. s # <<>>
  BY DEF First
<1>2. Append(s, x) # <<>>
  BY AppendProperties
<1>3. Head(Append(s, x)) = Head(s) /\ Tail(Append(s, x)) = Append(Tail(s), x)
  BY <1>1, HeadTailAppend
<1> QED
  BY <1>1, <1>2, <1>3 DEF First

\* A shorter list has nothing more left.
LEMMA LessLeft ==
    ASSUME NEW t, NEW s \in Seq(Ifs), NEW r \in Seq(Ifs), NothingLeft(t, s),
           \A x : Has(r, x) => Has(s, x)
    PROVE  NothingLeft(t, r)
<1>1. CASE t = App
  <2>1. s = <<>>
    BY <1>1 DEF NothingLeft
  <2>2. \A x : ~Has(r, x)
    BY <2>1, EmptyList
  <2>3. r = <<>>
    BY <2>2, HeadOn
  <2> QED
    BY <1>1, <2>3 DEF NothingLeft
<1>2. CASE t # App
  BY <1>2 DEF NothingLeft
<1> QED
  BY <1>1, <1>2

\* The empty list has nothing left.
LEMMA NoneLeft == ASSUME NEW t PROVE NothingLeft(t, <<>>)
<1>1. \A x : ~Has(<<>>, x)
  BY EmptyList
<1> QED
  BY <1>1, Zenon DEF NothingLeft

-----------------------------------------------------------------------------
(* A crash *)

\* The instance that the helper stands on is on the list; it lacks its uinet
\* only while the application creates it.
LEMMA HelperOn ==
    ASSUME ShutInv, pc[Helper] \in HelperWalks
    PROVE  /\ at_vnet[Helper] \in Instances /\ Has(vnet_list, at_vnet[Helper])
           /\ inst[at_vnet[Helper]] # "live" => overlapped
<1>1. PICK k \in 1 .. Len(vnet_list) : vnet_list[k] = at_vnet[Helper]
  BY DEF ShutInv, WalkInv
<1>2. at_vnet[Helper] \in Instances /\ Has(vnet_list, at_vnet[Helper])
  BY <1>1, Typed, ElementOfSeq DEF Has
<1>3. ASSUME inst[at_vnet[Helper]] # "live" PROVE overlapped
  <2>1. pc[App] \in {"linked", "listed"}
    BY <1>2, <1>3 DEF ShutInv, VnetInv
  <2>2. Overlap
    BY <2>1 DEF Overlap, HelperWalks
  <2> QED
    BY <2>2 DEF ShutInv, PhaseInv
<1> QED
  BY <1>2, <1>3

\* What the four steps that can meet dead memory do when they crash.
Falls(t) ==
  /\ overlapped
  /\ pc[t] \in {"vnet", "uif", "insert"} /\ pc' = [pc EXCEPT ![t] = "crash"]
  /\ UNCHANGED <<msgs, rsps, call, lists, lock_attempts, shutdown_complete, vars>>
  /\ at_vnet' \in [Walkers -> Instances \cup {Nil}] /\ at_uif' \in [Walkers -> Ifs \cup {Nil}]
  /\ at_tmp' \in [Walkers -> Ifs \cup {Nil}]
  /\ \A r \in Walkers : r # t =>
       at_vnet'[r] = at_vnet[r] /\ at_uif'[r] = at_uif[r] /\ at_tmp'[r] = at_tmp[r]

\* Nobody crashes but one who met the other at work.
LEMMA WhoFalls ==
    ASSUME ShutInv, ShutdownNext, Crashed'
    PROVE  \E t \in Walkers : Falls(t)
<1>1. /\ pc \in [Walkers -> Places] /\ App \in Walkers /\ Helper \in Walkers /\ App # Helper
      /\ Walkers = {App, Helper} /\ Nil \notin Ifs
      /\ at_vnet \in [Walkers -> Instances \cup {Nil}] /\ at_uif \in [Walkers -> Ifs \cup {Nil}]
      /\ at_tmp \in [Walkers -> Ifs \cup {Nil}]
  BY WhoIsWho, Typed
<1>2. \A t \in Walkers : pc[t] # "crash"
  BY DEF ShutdownNext, Running, Crashed
<1>3. PICK v \in Walkers : pc'[v] = "crash"
  BY DEF Crashed
<1>4. CASE CallNext \/ DriverNext \/ Injected
  <2>1. pc' = pc
    BY <1>4 DEF CallNext, MsgSend, RspWait, RspWaitInterrupted, DriverNext, Injected, own
  <2> QED
    BY <1>2, <1>3, <2>1
<1>5. ASSUME NEW t \in Walkers, DestroyBegins(t) PROVE Falls(t)
  <2>1. pc[t] = "uif" /\ at_uif[t] # Nil
    BY <1>5 DEF DestroyBegins
  <2>2. uif_mem[at_uif[t]] # "attached"
    <3>1. ASSUME uif_mem[at_uif[t]] = "attached" PROVE FALSE
      <4>1. pc' = [pc EXCEPT ![t] = "detach"]
        BY <1>5, <3>1 DEF DestroyBegins, GoTo
      <4> QED
        BY <1>1, <1>2, <1>3, <4>1
    <3> QED
      BY <3>1
  <2>3. /\ pc' = [pc EXCEPT ![t] = "crash"] /\ UNCHANGED <<at_vnet, at_uif, at_tmp>>
        /\ UNCHANGED <<msgs, rsps, call, lists, lock_attempts, shutdown_complete, vars>>
    BY <1>5, <2>2 DEF DestroyBegins, GoTo, lists
  <2>4. overlapped
    BY <2>1, <2>2 DEF ShutInv, CursorInv, StandsOn
  <2> QED
    BY <1>1, <2>1, <2>3, <2>4 DEF Falls
<1>6. ASSUME VisitVnet \/ NextVnet PROVE Falls(Helper)
  <2>1. pc[Helper] \in {"vnet", "uif"} /\ pc[Helper] \in HelperWalks
    BY <1>6 DEF VisitVnet, NextVnet, HelperWalks
  <2>2. inst[at_vnet[Helper]] # "live"
    <3>1. ASSUME inst[at_vnet[Helper]] = "live" PROVE FALSE
      <4>1. \E x \in {"uif", "down", "vnet"} : pc' = [pc EXCEPT ![Helper] = x]
        BY <1>6, <3>1 DEF VisitVnet, NextVnet, GoTo
      <4> QED
        BY <1>1, <1>2, <1>3, <4>1
    <3> QED
      BY <3>1
  <2>3. /\ pc' = [pc EXCEPT ![Helper] = "crash"] /\ UNCHANGED <<at_vnet, at_uif, at_tmp>>
        /\ UNCHANGED <<msgs, rsps, call, lists, lock_attempts, shutdown_complete, vars>>
    BY <1>6, <2>2 DEF VisitVnet, NextVnet, GoTo, cursors
  <2>4. overlapped
    BY <2>1, <2>2, HelperOn
  <2> QED
    BY <1>1, <2>1, <2>3, <2>4 DEF Falls
<1>7. ASSUME IfInsert PROVE Falls(App)
  <2>1. /\ pc[App] = "insert"
        /\ UNCHANGED <<msgs, rsps, call, vnet_list, vnet_lock, inst, lock_attempts,
                       shutdown_complete, vars>>
        /\ at_vnet' = [at_vnet EXCEPT ![App] = Nil] /\ at_uif' = [at_uif EXCEPT ![App] = Nil]
        /\ at_tmp' = [at_tmp EXCEPT ![App] = Nil]
    BY <1>7 DEF IfInsert, AppUnchanged
  <2>2. ~(pc' = [pc EXCEPT ![App] = "idle"])
    BY <1>1, <1>2, <1>3
  <2>3. /\ pc' = [pc EXCEPT ![App] = "crash"] /\ UNCHANGED <<uif_mem, uinet_if_list>>
        /\ at_tmp[App] # Final(uinet_if_list[at_vnet[App]])
    BY <1>7, <2>2 DEF IfInsert, GoTo
  <2>4. overlapped
    BY <2>1, <2>3 DEF ShutInv, InsertInv
  <2>5. UNCHANGED lists
    BY <2>1, <2>3 DEF lists
  <2> QED
    BY <1>1, <2>1, <2>3, <2>4, <2>5 DEF Falls
<1>8. CASE HelperNext
  <2>1. CASE MsgWait \/ TryLockSucceeds \/ TryLockFails \/ WithoutLock \/ ShutdownDone \/ RspSend
             \/ DestroyWaits(Helper) \/ DestroyEnds(Helper)
    <3>1. pc' = pc \/ \E x \in {"answer", "lock", "down", "vnet", "msgwait", "uif"} :
                        pc' = [pc EXCEPT ![Helper] = x]
      BY <2>1 DEF MsgWait, TryLockSucceeds, TryLockFails, WithoutLock, ShutdownDone, RspSend,
           DestroyWaits, DestroyEnds, ToFirstVnet, GoTo, own
    <3> QED
      BY <1>1, <1>2, <1>3, <3>1
  <2> QED
    BY <1>1, <1>5, <1>6, <1>8, <2>1 DEF HelperNext
<1>9. CASE AppCompletes
  <2>1. CASE SetFlagsWakes \/ IfCreateEnds \/ AppDestroyed \/ VnetLink \/ VnetUnlock
             \/ InstanceInit \/ VnetDestroyLocks \/ DestroyWaits(App) \/ DestroyEnds(App)
    <3>1. pc' = pc \/ \E x \in Places \ {"crash"} : pc' = [pc EXCEPT ![App] = x]
      BY <2>1 DEF SetFlagsWakes, IfCreateEnds, InsertBegins, AppDestroyed, VnetLink, VnetUnlock,
           InstanceInit, VnetDestroyLocks, DestroyWaits, DestroyEnds, GoTo, own, Places
    <3> QED
      BY <1>1, <1>2, <1>3, <3>1
  <2> QED
    BY <1>1, <1>5, <1>7, <1>9, <2>1 DEF AppCompletes
<1>10. CASE AppNext /\ ~AppCompletes
  <2>1. pc' = pc \/ \E x \in Places \ {"crash"} : pc' = [pc EXCEPT ![App] = x]
    BY <1>10 DEF AppNext, IfCreateBegins, SetFlags, IfDestroy, IfCreate, InsertBegins,
         InstanceDestroy, VnetAlloc, GoTo, own, Places
  <2> QED
    BY <1>1, <1>2, <1>3, <2>1
<1> QED
  BY <1>4, <1>8, <1>9, <1>10 DEF ShutdownNext

\* A crash leaves everything as it was found.
LEMMA CrashStep == ASSUME ShutInv, ShutdownNext, Crashed' PROVE ShutInv'
<1>1. PICK t \in Walkers : Falls(t)
  BY WhoFalls
<1>2. /\ pc \in [Walkers -> Places] /\ App \in Walkers /\ Helper \in Walkers /\ App # Helper
      /\ Walkers = {App, Helper} /\ t \in {App, Helper}
  BY WhoIsWho, Typed
<1>3. /\ overlapped /\ pc[t] \in {"vnet", "uif", "insert"} /\ pc' = [pc EXCEPT ![t] = "crash"]
      /\ UNCHANGED <<msgs, rsps, call, vnet_list, vnet_lock, inst, uinet_if_list, uif_mem,
                     lock_attempts, shutdown_complete, ctl, det>>
      /\ \A r \in Walkers : r # t =>
           at_vnet'[r] = at_vnet[r] /\ at_uif'[r] = at_uif[r] /\ at_tmp'[r] = at_tmp[r]
  BY <1>1 DEF Falls, lists, vars
<1>4. due' = due /\ overlapped' /\ overlapped' \in BOOLEAN
  BY <1>3, History DEF ShutdownNext
<1>5. \A r \in Walkers : r # t => pc'[r] = pc[r]
  BY <1>2, <1>3
<1>6. pc'[t] = "crash" /\ pc[App] \in AppPlaces
      /\ pc[Helper] \in HelperWalks \cup {"msgwait", "lock", "down", "answer", "crash"}
  BY <1>2, <1>3 DEF ShutInv, PhaseInv
<1>7. t = Helper => pc[Helper] \in HelperWalks /\ Called /\ ~shutdown_complete
  BY <1>2, <1>3, <1>6, HelperWalking DEF HelperWalks
<1>8. t = App => pc[App] \in {"uif", "insert"}
  BY <1>3, <1>6 DEF AppPlaces
<1>9. ListTypes'
  <2>1. pc' \in [Walkers -> Places]
    BY <1>2, <1>3 DEF Places
  <2> QED
    BY <1>1, <1>3, <1>4, <2>1 DEF Falls, ShutInv, ListTypes, ShutdownTypeOK
<1>10. (Called' <=> Called) /\ (AppRuns' <=> AppRuns)
  BY <1>3 DEF Called, AppRuns
<1>11. Called
  <2>1. ~Called => ~overlapped
    BY DEF ShutInv, PhaseInv
  <2> QED
    BY <1>3, <2>1
<1>12. PhaseInv'
  BY <1>2, <1>3, <1>4, <1>5, <1>6, <1>7, <1>10, <1>11 DEF ShutInv, PhaseInv, AppPlaces
<1>13. LockInv'
  BY <1>2, <1>3, <1>5, <1>6, <1>7, <1>8, <1>10 DEF ShutInv, LockInv, LockHeldLong, HelperWalks
<1>14. VnetInv'
  BY <1>2, <1>3, <1>5, <1>6, <1>8 DEF ShutInv, VnetInv
<1>15. DefaultInv'
  BY <1>2, <1>3, <1>5, <1>6 DEF ShutInv, DefaultInv
<1>16. IfInv'
  BY <1>3, <1>4 DEF ShutInv, IfInv
<1>17. CursorInv'
  <2>1. \A r \in Walkers : pc'[r] = "uif" => pc[r] = "uif" /\ StandsOn(r)'
    BY <1>3, <1>4, <1>5, <1>6 DEF ShutInv, CursorInv, StandsOn, NothingLeft, Gone
  <2>2. \A r \in Walkers : pc'[r] = "detach" => pc[r] = "detach" /\ WaitsFor(r)'
    BY <1>3, <1>4, <1>5, <1>6 DEF ShutInv, CursorInv, WaitsFor, NothingLeft, Gone
  <2>3. \A r \in Walkers : pc[r] = "detach" => r # t /\ pc'[r] = "detach" /\ at_uif'[r] = at_uif[r]
    BY <1>3, <1>5
  <2>4. \A u \in Ifs : uif_mem'[u] = "detaching" =>
          \E r \in Walkers : pc'[r] = "detach" /\ at_uif'[r] = u
    BY <1>3, <2>3 DEF ShutInv, CursorInv, EachByOne
  <2>5. \A q, r \in Walkers :
          pc'[q] = "detach" /\ pc'[r] = "detach" /\ at_uif'[q] = at_uif'[r] => q = r
    BY <2>2, <2>3 DEF ShutInv, CursorInv, EachByOne
  <2> QED
    BY <2>1, <2>2, <2>4, <2>5 DEF CursorInv, EachByOne
<1>18. InsertInv'
  BY <1>2, <1>3, <1>4, <1>5, <1>6 DEF ShutInv, InsertInv
<1>19. WalkInv'
  BY <1>2, <1>3, <1>4, <1>5, <1>6 DEF ShutInv, WalkInv, HelperWalks, NothingLeft
<1>20. WatchedInv'
  BY <1>2, <1>3, <1>5, <1>6 DEF ShutInv, WatchedInv
<1> QED
  BY <1>9, <1>12, <1>13, <1>14, <1>15, <1>16, <1>17, <1>18, <1>19, <1>20 DEF ShutInv

-----------------------------------------------------------------------------
(* What the steps find that do not crash *)

\* VisitVnet finds its instance alive.
LEMMA VisitFinds ==
    ASSUME ShutInv, VisitVnet, ~Crashed'
    PROVE  /\ pc[Helper] = "vnet" /\ pc' = [pc EXCEPT ![Helper] = "uif"]
           /\ at_uif' = [at_uif EXCEPT ![Helper] = First(uinet_if_list[at_vnet[Helper]])]
           /\ UNCHANGED <<at_vnet, at_tmp, msgs, rsps, call, lists, lock_attempts,
                          shutdown_complete, vars>>
<1>1. pc \in [Walkers -> Places] /\ Helper \in Walkers
  BY WhoIsWho, Typed
<1>2. inst[at_vnet[Helper]] = "live"
  BY <1>1 DEF VisitVnet, GoTo, Crashed
<1> QED
  BY <1>2 DEF VisitVnet, GoTo

\* So does NextVnet.
LEMMA NextFinds ==
    ASSUME ShutInv, NextVnet, ~Crashed'
    PROVE  /\ pc[Helper] = "uif" /\ at_uif[Helper] = Nil
           /\ at_vnet' = [at_vnet EXCEPT ![Helper] = After(vnet_list, at_vnet[Helper])]
           /\ pc' = [pc EXCEPT ![Helper] = IF After(vnet_list, at_vnet[Helper]) = Nil
                                             THEN "down" ELSE "vnet"]
           /\ UNCHANGED <<at_uif, at_tmp, msgs, rsps, call, lists, lock_attempts,
                          shutdown_complete, vars>>
<1>1. pc \in [Walkers -> Places] /\ Helper \in Walkers
  BY WhoIsWho, Typed
<1>2. inst[at_vnet[Helper]] = "live"
  BY <1>1 DEF NextVnet, GoTo, Crashed
<1> QED
  BY <1>2 DEF NextVnet, GoTo

\* Whoever begins to destroy an interface finds it attached.
LEMMA BeginFinds ==
    ASSUME ShutInv, NEW t \in Walkers, DestroyBegins(t), ~Crashed'
    PROVE  /\ pc[t] = "uif" /\ at_uif[t] \in Ifs /\ uif_mem[at_uif[t]] = "attached"
           /\ at_tmp' = [at_tmp EXCEPT ![t] = Follower(t)]
           /\ uif_mem' = [uif_mem EXCEPT ![at_uif[t]] = "detaching"]
           /\ pc' = [pc EXCEPT ![t] = "detach"]
           /\ IF at_uif[t] = Watched THEN KthreadStop ELSE UNCHANGED vars
           /\ UNCHANGED <<msgs, rsps, call, vnet_list, vnet_lock, inst, uinet_if_list,
                          lock_attempts, shutdown_complete, at_vnet, at_uif>>
<1>1. pc \in [Walkers -> Places] /\ at_uif \in [Walkers -> Ifs \cup {Nil}]
  BY Typed
<1>2. pc[t] = "uif" /\ at_uif[t] # Nil
  BY DEF DestroyBegins
<1>3. uif_mem[at_uif[t]] = "attached"
  BY <1>1 DEF DestroyBegins, GoTo, Crashed
<1> QED
  BY <1>1, <1>2, <1>3 DEF DestroyBegins, GoTo

\* The end of a destruction.
LEMMA EndDoes ==
    ASSUME ShutInv, NEW t \in Walkers, DestroyEnds(t)
    PROVE  /\ pc[t] = "detach" /\ at_uif[t] \in Ifs /\ uif_mem[at_uif[t]] = "detaching"
           /\ IF at_uif[t] = Watched THEN DetachFrees ELSE UNCHANGED vars
           /\ uinet_if_list' = OffList(at_uif[t])
           /\ uif_mem' = [uif_mem EXCEPT ![at_uif[t]] = "freed"]
           /\ at_uif' = [at_uif EXCEPT ![t] = at_tmp[t]]
           /\ at_tmp' = [at_tmp EXCEPT ![t] = Nil]
           /\ pc' = [pc EXCEPT ![t] = "uif"]
           /\ UNCHANGED <<msgs, rsps, call, vnet_list, vnet_lock, inst,
                          lock_attempts, shutdown_complete, at_vnet>>
<1>1. pc[t] = "detach"
  BY DEF DestroyEnds
<1>2. at_uif[t] \in Ifs /\ uif_mem[at_uif[t]] = "detaching"
  BY <1>1, Typed DEF ShutInv, CursorInv, WaitsFor
<1> QED
  BY <1>1, <1>2 DEF DestroyEnds, GoTo

\* An insertion puts a new interface on the list of a live instance, or loses
\* one that is not due.
LEMMA InsertDoes ==
    ASSUME ShutInv, IfInsert, Running, ~Crashed'
    PROVE  \E u \in Ifs, i \in Instances :
             /\ u = at_uif[App] /\ i = at_vnet[App]
             /\ pc[App] = "insert" /\ pc' = [pc EXCEPT ![App] = "idle"] /\ AppRuns
             /\ uif_mem[u] = "none" /\ u \notin due /\ inst[i] = "live" /\ Has(vnet_list, i)
             /\ uif_mem' = [uif_mem EXCEPT ![u] = "attached"]
             /\ \A j \in Instances : ~Has(uinet_if_list[j], u)
             /\ \/ uinet_if_list' = [uinet_if_list EXCEPT ![i] = Append(@, u)]
                \/ uinet_if_list' = uinet_if_list /\ overlapped
             /\ at_vnet' = [at_vnet EXCEPT ![App] = Nil] /\ at_uif' = [at_uif EXCEPT ![App] = Nil]
             /\ at_tmp' = [at_tmp EXCEPT ![App] = Nil]
             /\ UNCHANGED <<msgs, rsps, call, vnet_list, vnet_lock, inst, lock_attempts,
                            shutdown_complete, vars>>
<1>1. pc \in [Walkers -> Places] /\ App \in Walkers
  BY WhoIsWho, Typed
<1>2. /\ pc[App] = "insert" /\ AppRuns
      /\ UNCHANGED <<msgs, rsps, call, vnet_list, vnet_lock, inst, lock_attempts,
                     shutdown_complete, vars>>
      /\ at_vnet' = [at_vnet EXCEPT ![App] = Nil] /\ at_uif' = [at_uif EXCEPT ![App] = Nil]
      /\ at_tmp' = [at_tmp EXCEPT ![App] = Nil]
  BY DEF IfInsert, AppUnchanged
<1>3. pc' # [pc EXCEPT ![App] = "crash"]
  BY <1>1 DEF Crashed
<1>4. /\ pc' = [pc EXCEPT ![App] = "idle"]
      /\ uif_mem' = [uif_mem EXCEPT ![at_uif[App]] = "attached"]
      /\ uinet_if_list' = IF at_tmp[App] = Final(uinet_if_list[at_vnet[App]])
           THEN [uinet_if_list EXCEPT ![at_vnet[App]] = Append(@, at_uif[App])]
           ELSE uinet_if_list
  BY <1>3 DEF IfInsert, GoTo
<1>5. PICK u \in Ifs, i \in Instances : u = at_uif[App] /\ i = at_vnet[App]
  BY <1>2 DEF ShutInv, InsertInv
<1>6. /\ uif_mem[u] = "none" /\ inst[i] = "live"
      /\ ~overlapped => at_tmp[App] = Final(uinet_if_list[i])
  BY <1>2, <1>5 DEF ShutInv, InsertInv
<1>7. u \notin due /\ \A j \in Instances : ~Has(uinet_if_list[j], u)
  BY <1>6 DEF ShutInv, IfInv
<1>8. Has(vnet_list, i)
  BY <1>2, <1>6 DEF ShutInv, VnetInv
<1>9. \/ uinet_if_list' = [uinet_if_list EXCEPT ![i] = Append(@, u)]
      \/ uinet_if_list' = uinet_if_list /\ overlapped
  BY <1>4, <1>5, <1>6
<1> QED
  BY <1>2, <1>4, <1>5, <1>6, <1>7, <1>8, <1>9

\* The beginning of an insertion.
LEMMA CreateDoes ==
    ASSUME ShutInv, NEW u \in Ifs, NEW i \in Instances,
           IfCreate(u, i) \/ (IfCreateEnds /\ u = Watched /\ i = Default)
    PROVE  /\ uif_mem[u] = "none" /\ inst[i] = "live" /\ AppRuns
           /\ pc[App] \in {"idle", "create"} /\ pc' = [pc EXCEPT ![App] = "insert"]
           /\ at_vnet' = [at_vnet EXCEPT ![App] = i] /\ at_uif' = [at_uif EXCEPT ![App] = u]
           /\ at_tmp' = [at_tmp EXCEPT ![App] = Final(uinet_if_list[i])]
           /\ u # Watched => UNCHANGED vars
           /\ u = Watched => KthreadAddReturns
           /\ UNCHANGED <<msgs, rsps, call, lists, lock_attempts, shutdown_complete>>
<1>1. CASE IfCreate(u, i)
  BY <1>1 DEF IfCreate, InsertBegins, AppBegins, AppUnchanged, GoTo
<1>2. CASE IfCreateEnds /\ u = Watched /\ i = Default
  <2>1. /\ pc[App] = "create" /\ AppRuns /\ KthreadAddReturns
        /\ at_vnet' = [at_vnet EXCEPT ![App] = i] /\ at_uif' = [at_uif EXCEPT ![App] = u]
        /\ at_tmp' = [at_tmp EXCEPT ![App] = Final(uinet_if_list[i])]
        /\ pc' = [pc EXCEPT ![App] = "insert"]
        /\ UNCHANGED <<msgs, rsps, call, lists, lock_attempts, shutdown_complete>>
    BY <1>2 DEF IfCreateEnds, InsertBegins, AppUnchanged, GoTo
  <2>2. uif_mem[u] = "none"
    BY <1>2, <2>1 DEF ShutInv, WatchedInv
  <2>3. inst[i] = "live"
    BY <1>2 DEF ShutInv, DefaultInv
  <2> QED
    BY <1>2, <2>1, <2>2, <2>3
<1> QED
  BY <1>1, <1>2

-----------------------------------------------------------------------------
(* Phases *)

\* A step that leaves the callers and the channel alone, and moves the helper
\* only among the places of its walk.
LEMMA PhaseKept ==
    ASSUME ShutInv, Running, ~Crashed', UNCHANGED <<msgs, rsps, call, shutdown_complete>>,
           pc'[App] \in AppPlaces,
           \/ pc'[Helper] = pc[Helper]
           \/ /\ pc[Helper] \in HelperWalks \cup {"lock"}
              /\ pc'[Helper] \in HelperWalks \cup {"down"}
    PROVE  PhaseInv'
<1>1. (Called' <=> Called) /\ due' = due
  BY History DEF Called
<1>2. /\ overlapped => overlapped'
      /\ Overlap' => overlapped'
      /\ overlapped' => overlapped \/ Overlap'
  BY History
<1>3. CASE pc'[Helper] = pc[Helper]
  <2>1. ~Called' => ~overlapped'
    <3>1. ASSUME ~Called' PROVE ~overlapped /\ ~Overlap'
      <4>1. pc'[Helper] = "msgwait" /\ ~overlapped
        BY <1>1, <1>3, <3>1 DEF ShutInv, PhaseInv
      <4> QED
        BY <4>1 DEF Overlap
    <3> QED
      BY <1>2, <3>1
  <2> QED
    BY <1>1, <1>2, <1>3, <2>1 DEF ShutInv, PhaseInv
<1>4. CASE /\ pc[Helper] \in HelperWalks \cup {"lock"}
           /\ pc'[Helper] \in HelperWalks \cup {"down"}
  <2>1. pc[Helper] \notin {"msgwait", "answer"} /\ pc'[Helper] \notin {"msgwait", "answer"}
    BY <1>4 DEF HelperWalks
  <2>2. Called /\ ~shutdown_complete
    BY <2>1 DEF ShutInv, PhaseInv
  <2> QED
    BY <1>1, <1>2, <1>4, <2>1, <2>2 DEF ShutInv, PhaseInv
<1> QED
  BY <1>3, <1>4

\* The calls of uinet_shutdown.
LEMMA CallPhase == ASSUME ShutInv, CallNext, Running, ~Crashed' PROVE PhaseInv'
<1> PICK c \in Callers : MsgSend(c) \/ RspWait(c) \/ RspWaitInterrupted(c)
  BY DEF CallNext
<1>1. /\ msgs \in Nat /\ rsps \in Nat /\ call \in [Callers -> CallPlaces] /\ App \in Callers
  BY WhoIsWho, Typed
<1>2. pc' = pc /\ shutdown_complete' = shutdown_complete
  BY DEF MsgSend, RspWait, RspWaitInterrupted
<1>3. /\ call'[c] # "idle" /\ \E x \in CallPlaces : call' = [call EXCEPT ![c] = x]
      /\ call'[App] # "cut"
  BY <1>1 DEF MsgSend, RspWait, RspWaitInterrupted, CallPlaces, ShutInv, PhaseInv
<1>4. Called'
  BY <1>3 DEF Called
<1>5. ~shutdown_complete => /\ rsps' = 0 /\ \A d \in Callers : call'[d] # "returned"
  BY <1>1 DEF MsgSend, RspWait, RspWaitInterrupted, ShutInv, PhaseInv
<1>6. Overlap' => overlapped'
  BY History
<1> QED
  BY <1>2, <1>3, <1>4, <1>5, <1>6 DEF ShutInv, PhaseInv

\* The helper.
LEMMA HelperPhase == ASSUME ShutInv, HelperNext, Running, ~Crashed' PROVE PhaseInv'
<1>1. /\ msgs \in Nat /\ rsps \in Nat /\ pc \in [Walkers -> Places] /\ App \in Walkers
      /\ Helper \in Walkers /\ App # Helper
  BY WhoIsWho, Typed
<1>2. call' = call /\ (Called' <=> Called) /\ pc'[App] = pc[App]
  <2>1. call' = call /\ \/ pc' = pc \/ \E x : pc' = [pc EXCEPT ![Helper] = x]
    BY DEF HelperNext, MsgWait, TryLockSucceeds, TryLockFails, WithoutLock, VisitVnet, NextVnet,
           ShutdownDone, RspSend, DestroyBegins, DestroyWaits, DestroyEnds, GoTo, ToFirstVnet, own
  <2> QED
    BY <1>1, <2>1 DEF Called
<1>3. pc[App] \in AppPlaces /\ (Overlap' => overlapped')
  BY History DEF ShutInv, PhaseInv
<1>4. CASE MsgWait
  <2>1. /\ pc[Helper] = "msgwait" /\ msgs > 0 /\ msgs' = msgs - 1 /\ rsps' = rsps
        /\ shutdown_complete' = shutdown_complete
        /\ pc'[Helper] = IF shutdown_complete THEN "answer" ELSE "lock"
    BY <1>1, <1>4 DEF MsgWait, GoTo
  <2>2. Called
    BY <1>1, <2>1 DEF ShutInv, PhaseInv
  <2> QED
    BY <1>2, <1>3, <2>1, <2>2 DEF ShutInv, PhaseInv
<1>5. CASE RspSend
  <2>1. /\ pc[Helper] = "answer" /\ msgs' = msgs /\ pc'[Helper] = "msgwait"
        /\ shutdown_complete' = shutdown_complete
    BY <1>1, <1>5 DEF RspSend, GoTo
  <2>2. Called /\ shutdown_complete
    BY <2>1 DEF ShutInv, PhaseInv
  <2> QED
    BY <1>2, <1>3, <2>1, <2>2 DEF ShutInv, PhaseInv
<1>6. CASE ShutdownDone
  <2>1. /\ pc[Helper] = "down" /\ msgs' = msgs /\ rsps' = rsps /\ pc'[Helper] = "answer"
        /\ shutdown_complete' = TRUE
    BY <1>1, <1>6 DEF ShutdownDone, GoTo
  <2>2. Called
    BY <2>1 DEF ShutInv, PhaseInv
  <2> QED
    BY <1>2, <1>3, <2>1, <2>2 DEF ShutInv, PhaseInv
<1>7. CASE TryLockSucceeds \/ TryLockFails \/ WithoutLock
  <2>1. /\ UNCHANGED <<msgs, rsps, call, shutdown_complete>> /\ pc[Helper] = "lock"
        /\ pc'[Helper] \in {"lock", "down", "vnet"}
    BY <1>1, <1>7 DEF TryLockSucceeds, TryLockFails, WithoutLock, ToFirstVnet, GoTo
  <2> QED
    BY <1>2, <1>3, <2>1, PhaseKept DEF HelperWalks
<1>8. CASE VisitVnet \/ NextVnet
  <2>1. /\ UNCHANGED <<msgs, rsps, call, shutdown_complete>> /\ pc[Helper] \in HelperWalks
        /\ pc'[Helper] \in {"uif", "down", "vnet"}
    BY <1>1, <1>8, VisitFinds, NextFinds DEF HelperWalks
  <2> QED
    BY <1>2, <1>3, <2>1, PhaseKept DEF HelperWalks
<1>9. CASE DestroyBegins(Helper) \/ DestroyWaits(Helper) \/ DestroyEnds(Helper)
  <2>1. /\ UNCHANGED <<msgs, rsps, call, shutdown_complete>> /\ pc[Helper] \in HelperWalks
        /\ pc'[Helper] \in {"uif", "detach"}
    BY <1>1, <1>9, BeginFinds, EndDoes DEF HelperWalks, DestroyWaits, own
  <2> QED
    BY <1>2, <1>3, <2>1, PhaseKept DEF HelperWalks
<1> QED
  BY <1>4, <1>5, <1>6, <1>7, <1>8, <1>9 DEF HelperNext

\* What the application leaves alone.
LEMMA AppLeaves ==
    ASSUME ShutInv, AppNext, ~Crashed'
    PROVE  /\ UNCHANGED <<msgs, rsps, call, shutdown_complete, lock_attempts>>
           /\ pc'[Helper] = pc[Helper] /\ pc'[App] \in AppPlaces /\ (AppRuns' <=> AppRuns)
<1>1. /\ pc \in [Walkers -> Places] /\ App \in Walkers /\ Helper \in Walkers /\ App # Helper
  BY WhoIsWho, Typed
<1>2. UNCHANGED <<msgs, rsps, call, shutdown_complete, lock_attempts>>
  BY DEF AppNext, AppCompletes, IfCreateBegins, IfCreateEnds, IfInsert, SetFlags, SetFlagsWakes,
         IfDestroy, IfCreate, InstanceDestroy, VnetAlloc, AppDestroyed, VnetLink, VnetUnlock,
         InstanceInit, VnetDestroyLocks, DestroyBegins, DestroyWaits, DestroyEnds, AppUnchanged, own
<1>3. pc' = pc \/ \E x \in AppPlaces : pc' = [pc EXCEPT ![App] = x]
  BY DEF AppNext, AppCompletes, IfCreateBegins, IfCreateEnds, IfInsert, SetFlags, SetFlagsWakes,
         IfDestroy, IfCreate, InstanceDestroy, VnetAlloc, AppDestroyed, VnetLink, VnetUnlock,
         InstanceInit, VnetDestroyLocks, DestroyBegins, DestroyWaits, DestroyEnds, InsertBegins,
         GoTo, AppPlaces, own
<1>4. pc[App] \in AppPlaces
  BY DEF ShutInv, PhaseInv
<1> QED
  BY <1>1, <1>2, <1>3, <1>4 DEF AppRuns

\* In every step.
LEMMA PhaseStep == ASSUME ShutInv, ShutdownNext, ~Crashed' PROVE PhaseInv'
<1>1. Running
  BY DEF ShutdownNext
<1>2. CASE DriverNext \/ Injected
  <2>1. UNCHANGED <<msgs, rsps, call, shutdown_complete, pc>>
    BY <1>2 DEF DriverNext, Injected, own
  <2> QED
    BY <1>1, <2>1, PhaseKept DEF ShutInv, PhaseInv
<1>3. CASE AppNext
  BY <1>1, <1>3, AppLeaves, PhaseKept
<1> QED
  BY <1>1, <1>2, <1>3, CallPhase, HelperPhase DEF ShutdownNext

-----------------------------------------------------------------------------
(* Types *)

\* The types of all but the history variables.
MemoryTypes ==
  /\ msgs \in Nat /\ rsps \in Nat /\ call \in [Callers -> CallPlaces]
  /\ vnet_lock \in {Nil, App, Helper}
  /\ inst \in [Instances -> {"none", "nouinet", "live", "freed"}]
  /\ uif_mem \in [Ifs -> {"none", "attached", "detaching", "freed"}]
  /\ pc \in [Walkers -> Places]
  /\ lock_attempts \in 0 .. LockAttempts
  /\ shutdown_complete \in BOOLEAN
  /\ vnet_list \in Seq(Instances)
  /\ uinet_if_list \in [Instances -> Seq(Ifs)]
  /\ at_vnet \in [Walkers -> Instances \cup {Nil}]
  /\ at_uif \in [Walkers -> Ifs \cup {Nil}]
  /\ at_tmp \in [Walkers -> Ifs \cup {Nil}]

LEMMA MemoryTyped == ShutInv => MemoryTypes
BY Zenon DEF ShutInv, ListTypes, ShutdownTypeOK, MemoryTypes

\* The head of the list that a walker works through, and what its cursor says.
LEMMA FollowerIs ==
    ASSUME ShutInv, NEW t \in Walkers, pc[t] = "uif", at_uif[t] # Nil,
           uif_mem[at_uif[t]] = "attached"
    PROVE  /\ Follower(t) \in Ifs \cup {Nil}
           /\ at_vnet[t] = Nil => Follower(t) = Nil
           /\ at_vnet[t] # Nil => /\ uinet_if_list[at_vnet[t]] # <<>>
                                  /\ at_uif[t] = Head(uinet_if_list[at_vnet[t]])
                                  /\ Follower(t) = First(Tail(uinet_if_list[at_vnet[t]]))
<1>1. CASE at_vnet[t] = Nil
  BY <1>1 DEF Follower
<1>2. CASE at_vnet[t] # Nil
  <2>1. PICK i \in Instances : i = at_vnet[t]
    BY <1>2, Typed
  <2>2. PICK s \in Seq(Ifs) : s = uinet_if_list[i]
    BY Typed
  <2>3. Unrepeated(s) /\ at_uif[t] = First(s) /\ Nil \notin Ifs
    BY <1>2, <2>1, <2>2, WhoIsWho DEF ShutInv, IfInv, CursorInv, StandsOn, Gone
  <2>4. s # <<>> /\ at_uif[t] = Head(s)
    BY <2>3, FirstOf
  <2>5. Follower(t) = First(Tail(s)) /\ Tail(s) \in Seq(Ifs)
    BY <1>2, <2>1, <2>2, <2>3, <2>4, AfterHead DEF Follower
  <2>6. First(Tail(s)) \in Ifs \cup {Nil}
    BY <2>3, <2>5, FirstOf
  <2> QED
    BY <1>2, <2>1, <2>2, <2>4, <2>5, <2>6
<1> QED
  BY <1>1, <1>2

\* An interface taken off the lists is on none of them.
LEMMA OffListIs ==
    ASSUME ShutInv, NEW u \in Ifs
    PROVE  /\ OffList(u) \in [Instances -> Seq(Ifs)]
           /\ \A i \in Instances : OffList(u)[i] = Without(uinet_if_list[i], u)
           /\ \A i \in Instances : Unrepeated(OffList(u)[i])
           /\ \A i \in Instances : \A x : Has(OffList(u)[i], x) <=> Has(uinet_if_list[i], x) /\ x # u
           /\ \A i \in Instances : uinet_if_list[i] = <<>> => OffList(u)[i] = <<>>
<1>1. ASSUME NEW i \in Instances
      PROVE  /\ OffList(u)[i] \in Seq(Ifs) /\ Unrepeated(OffList(u)[i])
             /\ OffList(u)[i] = Without(uinet_if_list[i], u)
             /\ \A x : Has(OffList(u)[i], x) <=> Has(uinet_if_list[i], x) /\ x # u
             /\ uinet_if_list[i] = <<>> => OffList(u)[i] = <<>>
  <2>1. OffList(u)[i] = Without(uinet_if_list[i], u)
    BY DEF OffList
  <2>2. uinet_if_list[i] \in Seq(Ifs) /\ Unrepeated(uinet_if_list[i])
    BY Typed DEF ShutInv, IfInv
  <2>3. uinet_if_list[i] = <<>> => ~Has(uinet_if_list[i], u)
    BY EmptyList
  <2> QED
    BY <2>1, <2>2, <2>3, WithoutList DEF Without
<1>2. OffList(u) = [i \in Instances |-> OffList(u)[i]]
  BY DEF OffList
<1> QED
  BY <1>1, <1>2

\* A destruction keeps the types.
LEMMA DestroyTypes ==
    ASSUME ShutInv, Running, ~Crashed', NEW t \in Walkers, DestroyBegins(t) \/ DestroyEnds(t)
    PROVE  MemoryTypes'
<1>1. MemoryTypes
  BY MemoryTyped
<1>2. CASE DestroyBegins(t)
  <2>1. Follower(t) \in Ifs \cup {Nil}
    BY <1>2, FollowerIs, BeginFinds, WhoIsWho
  <2>2. /\ at_tmp' = [at_tmp EXCEPT ![t] = Follower(t)]
        /\ uif_mem' = [uif_mem EXCEPT ![at_uif[t]] = "detaching"]
        /\ pc' = [pc EXCEPT ![t] = "detach"]
        /\ UNCHANGED <<msgs, rsps, call, vnet_list, vnet_lock, inst, uinet_if_list,
                       lock_attempts, shutdown_complete, at_vnet, at_uif>>
    BY <1>2, BeginFinds
  <2> HIDE DEF Follower
  <2> QED
    BY <1>1, <2>1, <2>2 DEF MemoryTypes, Places
<1>3. CASE DestroyEnds(t)
  <2>1. PICK u \in Ifs, f \in Ifs \cup {Nil} : u = at_uif[t] /\ f = at_tmp[t]
    BY <1>1, <1>3, EndDoes DEF MemoryTypes
  <2>2. /\ uinet_if_list' \in [Instances -> Seq(Ifs)]
        /\ uif_mem' = [uif_mem EXCEPT ![u] = "freed"]
        /\ at_uif' = [at_uif EXCEPT ![t] = f] /\ at_tmp' = [at_tmp EXCEPT ![t] = Nil]
        /\ pc' = [pc EXCEPT ![t] = "uif"]
        /\ UNCHANGED <<msgs, rsps, call, vnet_list, vnet_lock, inst,
                       lock_attempts, shutdown_complete, at_vnet>>
    BY <1>3, <2>1, OffListIs, EndDoes
  <2> QED
    BY <1>1, <2>1, <2>2 DEF MemoryTypes, Places
<1> QED
  BY <1>2, <1>3

\* A step that changes nothing of the shutdown's own state.
LEMMA OwnTypes == ASSUME ShutInv, UNCHANGED own PROVE MemoryTypes'
BY MemoryTyped DEF own, lists, cursors, MemoryTypes

\* The helper keeps the types.
LEMMA HelperTypes == ASSUME ShutInv, HelperNext, Running, ~Crashed' PROVE MemoryTypes'
<1>0. MemoryTypes
  BY MemoryTyped
<1> USE DEF MemoryTypes
<1>1. App \in Walkers /\ Helper \in Walkers /\ App # Helper /\ LockAttempts \in Nat
      /\ Nil \notin Instances /\ Nil \notin Ifs
  BY WhoIsWho
<1>2. CASE MsgWait \/ TryLockFails \/ ShutdownDone \/ RspSend
  <2>1. CASE MsgWait
    BY <1>0, <1>1, <2>1 DEF MsgWait, GoTo, Places, lists, cursors
  <2>2. CASE TryLockFails
    BY <1>0, <1>1, <2>2 DEF TryLockFails, AttemptsLeft, lists, cursors
  <2>3. CASE ShutdownDone
    BY <1>0, <1>1, <2>3 DEF ShutdownDone, LockAfter, GoTo, Places, cursors
  <2>4. CASE RspSend
    BY <1>0, <1>1, <2>4 DEF RspSend, GoTo, Places, lists, cursors
  <2> QED
    BY <1>2, <2>1, <2>2, <2>3, <2>4
<1>3. First(vnet_list) \in Instances \cup {Nil}
  BY <1>0, <1>1, FirstOf
<1>4. CASE TryLockSucceeds \/ WithoutLock
  BY <1>0, <1>1, <1>3, <1>4 DEF TryLockSucceeds, WithoutLock, ToFirstVnet, GoTo, Places, lists
<1>5. CASE VisitVnet
  <2>1. at_vnet[Helper] \in Instances
    BY <1>5, HelperOn DEF VisitVnet, HelperWalks
  <2>2. First(uinet_if_list[at_vnet[Helper]]) \in Ifs \cup {Nil}
    BY <1>0, <1>1, <2>1, FirstOf
  <2> QED
    BY <1>0, <1>1, <1>5, <2>2, VisitFinds DEF Places, lists
<1>6. CASE NextVnet
  <2>1. PICK k \in 1 .. Len(vnet_list) : vnet_list[k] = at_vnet[Helper]
    BY <1>6, HelperOn DEF NextVnet, HelperWalks, Has
  <2>2. After(vnet_list, at_vnet[Helper]) \in Instances \cup {Nil}
    <3>1. vnet_list \in Seq(Instances) /\ Unrepeated(vnet_list)
      BY <1>0 DEF ShutInv, VnetInv
    <3>2. After(vnet_list, vnet_list[k]) \in Instances \cup {Nil}
      BY <1>1, <3>1, AfterPlace
    <3> QED
      BY <2>1, <3>2
  <2> QED
    BY <1>0, <1>1, <1>6, <2>2, NextFinds DEF Places, lists
<1>7. CASE DestroyBegins(Helper) \/ DestroyEnds(Helper)
  BY <1>7, <1>1, DestroyTypes
<1>8. CASE DestroyWaits(Helper)
  BY <1>8, OwnTypes DEF DestroyWaits
<1> QED
  BY <1>2, <1>4, <1>5, <1>6, <1>7, <1>8 DEF HelperNext

\* The last element of a list of interfaces, or NULL.
LEMMA FinalOf ==
    ASSUME NEW s \in Seq(Ifs) PROVE Final(s) \in Ifs \cup {Nil}
<1>1. CASE s = <<>>
  BY <1>1 DEF Final
<1>2. CASE s # <<>>
  <2>1. Len(s) \in 1 .. Len(s)
    BY <1>2, HeadOn
  <2> QED
    BY <1>2, <2>1, ElementOfSeq DEF Final
<1> QED
  BY <1>1, <1>2

\* The application keeps the types.
LEMMA AppTypes == ASSUME ShutInv, AppNext, Running, ~Crashed' PROVE MemoryTypes'
<1>0. MemoryTypes
  BY MemoryTyped
<1> USE DEF MemoryTypes
<1>1. App \in Walkers /\ Default \in Instances /\ Watched \in Ifs
      /\ Nil \notin Instances /\ Nil \notin Ifs
  BY WhoIsWho
<1>2. CASE DestroyBegins(App) \/ DestroyEnds(App)
  BY <1>1, <1>2, DestroyTypes
<1>3. ASSUME NEW u \in Ifs, NEW i \in Instances,
             IfCreate(u, i) \/ (IfCreateEnds /\ u = Watched /\ i = Default)
      PROVE  MemoryTypes'
  <2>1. PICK f \in Ifs \cup {Nil} : f = Final(uinet_if_list[i])
    BY <1>0, FinalOf
  <2>2. /\ at_vnet' = [at_vnet EXCEPT ![App] = i] /\ at_uif' = [at_uif EXCEPT ![App] = u]
        /\ at_tmp' = [at_tmp EXCEPT ![App] = f] /\ pc' = [pc EXCEPT ![App] = "insert"]
        /\ UNCHANGED <<msgs, rsps, call, lists, lock_attempts, shutdown_complete>>
    BY <1>3, <2>1, CreateDoes
  <2> QED
    BY <1>0, <1>1, <2>2 DEF Places, lists
<1>4. CASE IfInsert
  <2>1. PICK u \in Ifs, i \in Instances :
          /\ pc' = [pc EXCEPT ![App] = "idle"]
          /\ uif_mem' = [uif_mem EXCEPT ![u] = "attached"]
          /\ \/ uinet_if_list' = [uinet_if_list EXCEPT ![i] = Append(@, u)]
             \/ uinet_if_list' = uinet_if_list
          /\ at_vnet' = [at_vnet EXCEPT ![App] = Nil] /\ at_uif' = [at_uif EXCEPT ![App] = Nil]
          /\ at_tmp' = [at_tmp EXCEPT ![App] = Nil]
          /\ UNCHANGED <<msgs, rsps, call, vnet_list, vnet_lock, inst, lock_attempts,
                         shutdown_complete>>
    BY <1>4, InsertDoes
  <2>2. Append(uinet_if_list[i], u) \in Seq(Ifs)
    BY <1>0, AppendProperties
  <2> QED
    BY <1>0, <1>1, <2>1, <2>2 DEF Places
<1>5. CASE AppDestroyed \/ VnetDestroyLocks
  BY <1>0, <1>1, <1>5 DEF AppDestroyed, VnetDestroyLocks, AppUnchanged, GoTo, Places, cursors, lists
<1>6. CASE InstanceInit
  BY <1>0, <1>1, <1>6 DEF InstanceInit, AppUnchanged, GoTo, Places, ShutInv, VnetInv
<1>7. CASE VnetUnlock
  BY <1>0, <1>1, <1>7 DEF VnetUnlock, AppUnchanged, GoTo, Places, ShutInv, VnetInv
<1>8. CASE VnetLink
  <2>1. at_vnet[App] \in Instances
    BY <1>8 DEF VnetLink, ShutInv, VnetInv
  <2>2. <<at_vnet[App]>> \o vnet_list \in Seq(Instances)
        /\ Without(vnet_list, at_vnet[App]) \in Seq(Instances)
    BY <1>0, <2>1, PushList, WithoutList DEF ShutInv, VnetInv
  <2>3. vnet_list' \in Seq(Instances)
    BY <1>8, <2>2 DEF VnetLink
  <2> QED
    BY <1>0, <1>1, <1>8, <2>3 DEF VnetLink, AppUnchanged, GoTo, Places, cursors
<1>9. CASE IfCreateBegins
  BY <1>0, <1>1, <1>9 DEF IfCreateBegins, AppUnchanged, GoTo, Places, lists, cursors
<1>10. ASSUME NEW u \in Ifs, IfDestroy(u) PROVE MemoryTypes'
  BY <1>0, <1>1, <1>10 DEF IfDestroy, AppUnchanged, GoTo, Places, lists
<1>11. ASSUME NEW i \in Instances, InstanceDestroy(i) PROVE MemoryTypes'
  <2>1. First(uinet_if_list[i]) \in Ifs \cup {Nil}
    BY <1>0, <1>1, FirstOf
  <2> QED
    BY <1>0, <1>1, <1>11, <2>1 DEF InstanceDestroy, AppUnchanged, GoTo, Places, lists
<1>12. ASSUME NEW i \in Instances, VnetAlloc(i) PROVE MemoryTypes'
  BY <1>0, <1>1, <1>12 DEF VnetAlloc, AppUnchanged, GoTo, Places
<1>13. CASE SetFlags \/ SetFlagsWakes \/ DestroyWaits(App)
  BY <1>13, OwnTypes DEF SetFlags, SetFlagsWakes, DestroyWaits
<1> QED
  BY <1>1, <1>2, <1>3, <1>4, <1>5, <1>6, <1>7, <1>8, <1>9, <1>10, <1>11, <1>12, <1>13
     DEF AppNext, AppCompletes

\* Every step does.
LEMMA TypesStep == ASSUME ShutInv, ShutdownNext, ~Crashed' PROVE ListTypes'
<1>0. Running
  BY DEF ShutdownNext
<1>1. ASSUME CallNext PROVE MemoryTypes'
  <2>1. PICK c \in Callers : MsgSend(c) \/ RspWait(c) \/ RspWaitInterrupted(c)
    BY <1>1 DEF CallNext
  <2>2. /\ UNCHANGED <<lists, pc, lock_attempts, shutdown_complete, cursors>>
        /\ msgs' \in Nat /\ rsps' \in Nat /\ call' \in [Callers -> CallPlaces]
    <3>1. msgs \in Nat /\ rsps \in Nat /\ call \in [Callers -> CallPlaces]
      BY Typed
    <3>2. UNCHANGED <<lists, pc, lock_attempts, shutdown_complete, cursors>>
      BY <2>1 DEF MsgSend, RspWait, RspWaitInterrupted
    <3>3. msgs' \in Nat /\ rsps' \in Nat
      BY <2>1, <3>1 DEF MsgSend, RspWait, RspWaitInterrupted
    <3>4. \E x \in CallPlaces : call' = [call EXCEPT ![c] = x]
      BY <2>1 DEF MsgSend, RspWait, RspWaitInterrupted, CallPlaces
    <3> QED
      BY <3>1, <3>2, <3>3, <3>4
  <2> QED
    BY <2>2, MemoryTyped DEF MemoryTypes, lists, cursors
<1>2. ASSUME DriverNext \/ Injected PROVE MemoryTypes'
  BY <1>0, <1>2, OwnTypes DEF DriverNext, Injected
<1>3. MemoryTypes'
  BY <1>0, <1>1, <1>2, HelperTypes, AppTypes DEF ShutdownNext
<1>4. due' \subseteq Ifs /\ overlapped' \in BOOLEAN
  BY <1>0, History
<1> QED
  BY <1>3, <1>4, Zenon DEF ListTypes, ShutdownTypeOK, MemoryTypes

-----------------------------------------------------------------------------
(* The lock and the watched interface *)

\* A step that leaves the lock, the attempts at it and the callers alone.
LEMMA LockKept ==
    ASSUME ShutInv, UNCHANGED <<vnet_lock, lock_attempts>>, AppRuns' <=> AppRuns,
           pc'[App] \in {"alloc", "linked", "wlocked", "unlinked"}
             <=> pc[App] \in {"alloc", "linked", "wlocked", "unlinked"},
           \/ pc'[Helper] = pc[Helper]
           \/ /\ pc[Helper] \in HelperWalks
              /\ pc'[Helper] \in HelperWalks \cup {"down"}
    PROVE  LockInv'
BY DEF ShutInv, LockInv, LockHeldLong, HelperWalks

\* The lock, in the calls of uinet_shutdown.
LEMMA CallLock == ASSUME ShutInv, CallNext PROVE LockInv'
<1> PICK c \in Callers : MsgSend(c) \/ RspWait(c) \/ RspWaitInterrupted(c)
  BY DEF CallNext
<1>1. UNCHANGED <<vnet_lock, lock_attempts, pc>>
  BY DEF MsgSend, RspWait, RspWaitInterrupted, lists
<1>2. call \in [Callers -> CallPlaces] /\ App \in Callers /\ rsps \in Nat
  BY WhoIsWho, Typed
<1>3. ASSUME lock_attempts = LockAttempts, ~AppRuns PROVE ~AppRuns'
  <2>1. ~shutdown_complete
    BY <1>3 DEF ShutInv, LockInv, PhaseInv
  <2>2. ~RspWait(c)
    BY <2>1 DEF RspWait, ShutInv, PhaseInv
  <2> QED
    BY <1>2, <1>3, <2>2 DEF MsgSend, RspWaitInterrupted, AppRuns, CallPlaces
<1> QED
  BY <1>1, <1>3 DEF ShutInv, LockInv, LockHeldLong

\* What the helper leaves alone.
LEMMA HelperLeaves ==
    ASSUME ShutInv, HelperNext
    PROVE  /\ UNCHANGED <<call, vnet_list, inst>> /\ (AppRuns' <=> AppRuns)
           /\ pc'[App] = pc[App] /\ at_vnet'[App] = at_vnet[App]
           /\ at_uif'[App] = at_uif[App] /\ at_tmp'[App] = at_tmp[App]
<1>1. /\ pc \in [Walkers -> Places] /\ App \in Walkers /\ Helper \in Walkers /\ App # Helper
      /\ at_vnet \in [Walkers -> Instances \cup {Nil}] /\ at_uif \in [Walkers -> Ifs \cup {Nil}]
      /\ at_tmp \in [Walkers -> Ifs \cup {Nil}]
  BY WhoIsWho, Typed
<1>2. /\ UNCHANGED <<call, vnet_list, inst>>
      /\ pc' = pc \/ \E x : pc' = [pc EXCEPT ![Helper] = x]
      /\ at_vnet' = at_vnet \/ \E x : at_vnet' = [at_vnet EXCEPT ![Helper] = x]
      /\ at_uif' = at_uif \/ \E x : at_uif' = [at_uif EXCEPT ![Helper] = x]
      /\ at_tmp' = at_tmp \/ \E x : at_tmp' = [at_tmp EXCEPT ![Helper] = x]
  BY DEF HelperNext, MsgWait, TryLockSucceeds, TryLockFails, WithoutLock, VisitVnet, NextVnet,
         ShutdownDone, RspSend, DestroyBegins, DestroyWaits, DestroyEnds, GoTo, ToFirstVnet,
         own, lists, cursors
<1> QED
  BY <1>1, <1>2 DEF AppRuns

\* In the helper's steps.
LEMMA HelperLock == ASSUME ShutInv, HelperNext, ~Crashed' PROVE LockInv'
<1>1. /\ pc \in [Walkers -> Places] /\ App \in Walkers /\ Helper \in Walkers /\ App # Helper
      /\ App # Nil /\ Helper # Nil /\ LockAttempts \in Nat /\ LockAttempts # 0
      /\ lock_attempts \in 0 .. LockAttempts
  BY WhoIsWho, Typed
<1>2. (AppRuns' <=> AppRuns) /\ pc'[App] = pc[App]
  BY HelperLeaves
<1>3. CASE MsgWait \/ RspSend
  <2>1. /\ UNCHANGED <<vnet_lock, lock_attempts>>
        /\ pc[Helper] \in {"msgwait", "answer"} /\ pc'[Helper] \in {"msgwait", "answer", "lock"}
    BY <1>1, <1>3 DEF MsgWait, RspSend, GoTo, lists
  <2> QED
    BY <1>2, <2>1 DEF ShutInv, LockInv, HelperWalks
<1>4. CASE TryLockSucceeds
  <2>1. /\ vnet_lock = Nil /\ vnet_lock' = Helper /\ lock_attempts' = lock_attempts
        /\ lock_attempts # LockAttempts /\ pc'[Helper] \in {"down", "vnet"}
    BY <1>1, <1>4 DEF TryLockSucceeds, ToFirstVnet, GoTo, AttemptsLeft
  <2> QED
    BY <1>1, <1>2, <2>1 DEF ShutInv, LockInv, HelperWalks
<1>5. CASE TryLockFails
  <2>1. /\ vnet_lock' = vnet_lock /\ pc' = pc /\ pc[Helper] = "lock"
        /\ lock_attempts' = LockAttempts => LockHeldLong
    BY <1>1, <1>5 DEF TryLockFails, lists
  <2> QED
    BY <1>1, <1>2, <2>1 DEF ShutInv, LockInv, HelperWalks, LockHeldLong
<1>6. CASE WithoutLock
  <2>1. /\ UNCHANGED <<vnet_lock, lock_attempts>> /\ lock_attempts = LockAttempts
        /\ pc'[Helper] \in {"down", "vnet"}
    BY <1>1, <1>6 DEF WithoutLock, ToFirstVnet, GoTo, OutOfAttempts, lists
  <2> QED
    BY <1>1, <1>2, <2>1 DEF ShutInv, LockInv, HelperWalks, LockHeldLong
<1>7. CASE VisitVnet \/ NextVnet
  <2>1. /\ UNCHANGED <<vnet_lock, lock_attempts>> /\ pc[Helper] \in HelperWalks
        /\ pc'[Helper] \in {"uif", "down", "vnet"}
    BY <1>1, <1>7, VisitFinds, NextFinds DEF HelperWalks, lists
  <2> QED
    BY <1>2, <2>1, LockKept DEF HelperWalks
<1>8. CASE DestroyBegins(Helper) \/ DestroyWaits(Helper) \/ DestroyEnds(Helper)
  <2>1. /\ UNCHANGED <<vnet_lock, lock_attempts>> /\ pc[Helper] \in HelperWalks
        /\ pc'[Helper] \in {"uif", "detach"}
    BY <1>1, <1>8, BeginFinds, EndDoes DEF HelperWalks, DestroyWaits, own, lists
  <2> QED
    BY <1>2, <2>1, LockKept DEF HelperWalks
<1>9. CASE ShutdownDone
  <2>1. /\ vnet_lock' = LockAfter /\ lock_attempts' = 0 /\ pc'[Helper] = "answer"
    BY <1>1, <1>9 DEF ShutdownDone, GoTo
  <2> QED
    BY <1>1, <1>2, <2>1 DEF ShutInv, LockInv, HelperWalks, LockAfter
<1> QED
  BY <1>3, <1>4, <1>5, <1>6, <1>7, <1>8, <1>9 DEF HelperNext

\* In the application's steps.
LEMMA AppLock == ASSUME ShutInv, AppNext, Running, ~Crashed' PROVE LockInv'
<1>1. /\ pc \in [Walkers -> Places] /\ App \in Walkers /\ Helper \in Walkers /\ App # Helper
      /\ App # Nil /\ Helper # Nil
  BY WhoIsWho, Typed
<1>2. (AppRuns' <=> AppRuns) /\ pc'[Helper] = pc[Helper] /\ lock_attempts' = lock_attempts
  BY AppLeaves
<1>3. CASE DestroyBegins(App) \/ DestroyWaits(App) \/ DestroyEnds(App)
  <2>1. UNCHANGED vnet_lock /\ pc[App] \in {"uif", "detach"} /\ pc'[App] \in {"uif", "detach"}
    BY <1>1, <1>3, BeginFinds, EndDoes DEF DestroyWaits, own, lists
  <2> QED
    BY <1>2, <2>1, LockKept
<1>4. CASE AppDestroyed \/ InstanceInit \/ SetFlags \/ SetFlagsWakes \/ VnetLink \/ IfCreateBegins
  <2>1. UNCHANGED vnet_lock /\ (pc'[App] \in {"alloc", "linked", "wlocked", "unlinked"}
             <=> pc[App] \in {"alloc", "linked", "wlocked", "unlinked"})
    BY <1>1, <1>4 DEF AppDestroyed, InstanceInit, SetFlags, SetFlagsWakes, VnetLink,
         IfCreateBegins, AppBegins, own, GoTo, lists
  <2> QED
    BY <1>2, <2>1, LockKept
<1>5. ASSUME NEW u \in Ifs, NEW i \in Instances,
             \/ IfDestroy(u) \/ InstanceDestroy(i) \/ IfInsert
             \/ IfCreate(u, i) \/ (IfCreateEnds /\ u = Watched /\ i = Default)
      PROVE  LockInv'
  <2>1. CASE IfDestroy(u) \/ InstanceDestroy(i)
    <3>1. UNCHANGED vnet_lock /\ pc[App] = "idle" /\ pc'[App] = "uif"
      BY <1>1, <2>1 DEF IfDestroy, InstanceDestroy, AppBegins, GoTo, lists
    <3> QED
      BY <1>2, <3>1, LockKept
  <2>2. CASE IfInsert
    <3>1. UNCHANGED vnet_lock /\ pc[App] = "insert" /\ pc'[App] = "idle"
      BY <1>1, <2>2, InsertDoes
    <3> QED
      BY <1>2, <3>1, LockKept
  <2>3. CASE IfCreate(u, i) \/ (IfCreateEnds /\ u = Watched /\ i = Default)
    <3>1. UNCHANGED vnet_lock /\ pc[App] \in {"idle", "create"} /\ pc'[App] = "insert"
      BY <1>1, <2>3, CreateDoes DEF lists
    <3> QED
      BY <1>2, <3>1, LockKept
  <2> QED
    BY <1>5, <2>1, <2>2, <2>3
<1>6. ASSUME NEW i \in Instances, VnetAlloc(i) \/ VnetDestroyLocks
      PROVE  LockInv'
  <2>1. vnet_lock = Nil /\ vnet_lock' = App /\ pc'[App] \in {"alloc", "wlocked"}
    BY <1>1, <1>6 DEF VnetAlloc, VnetDestroyLocks, GoTo
  <2> QED
    BY <1>1, <1>2, <2>1 DEF ShutInv, LockInv, LockHeldLong
<1>7. CASE VnetUnlock
  <2>1. /\ AppRuns /\ pc[App] \in {"linked", "unlinked"} /\ vnet_lock' = Nil
        /\ pc'[App] \in {"listed", "idle"}
    BY <1>1, <1>7 DEF VnetUnlock, GoTo
  <2> QED
    BY <1>1, <1>2, <2>1 DEF ShutInv, LockInv, LockHeldLong
<1> QED
  BY <1>3, <1>4, <1>5, <1>6, <1>7, WhoIsWho DEF AppNext, AppCompletes

\* In every step.
LEMMA LockStep == ASSUME ShutInv, ShutdownNext, ~Crashed' PROVE LockInv'
<1>1. CASE DriverNext \/ Injected
  <2>1. UNCHANGED <<call, pc, vnet_lock, lock_attempts>>
    BY <1>1 DEF DriverNext, Injected, own, lists
  <2> QED
    BY <2>1, LockKept DEF AppRuns
<1> QED
  BY <1>1, CallLock, HelperLock, AppLock DEF ShutdownNext

\* The watched interface: nobody attaches it twice, and its memory goes after
\* its threads.
LEMMA WatchedStep == ASSUME ShutInv, ShutdownNext, ~Crashed' PROVE WatchedInv'
<1>1. /\ pc \in [Walkers -> Places] /\ App \in Walkers /\ Helper \in Walkers /\ App # Helper
      /\ uif_mem \in [Ifs -> {"none", "attached", "detaching", "freed"}] /\ Watched \in Ifs
      /\ at_uif \in [Walkers -> Ifs \cup {Nil}] /\ Nil \notin Ifs
      /\ WatchedInv /\ Running
  BY WhoIsWho, Typed DEF ShutInv, ShutdownNext
<1>2. CASE CallNext
  <2>1. UNCHANGED <<uif_mem, pc, at_uif, ctl, det>>
    BY <1>2 DEF CallNext, MsgSend, RspWait, RspWaitInterrupted, lists, cursors, vars
  <2> QED
    BY <1>1, <2>1 DEF WatchedInv
<1>3. CASE DriverNext \/ Injected
  <2>1. UNCHANGED <<uif_mem, pc, at_uif, det>>
        /\ (ctl' = ctl \/ (ctl = "downwait" /\ ctl' = "downwoken"))
    BY <1>3 DEF DriverNext, Injected, own, lists, cursors, RxNext, StartHook, NotifyStarted,
         RxCheck, RxLock, RxWakes, RxTimesOut, RxReceive, RxAck, SpuriousWakeup, TicksPass,
         CtlSignalled, TxNext, TxSent, TxStopped, TxInjected
  <2> QED
    BY <1>1, <2>1 DEF WatchedInv
<1>4. ASSUME NEW t \in Walkers, DestroyBegins(t) PROVE WatchedInv'
  <2>1. /\ uif_mem' = [uif_mem EXCEPT ![at_uif[t]] = "detaching"] /\ ctl' = ctl
        /\ uif_mem[at_uif[t]] = "attached" /\ pc' = [pc EXCEPT ![t] = "detach"]
        /\ at_uif' = at_uif
        /\ at_uif[t] # Watched => det' = det
    BY <1>4, BeginFinds DEF KthreadStop, vars
  <2> QED
    BY <1>1, <2>1 DEF WatchedInv
<1>5. ASSUME NEW t \in Walkers, DestroyEnds(t) PROVE WatchedInv'
  <2>1. /\ uif_mem' = [uif_mem EXCEPT ![at_uif[t]] = "freed"] /\ ctl' = ctl
        /\ pc' = [pc EXCEPT ![t] = "uif"] /\ uif_mem[at_uif[t]] = "detaching"
        /\ at_uif' = [at_uif EXCEPT ![t] = at_tmp[t]]
        /\ IF at_uif[t] = Watched THEN det' = "done" ELSE det' = det
    BY <1>5, EndDoes DEF DetachFrees, vars
  <2> QED
    BY <1>1, <2>1 DEF WatchedInv
<1>6. ASSUME NEW t \in Walkers, DestroyWaits(t) PROVE WatchedInv'
  <2>1. /\ UNCHANGED <<uif_mem, pc, at_uif, ctl>> /\ pc[t] = "detach" /\ at_uif[t] = Watched
    BY <1>6 DEF DestroyWaits, own, lists, cursors, DetachRxGone
  <2>2. uif_mem[Watched] = "detaching"
    BY <2>1 DEF ShutInv, CursorInv, WaitsFor
  <2> QED
    BY <1>1, <2>1, <2>2 DEF WatchedInv
<1>7. CASE MsgWait \/ TryLockSucceeds \/ TryLockFails \/ WithoutLock \/ VisitVnet \/ NextVnet
           \/ ShutdownDone \/ RspSend
  <2>1. UNCHANGED <<uif_mem, ctl, det>>
    BY <1>7 DEF MsgWait, TryLockSucceeds, TryLockFails, WithoutLock, VisitVnet, NextVnet,
         ShutdownDone, RspSend, lists, vars
  <2>2. pc'[App] = pc[App] /\ at_uif'[App] = at_uif[App]
    BY <1>7, HelperLeaves DEF HelperNext
  <2> QED
    BY <1>1, <2>1, <2>2 DEF WatchedInv
<1>8. CASE IfCreateBegins
  <2>1. ctl = "attach" /\ ctl' = "addwait" /\ UNCHANGED <<uif_mem, det>> /\ pc'[App] = "create"
    BY <1>1, <1>8 DEF IfCreateBegins, KthreadAdd, lists, GoTo
  <2> QED
    BY <1>1, <2>1 DEF WatchedInv
<1>9. ASSUME NEW u \in Ifs, NEW i \in Instances,
             IfCreate(u, i) \/ (IfCreateEnds /\ u = Watched /\ i = Default)
      PROVE  WatchedInv'
  <2>1. /\ UNCHANGED <<uif_mem, det>> /\ pc'[App] = "insert" /\ at_uif'[App] = u
        /\ u # Watched => ctl' = ctl
        /\ u = Watched => ctl' = "idle"
        /\ uif_mem[u] = "none"
    BY <1>1, <1>9, CreateDoes DEF lists, vars, KthreadAddReturns
  <2> QED
    BY <1>1, <2>1 DEF WatchedInv
<1>10. CASE IfInsert
  <2>1. PICK u \in Ifs :
          /\ u = at_uif[App] /\ pc[App] = "insert" /\ pc'[App] = "idle"
          /\ uif_mem' = [uif_mem EXCEPT ![u] = "attached"] /\ UNCHANGED vars
    BY <1>1, <1>10, InsertDoes
  <2>2. UNCHANGED <<ctl, det>>
    BY <2>1 DEF vars
  <2> QED
    BY <1>1, <2>1, <2>2 DEF WatchedInv
<1>11. CASE SetFlags \/ SetFlagsWakes
  <2>1. UNCHANGED <<uif_mem, pc, det>> /\ ctl # "attach" /\ ctl # "addwait"
        /\ ctl' # "attach" /\ ctl' # "addwait" /\ pc[App] = "idle"
    BY <1>11 DEF SetFlags, SetFlagsWakes, FlagsUp, FlagsDown, DownWakes, own, lists
  <2> QED
    BY <1>1, <2>1 DEF WatchedInv
<1>12. CASE AppDestroyed \/ VnetLink \/ VnetUnlock \/ InstanceInit \/ VnetDestroyLocks
  <2>1. UNCHANGED <<uif_mem, ctl, det>> /\ pc'[App] # "create" /\ pc'[App] # "insert"
    BY <1>1, <1>12 DEF AppDestroyed, VnetLink, VnetUnlock, InstanceInit, VnetDestroyLocks, GoTo,
         lists, vars
  <2> QED
    BY <1>1, <2>1 DEF WatchedInv
<1>13. ASSUME NEW u \in Ifs, NEW i \in Instances,
              IfDestroy(u) \/ InstanceDestroy(i) \/ VnetAlloc(i)
       PROVE  WatchedInv'
  <2>1. /\ UNCHANGED <<uif_mem, ctl, det>> /\ pc'[App] # "create" /\ pc'[App] # "insert"
    BY <1>1, <1>13 DEF IfDestroy, InstanceDestroy, VnetAlloc, GoTo, lists, vars
  <2> QED
    BY <1>1, <2>1 DEF WatchedInv
<1>14. CASE AppNext
  BY <1>1, <1>4, <1>5, <1>6, <1>8, <1>9, <1>10, <1>11, <1>12, <1>13, <1>14, WhoIsWho
     DEF AppNext, AppCompletes
<1>15. CASE HelperNext
  BY <1>1, <1>4, <1>5, <1>6, <1>7, <1>15 DEF HelperNext
<1> QED
  BY <1>2, <1>3, <1>14, <1>15 DEF ShutdownNext

-----------------------------------------------------------------------------
(* The vnet list *)

\* Where the application has hold of an instance.
AppHolds == {"alloc", "linked", "listed", "wlock", "wlocked", "unlinked"}

\* A step that leaves the instances alone.
LEMMA VnetKept ==
    ASSUME ShutInv, UNCHANGED <<vnet_list, inst>>,
           \/ /\ pc'[App] = pc[App] /\ at_vnet'[App] = at_vnet[App]
              /\ \A i \in Instances : uinet_if_list[i] = <<>> => uinet_if_list'[i] = <<>>
           \/ /\ pc[App] \notin AppHolds /\ pc'[App] \notin AppHolds
              /\ pc'[App] \in {"uif", "detach"} /\ at_vnet'[App] # Nil =>
                   inst[at_vnet'[App]] = "live"
    PROVE  VnetInv'
<1>1. CASE pc'[App] = pc[App] /\ at_vnet'[App] = at_vnet[App]
           /\ \A i \in Instances : uinet_if_list[i] = <<>> => uinet_if_list'[i] = <<>>
  BY <1>1 DEF ShutInv, VnetInv
<1>2. CASE /\ pc[App] \notin AppHolds /\ pc'[App] \notin AppHolds
           /\ pc'[App] \in {"uif", "detach"} /\ at_vnet'[App] # Nil => inst[at_vnet'[App]] = "live"
  BY <1>2 DEF ShutInv, VnetInv, AppHolds
<1> QED
  BY <1>1, <1>2

\* The application's steps on instances.
LEMMA AppDestroyedVnet == ASSUME ShutInv, AppDestroyed PROVE VnetInv'
<1>1. /\ pc \in [Walkers -> Places] /\ App \in Walkers
  BY WhoIsWho, Typed
<1>2. /\ pc[App] = "uif" /\ at_uif[App] = Nil
      /\ pc'[App] = IF at_vnet[App] = Nil THEN "idle" ELSE "wlock"
      /\ UNCHANGED <<vnet_list, inst, uinet_if_list, at_vnet>>
  BY <1>1 DEF AppDestroyed, GoTo, lists, cursors
<1>3. CASE at_vnet[App] = Nil
  BY <1>2, <1>3, VnetKept DEF AppHolds
<1>4. CASE at_vnet[App] # Nil
  <2>1. /\ at_vnet[App] \in Instances /\ inst[at_vnet[App]] = "live"
    BY <1>1, <1>2, <1>4, Typed DEF ShutInv, VnetInv
  <2>2. uinet_if_list[at_vnet[App]] = <<>>
    BY <1>1, <1>2, <1>4 DEF ShutInv, CursorInv, StandsOn, NothingLeft
  <2>3. Has(vnet_list, at_vnet[App])
    BY <1>2, <2>1 DEF ShutInv, VnetInv
  <2> QED
    BY <1>2, <1>4, <2>1, <2>2, <2>3 DEF ShutInv, VnetInv
<1> QED
  BY <1>3, <1>4

\* vnet_alloc makes an instance that is on no list.
LEMMA AllocVnet == ASSUME ShutInv, NEW i \in Instances, VnetAlloc(i) PROVE VnetInv'
<1>1. /\ pc \in [Walkers -> Places] /\ App \in Walkers
      /\ at_vnet \in [Walkers -> Instances \cup {Nil}]
      /\ inst \in [Instances -> {"none", "nouinet", "live", "freed"}]
  BY WhoIsWho, Typed
<1>2. /\ pc[App] = "idle" /\ inst[i] = "none" /\ inst' = [inst EXCEPT ![i] = "nouinet"]
      /\ at_vnet'[App] = i /\ pc'[App] = "alloc" /\ UNCHANGED <<vnet_list, uinet_if_list>>
  BY <1>1 DEF VnetAlloc, AppBegins, GoTo
<1>3. ~Has(vnet_list, i) /\ uinet_if_list[i] = <<>>
  BY <1>2 DEF ShutInv, VnetInv, IfInv
<1> QED
  BY <1>1, <1>2, <1>3 DEF ShutInv, VnetInv

\* The instance is linked or unlinked.
LEMMA LinkVnet == ASSUME ShutInv, VnetLink PROVE VnetInv'
<1>1. /\ pc \in [Walkers -> Places] /\ App \in Walkers /\ vnet_list \in Seq(Instances)
      /\ Unrepeated(vnet_list)
  BY WhoIsWho, Typed DEF ShutInv, VnetInv
<1>2. UNCHANGED <<inst, uinet_if_list, at_vnet>>
  BY DEF VnetLink, cursors
<1>3. CASE pc[App] = "alloc"
  <2>1. at_vnet[App] \in Instances /\ ~Has(vnet_list, at_vnet[App])
    BY <1>3 DEF ShutInv, VnetInv
  <2>2. vnet_list' = <<at_vnet[App]>> \o vnet_list /\ pc'[App] = "linked"
    BY <1>1, <1>3 DEF VnetLink, GoTo
  <2>3. Unrepeated(vnet_list')
        /\ \A y : Has(vnet_list', y) <=> Has(vnet_list, y) \/ y = at_vnet[App]
    BY <1>1, <2>1, <2>2, PushList
  <2> QED
    BY <1>2, <1>3, <2>1, <2>2, <2>3 DEF ShutInv, VnetInv
<1>4. CASE pc[App] = "wlocked"
  <2>1. at_vnet[App] \in Instances /\ inst[at_vnet[App]] = "live"
    BY <1>4 DEF ShutInv, VnetInv
  <2>2. vnet_list' = Without(vnet_list, at_vnet[App]) /\ pc'[App] = "unlinked"
    BY <1>1, <1>4 DEF VnetLink, GoTo
  <2>3. Unrepeated(vnet_list')
        /\ \A y : Has(vnet_list', y) <=> Has(vnet_list, y) /\ y # at_vnet[App]
    BY <1>1, <2>1, <2>2, WithoutList
  <2> QED
    BY <1>2, <1>4, <2>1, <2>2, <2>3 DEF ShutInv, VnetInv
<1> QED
  BY <1>3, <1>4 DEF VnetLink

\* The rest of vnet_alloc, vnet_destroy and uinet_instance_init.
LEMMA UnlockVnet ==
    ASSUME ShutInv, VnetUnlock \/ InstanceInit \/ VnetDestroyLocks
    PROVE  VnetInv'
<1>1. /\ pc \in [Walkers -> Places] /\ App \in Walkers
      /\ at_vnet \in [Walkers -> Instances \cup {Nil}]
      /\ inst \in [Instances -> {"none", "nouinet", "live", "freed"}]
  BY WhoIsWho, Typed
<1>2. UNCHANGED <<vnet_list, uinet_if_list>>
  BY DEF VnetUnlock, InstanceInit, VnetDestroyLocks
<1>3. CASE VnetUnlock
  BY <1>1, <1>2, <1>3 DEF VnetUnlock, GoTo, ShutInv, VnetInv
<1>4. CASE InstanceInit
  BY <1>1, <1>2, <1>4 DEF InstanceInit, GoTo, ShutInv, VnetInv
<1>5. CASE VnetDestroyLocks
  BY <1>1, <1>2, <1>5 DEF VnetDestroyLocks, GoTo, cursors, ShutInv, VnetInv
<1> QED
  BY <1>3, <1>4, <1>5

\* A destruction of an interface.
LEMMA DestroyVnet ==
    ASSUME ShutInv, ~Crashed', NEW t \in Walkers,
           DestroyBegins(t) \/ DestroyWaits(t) \/ DestroyEnds(t)
    PROVE  VnetInv'
<1>1. pc \in [Walkers -> Places] /\ Walkers = {App, Helper}
      /\ App \in Walkers /\ Helper \in Walkers /\ App # Helper
  BY WhoIsWho, Typed
<1>2. /\ UNCHANGED <<vnet_list, inst, at_vnet>> /\ pc[t] \in {"uif", "detach"}
      /\ pc' = pc \/ \E x \in {"uif", "detach"} : pc' = [pc EXCEPT ![t] = x]
  BY BeginFinds, EndDoes DEF DestroyWaits, own, lists, cursors
<1>3. \A i \in Instances : uinet_if_list[i] = <<>> => uinet_if_list'[i] = <<>>
  <2>1. CASE DestroyEnds(t)
    BY <2>1, EndDoes, OffListIs
  <2>2. CASE DestroyBegins(t) \/ DestroyWaits(t)
    BY <2>2, BeginFinds DEF DestroyWaits, own, lists
  <2> QED
    BY <2>1, <2>2
<1>4. CASE t = App
  <2>1. pc[App] \in {"uif", "detach"} /\ pc'[App] \in {"uif", "detach"}
    BY <1>1, <1>2, <1>4
  <2>2. at_vnet'[App] # Nil => inst[at_vnet'[App]] = "live"
    BY <1>2, <2>1 DEF ShutInv, VnetInv
  <2> QED
    BY <1>2, <2>1, <2>2, VnetKept DEF AppHolds
<1>5. CASE t = Helper
  BY <1>1, <1>2, <1>3, <1>5, VnetKept
<1> QED
  BY <1>1, <1>4, <1>5

\* In every step.
LEMMA VnetStep == ASSUME ShutInv, ShutdownNext, ~Crashed' PROVE VnetInv'
<1>1. /\ pc \in [Walkers -> Places] /\ App \in Walkers /\ Helper \in Walkers /\ App # Helper
      /\ at_vnet \in [Walkers -> Instances \cup {Nil}] /\ Running
  BY WhoIsWho, Typed DEF ShutdownNext
<1>2. CASE CallNext \/ DriverNext \/ Injected
  <2>1. UNCHANGED <<vnet_list, inst, uinet_if_list, pc, at_vnet>>
    BY <1>2 DEF CallNext, MsgSend, RspWait, RspWaitInterrupted, DriverNext, Injected,
         own, lists, cursors
  <2> QED
    BY <2>1, VnetKept
<1>3. CASE HelperNext
  <2>1. CASE DestroyBegins(Helper) \/ DestroyWaits(Helper) \/ DestroyEnds(Helper)
    BY <1>1, <2>1, DestroyVnet
  <2>2. CASE MsgWait \/ TryLockSucceeds \/ TryLockFails \/ WithoutLock \/ VisitVnet
             \/ NextVnet \/ ShutdownDone \/ RspSend
    <3>1. UNCHANGED <<vnet_list, inst, uinet_if_list>>
      BY <2>2 DEF MsgWait, TryLockSucceeds, TryLockFails, WithoutLock, VisitVnet,
           NextVnet, ShutdownDone, RspSend, lists
    <3> QED
      BY <1>3, <3>1, HelperLeaves, VnetKept
  <2> QED
    BY <1>3, <2>1, <2>2 DEF HelperNext
<1>4. CASE IfInsert \/ IfCreateBegins \/ SetFlags \/ SetFlagsWakes
  <2>1. UNCHANGED <<vnet_list, inst>> /\ pc[App] \notin AppHolds
        /\ pc'[App] \in {"idle", "create"}
    BY <1>1, <1>4, InsertDoes DEF IfCreateBegins, SetFlags, SetFlagsWakes, AppBegins, GoTo, lists,
         own, AppHolds
  <2> QED
    BY <2>1, VnetKept DEF AppHolds
<1>5. ASSUME NEW u \in Ifs, NEW i \in Instances,
             \/ IfDestroy(u) \/ InstanceDestroy(i)
             \/ IfCreate(u, i) \/ (IfCreateEnds /\ u = Watched /\ i = Default)
      PROVE  VnetInv'
  <2>1. /\ UNCHANGED <<vnet_list, inst>> /\ pc[App] \notin AppHolds /\ pc'[App] \in {"uif", "insert"}
        /\ pc'[App] = "uif" => at_vnet'[App] = Nil \/ inst[at_vnet'[App]] = "live"
    <3>1. CASE IfDestroy(u) \/ InstanceDestroy(i)
      BY <1>1, <3>1 DEF IfDestroy, InstanceDestroy, AppBegins, GoTo, lists, AppHolds
    <3>2. CASE IfCreate(u, i) \/ (IfCreateEnds /\ u = Watched /\ i = Default)
      BY <1>1, <3>2, CreateDoes DEF lists, AppHolds
    <3> QED
      BY <1>5, <3>1, <3>2
  <2> QED
    BY <2>1, VnetKept DEF AppHolds
<1>6. CASE AppNext
  BY <1>1, <1>4, <1>5, <1>6, DestroyVnet, AppDestroyedVnet, AllocVnet, LinkVnet, UnlockVnet, WhoIsWho
     DEF AppNext, AppCompletes
<1> QED
  BY <1>2, <1>3, <1>6 DEF ShutdownNext

\* The default instance stays.
LEMMA DefaultStep == ASSUME ShutInv, ShutdownNext, ~Crashed' PROVE DefaultInv'
<1>1. /\ pc \in [Walkers -> Places] /\ App \in Walkers /\ Helper \in Walkers /\ App # Helper
      /\ at_vnet \in [Walkers -> Instances \cup {Nil}] /\ Default \in Instances /\ Default # Nil
      /\ inst \in [Instances -> {"none", "nouinet", "live", "freed"}] /\ DefaultInv /\ Running
  BY WhoIsWho, Typed DEF ShutInv, ShutdownNext
<1>2. CASE CallNext \/ DriverNext \/ Injected
  <2>1. UNCHANGED <<inst, pc, at_vnet>>
    BY <1>2 DEF CallNext, MsgSend, RspWait, RspWaitInterrupted, DriverNext, Injected,
         own, lists, cursors
  <2> QED
    BY <1>1, <2>1 DEF DefaultInv
<1>3. CASE HelperNext
  <2>1. inst' = inst /\ pc'[App] = pc[App] /\ at_vnet'[App] = at_vnet[App]
    BY <1>3, HelperLeaves
  <2> QED
    BY <1>1, <2>1 DEF DefaultInv
<1>4. CASE DestroyBegins(App) \/ DestroyWaits(App) \/ DestroyEnds(App)
  <2>1. UNCHANGED <<inst, at_vnet>> /\ pc[App] \in {"uif", "detach"}
    BY <1>1, <1>4, BeginFinds, EndDoes DEF DestroyWaits, own, lists, cursors
  <2> QED
    BY <1>1, <2>1 DEF DefaultInv
<1>5. CASE IfInsert \/ IfCreateBegins \/ SetFlags \/ SetFlagsWakes
  <2>1. UNCHANGED inst /\ pc'[App] \in {"idle", "create"}
    BY <1>1, <1>5, InsertDoes DEF IfCreateBegins, SetFlags, SetFlagsWakes, GoTo, lists, own
  <2> QED
    BY <1>1, <2>1 DEF DefaultInv
<1>6. ASSUME NEW u \in Ifs, NEW i \in Instances, IfDestroy(u) \/ InstanceDestroy(i) \/ VnetAlloc(i)
      PROVE  DefaultInv'
  BY <1>1, <1>6 DEF IfDestroy, InstanceDestroy, VnetAlloc, AppBegins, GoTo, lists, cursors, DefaultInv
<1>7. ASSUME NEW u \in Ifs, NEW i \in Instances,
             IfCreate(u, i) \/ (IfCreateEnds /\ u = Watched /\ i = Default)
      PROVE  DefaultInv'
  <2>1. inst' = inst /\ pc'[App] = "insert"
    BY <1>1, <1>7, CreateDoes DEF lists
  <2> QED
    BY <1>1, <2>1 DEF DefaultInv
<1>8. CASE AppDestroyed \/ VnetLink \/ VnetDestroyLocks
  BY <1>1, <1>8 DEF AppDestroyed, VnetLink, VnetDestroyLocks, GoTo, lists, cursors, DefaultInv, ShutInv, VnetInv
<1>9. CASE VnetUnlock \/ InstanceInit
  <2>1. pc[App] \in {"linked", "listed"} => at_vnet[App] # Default
    BY <1>1 DEF DefaultInv, ShutInv, VnetInv
  <2> QED
    BY <1>1, <1>9, <2>1 DEF VnetUnlock, InstanceInit, GoTo, DefaultInv
<1>10. CASE AppNext
  BY <1>1, <1>4, <1>5, <1>6, <1>7, <1>8, <1>9, <1>10, WhoIsWho DEF AppNext, AppCompletes
<1> QED
  BY <1>2, <1>3, <1>10 DEF ShutdownNext

-----------------------------------------------------------------------------
(* The lists of interfaces *)

\* What is due changes with the first call, when nothing has been lost yet.
LEMMA DueIs ==
    ASSUME ShutInv, Running
    PROVE  \/ due' = due
           \/ ~overlapped /\ due' = {u \in Ifs : uif_mem[u] \in {"attached", "detaching"}}
<1>1. due' = due \/ (~Called /\ due' = {u \in Ifs : uif_mem[u] \in {"attached", "detaching"}})
  BY DEF Running
<1>2. ~Called => ~overlapped
  BY DEF ShutInv, PhaseInv
<1> QED
  BY <1>1, <1>2

\* A step that changes no interface and takes no instance with interfaces off
\* the vnet list.
LEMMA IfKept ==
    ASSUME ShutInv, Running, UNCHANGED uinet_if_list,
           \A u \in Ifs : uif_mem'[u] = uif_mem[u] \/
             (uif_mem[u] = "attached" /\ uif_mem'[u] = "detaching"),
           \A i \in Instances : ~Has(vnet_list', i) => uinet_if_list[i] = <<>>
    PROVE  IfInv'
<1>1. overlapped => overlapped'
  BY History
<1>2. \A u \in Ifs : uif_mem[u] \in {"attached", "detaching"} =>
        (\E i \in Instances : Has(uinet_if_list[i], u)) \/ (overlapped' /\ u \notin due')
  <2>1. CASE due' = due
    BY <1>1, <2>1 DEF ShutInv, IfInv
  <2>2. CASE ~overlapped
    BY <2>2 DEF ShutInv, IfInv
  <2> QED
    BY <2>1, <2>2, DueIs
<1>3. \A u \in due' : uif_mem[u] # "none" /\ u \in Ifs
  BY DueIs, Typed DEF ShutInv, IfInv
<1>4. \A u \in Ifs : /\ uif_mem'[u] \in {"attached", "detaching"} <=> uif_mem[u] \in {"attached", "detaching"}
                     /\ uif_mem'[u] = "none" <=> uif_mem[u] = "none"
  OBVIOUS
<1> QED
  BY <1>2, <1>3, <1>4 DEF ShutInv, IfInv

\* An interface joins the list of an instance, or is lost on the way.
LEMMA IfAdded == ASSUME ShutInv, IfInsert, Running, ~Crashed' PROVE IfInv'
<1>1. /\ uif_mem \in [Ifs -> {"none", "attached", "detaching", "freed"}]
      /\ uinet_if_list \in [Instances -> Seq(Ifs)] /\ due \subseteq Ifs
  BY Typed
<1>2. PICK u \in Ifs, i \in Instances :
        /\ uif_mem[u] = "none" /\ u \notin due /\ Has(vnet_list, i)
        /\ uif_mem' = [uif_mem EXCEPT ![u] = "attached"]
        /\ \A j \in Instances : ~Has(uinet_if_list[j], u)
        /\ \/ uinet_if_list' = [uinet_if_list EXCEPT ![i] = Append(@, u)]
           \/ uinet_if_list' = uinet_if_list /\ overlapped
        /\ vnet_list' = vnet_list /\ call' = call
  BY InsertDoes
<1>3. due' = due /\ (overlapped => overlapped')
  BY <1>2, History
<1>4. uif_mem'[u] = "attached" /\ \A x \in Ifs : x # u => uif_mem'[x] = uif_mem[x]
  BY <1>1, <1>2
<1>5. \A x \in due' : uif_mem'[x] # "none"
  BY <1>1, <1>2, <1>3, <1>4 DEF ShutInv, IfInv
<1>6. CASE uinet_if_list' = uinet_if_list /\ overlapped
  BY <1>2, <1>3, <1>4, <1>5, <1>6 DEF ShutInv, IfInv
<1>7. CASE uinet_if_list' = [uinet_if_list EXCEPT ![i] = Append(@, u)]
  <2>1. /\ \A x : Has(uinet_if_list'[i], x) <=> Has(uinet_if_list[i], x) \/ x = u
        /\ Unrepeated(uinet_if_list'[i])
    BY <1>1, <1>2, <1>7, AppendList DEF ShutInv, IfInv
  <2>2. \A j \in Instances : j # i => uinet_if_list'[j] = uinet_if_list[j]
    BY <1>1, <1>7
  <2>3. \A j \in Instances : Unrepeated(uinet_if_list'[j])
    BY <2>1, <2>2 DEF ShutInv, IfInv
  <2>4. \A j, k \in Instances, x \in Ifs :
          Has(uinet_if_list'[j], x) /\ Has(uinet_if_list'[k], x) => j = k
    <3> SUFFICES ASSUME NEW j \in Instances, NEW k \in Instances, NEW x \in Ifs,
                        Has(uinet_if_list'[j], x), Has(uinet_if_list'[k], x)
                 PROVE  j = k
      OBVIOUS
    <3>1. CASE x = u
      BY <3>1, <1>2, <2>2
    <3>2. CASE x # u
      BY <3>2, <2>1, <2>2 DEF ShutInv, IfInv
    <3> QED
      BY <3>1, <3>2
  <2>5. ASSUME NEW x \in Ifs
        PROVE  /\ \A j \in Instances :
                    Has(uinet_if_list'[j], x) => uif_mem'[x] \in {"attached", "detaching"}
               /\ uif_mem'[x] \in {"attached", "detaching"} =>
                    (\E j \in Instances : Has(uinet_if_list'[j], x)) \/ (overlapped' /\ x \notin due')
    <3>1. CASE x = u
      BY <3>1, <1>4, <2>1
    <3>2. CASE x # u
      <4>1. \A j \in Instances : Has(uinet_if_list'[j], x) <=> Has(uinet_if_list[j], x)
        BY <3>2, <2>1, <2>2
      <4> QED
        BY <3>2, <4>1, <1>3, <1>4 DEF ShutInv, IfInv
    <3> QED
      BY <3>1, <3>2
  <2>6. \A j \in Instances : ~Has(vnet_list', j) => uinet_if_list'[j] = <<>>
    BY <1>2, <2>2 DEF ShutInv, IfInv
  <2> QED
    BY <1>5, <2>3, <2>4, <2>5, <2>6 DEF IfInv
<1> QED
  BY <1>2, <1>6, <1>7

\* An interface leaves its list.
LEMMA IfTakenOff == ASSUME ShutInv, Running, NEW t \in Walkers, DestroyEnds(t) PROVE IfInv'
<1>1. /\ uif_mem \in [Ifs -> {"none", "attached", "detaching", "freed"}]
      /\ uinet_if_list \in [Instances -> Seq(Ifs)] /\ due \subseteq Ifs
  BY Typed
<1>2. PICK u \in Ifs : u = at_uif[t]
  BY EndDoes
<1>3. /\ uinet_if_list' = OffList(u) /\ uif_mem' = [uif_mem EXCEPT ![u] = "freed"]
      /\ vnet_list' = vnet_list /\ call' = call
  BY <1>2, EndDoes
<1>4. /\ \A i \in Instances : Unrepeated(uinet_if_list'[i])
      /\ \A i \in Instances : \A x : Has(uinet_if_list'[i], x) <=> Has(uinet_if_list[i], x) /\ x # u
      /\ \A i \in Instances : uinet_if_list[i] = <<>> => uinet_if_list'[i] = <<>>
  BY <1>3, OffListIs
<1>5. due' = due /\ (overlapped => overlapped')
  BY <1>3, History
<1>6. uif_mem'[u] = "freed" /\ \A x \in Ifs : x # u => uif_mem'[x] = uif_mem[x]
  BY <1>1, <1>3
<1>7. ASSUME NEW x \in Ifs
      PROVE  /\ \A j \in Instances :
                  Has(uinet_if_list'[j], x) => uif_mem'[x] \in {"attached", "detaching"}
             /\ uif_mem'[x] \in {"attached", "detaching"} =>
                  (\E j \in Instances : Has(uinet_if_list'[j], x)) \/ (overlapped' /\ x \notin due')
  <2>1. CASE x = u
    BY <2>1, <1>4, <1>6
  <2>2. CASE x # u
    BY <2>2, <1>4, <1>5, <1>6 DEF ShutInv, IfInv
  <2> QED
    BY <2>1, <2>2
<1>8. \A x \in due' : uif_mem'[x] # "none"
  BY <1>1, <1>5, <1>6 DEF ShutInv, IfInv
<1> QED
  BY <1>3, <1>4, <1>7, <1>8 DEF ShutInv, IfInv

\* In every step.
LEMMA IfStep == ASSUME ShutInv, ShutdownNext, ~Crashed' PROVE IfInv'
<1>1. /\ App \in Walkers /\ Helper \in Walkers /\ Running
      /\ uif_mem \in [Ifs -> {"none", "attached", "detaching", "freed"}]
  BY WhoIsWho, Typed DEF ShutdownNext
<1>2. ASSUME UNCHANGED <<vnet_list, uinet_if_list, uif_mem>> PROVE IfInv'
  BY <1>1, <1>2, IfKept DEF ShutInv, IfInv
<1>3. CASE CallNext \/ DriverNext \/ Injected
  <2>1. UNCHANGED <<vnet_list, uinet_if_list, uif_mem>>
    BY <1>3 DEF CallNext, MsgSend, RspWait, RspWaitInterrupted, DriverNext, Injected, own, lists
  <2> QED
    BY <1>2, <2>1
<1>4. ASSUME NEW t \in Walkers, DestroyBegins(t) PROVE IfInv'
  <2>1. /\ UNCHANGED <<vnet_list, uinet_if_list>> /\ uif_mem[at_uif[t]] = "attached"
        /\ uif_mem' = [uif_mem EXCEPT ![at_uif[t]] = "detaching"]
    BY <1>1, <1>4, BeginFinds
  <2>2. \A x \in Ifs : uif_mem'[x] = uif_mem[x] \/ (uif_mem[x] = "attached" /\ uif_mem'[x] = "detaching")
    BY <1>1, <2>1
  <2>3. \A i \in Instances : ~Has(vnet_list', i) => uinet_if_list[i] = <<>>
    BY <2>1 DEF ShutInv, IfInv
  <2> QED
    BY <1>1, <2>1, <2>2, <2>3, IfKept
<1>5. CASE MsgWait \/ TryLockSucceeds \/ TryLockFails \/ WithoutLock \/ VisitVnet
           \/ NextVnet \/ ShutdownDone \/ RspSend
  <2>1. UNCHANGED <<vnet_list, uinet_if_list, uif_mem>>
    BY <1>5 DEF MsgWait, TryLockSucceeds, TryLockFails, WithoutLock, VisitVnet,
           NextVnet, ShutdownDone, RspSend, lists
  <2> QED
    BY <1>2, <2>1
<1>6. CASE VnetLink
  <2>1. /\ UNCHANGED <<uinet_if_list, uif_mem>> /\ vnet_list \in Seq(Instances)
        /\ Unrepeated(vnet_list)
    BY <1>6, Typed DEF VnetLink, ShutInv, VnetInv
  <2>2. \A i \in Instances : ~Has(vnet_list', i) => uinet_if_list[i] = <<>>
    <3>1. CASE pc[App] = "alloc"
      <4>1. vnet_list' = <<at_vnet[App]>> \o vnet_list /\ at_vnet[App] \in Instances
        BY <1>6, <3>1 DEF VnetLink, ShutInv, VnetInv
      <4> QED
        BY <2>1, <4>1, PushList DEF ShutInv, IfInv
    <3>2. CASE pc[App] = "wlocked"
      <4>1. /\ vnet_list' = Without(vnet_list, at_vnet[App]) /\ at_vnet[App] \in Instances
            /\ uinet_if_list[at_vnet[App]] = <<>>
        BY <1>6, <3>2 DEF VnetLink, ShutInv, VnetInv
      <4> QED
        BY <2>1, <4>1, WithoutList DEF ShutInv, IfInv
    <3> QED
      BY <1>6, <3>1, <3>2 DEF VnetLink
  <2> QED
    BY <1>1, <2>1, <2>2, IfKept
<1>7. CASE AppDestroyed \/ VnetUnlock \/ InstanceInit \/ VnetDestroyLocks \/ IfCreateBegins
           \/ IfCreateEnds \/ SetFlags \/ SetFlagsWakes
  <2>1. UNCHANGED <<vnet_list, uinet_if_list, uif_mem>>
    BY <1>7 DEF AppDestroyed, VnetUnlock, InstanceInit, VnetDestroyLocks, IfCreateBegins,
         IfCreateEnds, SetFlags, SetFlagsWakes, own, lists
  <2> QED
    BY <1>2, <2>1
<1>8. ASSUME NEW u \in Ifs, NEW i \in Instances,
             IfDestroy(u) \/ IfCreate(u, i) \/ InstanceDestroy(i) \/ VnetAlloc(i)
      PROVE  IfInv'
  <2>1. UNCHANGED <<vnet_list, uinet_if_list, uif_mem>>
    BY <1>8 DEF IfDestroy, IfCreate, InstanceDestroy, VnetAlloc, lists
  <2> QED
    BY <1>2, <2>1
<1>9. ASSUME NEW t \in Walkers, DestroyWaits(t) PROVE IfInv'
  <2>1. UNCHANGED <<vnet_list, uinet_if_list, uif_mem>>
    BY <1>9 DEF DestroyWaits, own, lists
  <2> QED
    BY <1>2, <2>1
<1>10. CASE HelperNext
  BY <1>1, <1>4, <1>5, <1>9, <1>10, IfTakenOff DEF HelperNext
<1>11. CASE AppNext
  BY <1>1, <1>4, <1>6, <1>7, <1>8, <1>9, <1>11, IfTakenOff, IfAdded, WhoIsWho
     DEF AppNext, AppCompletes
<1> QED
  BY <1>3, <1>10, <1>11 DEF ShutdownNext

-----------------------------------------------------------------------------
(* The cursors *)

\* What is due stays while the helper walks, and does not concern the
\* application's walks.
LEMMA DueStays ==
    ASSUME ShutInv, Running, NEW t \in Walkers, pc[t] \in HelperWalks
    PROVE  t = App \/ due' = due
<1>1. t = Helper => Called
  BY HelperWalking
<1> QED
  BY <1>1, WhoIsWho, History

\* A step that changes no interface and begins no walk over them.
LEMMA CursorKept ==
    ASSUME ShutInv, Running, UNCHANGED <<uinet_if_list, uif_mem>>,
           \A t \in Walkers :
             \/ /\ pc'[t] = pc[t] /\ at_vnet'[t] = at_vnet[t]
                /\ at_uif'[t] = at_uif[t] /\ at_tmp'[t] = at_tmp[t]
             \/ pc[t] # "detach" /\ pc'[t] \notin {"uif", "detach"}
    PROVE  CursorInv'
<1>1. overlapped => overlapped'
  BY History
<1>2. ASSUME NEW t \in Walkers, pc'[t] = "uif" PROVE StandsOn(t)'
  <2>1. /\ pc[t] = "uif" /\ at_vnet'[t] = at_vnet[t] /\ at_uif'[t] = at_uif[t]
    BY <1>2
  <2>2. StandsOn(t) /\ (t = App \/ due' = due)
    BY <2>1, DueStays DEF ShutInv, CursorInv, HelperWalks
  <2> QED
    BY <1>1, <2>1, <2>2 DEF StandsOn, NothingLeft, Gone
<1>3. ASSUME NEW t \in Walkers, pc'[t] = "detach" PROVE WaitsFor(t)'
  <2>1. /\ pc[t] = "detach" /\ at_vnet'[t] = at_vnet[t] /\ at_uif'[t] = at_uif[t]
        /\ at_tmp'[t] = at_tmp[t]
    BY <1>3
  <2>2. WaitsFor(t) /\ (t = App \/ due' = due)
    BY <2>1, DueStays DEF ShutInv, CursorInv, HelperWalks
  <2> QED
    BY <1>1, <2>1, <2>2 DEF WaitsFor, NothingLeft, Gone
<1>4. EachByOne'
  <2>1. \A t \in Walkers : (pc'[t] = "detach" <=> pc[t] = "detach")
                           /\ (pc[t] = "detach" => at_uif'[t] = at_uif[t])
    OBVIOUS
  <2> QED
    BY <2>1 DEF ShutInv, CursorInv, EachByOne
<1> QED
  BY <1>2, <1>3, <1>4 DEF CursorInv

\* An interface that is on a list when a walk begins is attached, unless it
\* meets the other's.
LEMMA BeginsOn ==
    ASSUME ShutInv, Running, NEW t \in Walkers, pc[t] # "detach", pc'[t] = "uif",
           \A r \in Walkers : r # t => pc'[r] = pc[r],
           NEW i \in Instances, NEW u \in Ifs, Has(uinet_if_list[i], u)
    PROVE  overlapped' \/ uif_mem[u] = "attached"
<1>1. uif_mem[u] \in {"attached", "detaching"}
  BY DEF ShutInv, IfInv
<1>2. ASSUME uif_mem[u] = "detaching" PROVE overlapped'
  <2>1. PICK r \in Walkers : pc[r] = "detach"
    BY <1>2 DEF ShutInv, CursorInv, EachByOne
  <2>2. r # t /\ pc'[r] = "detach"
    BY <2>1
  <2> QED
    BY <2>2, BothWillDestroy
<1> QED
  BY <1>1, <1>2

\* The walk over the interfaces of an instance begins: uinet_ifdestroy_all.
LEMMA AllCursor ==
    ASSUME ShutInv, Running, UNCHANGED <<uinet_if_list, uif_mem>>,
           NEW t \in Walkers, pc[t] # "detach", pc'[t] = "uif",
           \A r \in Walkers : r # t => /\ pc'[r] = pc[r] /\ at_vnet'[r] = at_vnet[r]
                                       /\ at_uif'[r] = at_uif[r] /\ at_tmp'[r] = at_tmp[r],
           NEW i \in Instances, at_vnet'[t] = i, at_uif'[t] = First(uinet_if_list[i])
    PROVE  CursorInv'
<1>1. overlapped => overlapped'
  BY History
<1>2. PICK s \in Seq(Ifs) : s = uinet_if_list[i]
  BY Typed
<1>3. PICK f : f = First(s)
  OBVIOUS
<1>4. f \in Ifs \cup {Nil} /\ (f = Nil => s = <<>>) /\ (f # Nil => Has(s, f)) /\ Nil \notin Ifs
  BY <1>2, <1>3, FirstOf, WhoIsWho
<1>5. StandsOn(t)'
  <2>1. at_uif'[t] = f /\ uinet_if_list'[i] = s
    BY <1>2, <1>3
  <2>2. f # Nil => overlapped' \/ uif_mem[f] = "attached"
    BY <1>2, <1>4, BeginsOn
  <2>3. s = <<>> => (t = App => s = <<>>) /\ (t # App => \A u \in due' : ~Has(s, u))
    BY EmptyList
  <2> QED
    BY <1>3, <1>4, <2>1, <2>2, <2>3 DEF StandsOn, NothingLeft
<1>6. ASSUME NEW r \in Walkers, r # t, pc'[r] = "uif" PROVE StandsOn(r)'
  <2>1. pc[r] = "uif" /\ at_vnet'[r] = at_vnet[r] /\ at_uif'[r] = at_uif[r]
    BY <1>6
  <2>2. StandsOn(r) /\ (r = App \/ due' = due)
    BY <2>1, DueStays DEF ShutInv, CursorInv, HelperWalks
  <2> QED
    BY <1>1, <2>1, <2>2 DEF StandsOn, NothingLeft, Gone
<1>7. ASSUME NEW r \in Walkers, pc'[r] = "detach" PROVE WaitsFor(r)'
  <2>1. r # t /\ pc[r] = "detach" /\ at_vnet'[r] = at_vnet[r] /\ at_uif'[r] = at_uif[r]
        /\ at_tmp'[r] = at_tmp[r]
    BY <1>7
  <2>2. WaitsFor(r) /\ (r = App \/ due' = due)
    BY <2>1, DueStays DEF ShutInv, CursorInv, HelperWalks
  <2> QED
    BY <1>1, <2>1, <2>2 DEF WaitsFor, NothingLeft, Gone
<1>8. EachByOne'
  <2>1. \A r \in Walkers : (pc'[r] = "detach" <=> pc[r] = "detach")
                           /\ (pc[r] = "detach" => at_uif'[r] = at_uif[r])
    OBVIOUS
  <2> QED
    BY <2>1 DEF ShutInv, CursorInv, EachByOne
<1> QED
  BY <1>5, <1>6, <1>7, <1>8 DEF CursorInv

\* uinet_ifdestroy begins.
LEMMA OneCursor ==
    ASSUME ShutInv, Running, NEW u \in Ifs, IfDestroy(u)
    PROVE  CursorInv'
<1>1. /\ pc \in [Walkers -> Places] /\ App \in Walkers
      /\ at_vnet \in [Walkers -> Instances \cup {Nil}] /\ at_uif \in [Walkers -> Ifs \cup {Nil}]
      /\ overlapped => overlapped'
  BY WhoIsWho, Typed, History
<1>2. /\ pc[App] = "idle" /\ pc'[App] = "uif" /\ at_vnet'[App] = Nil /\ at_uif'[App] = u
      /\ \A r \in Walkers : r # App => /\ pc'[r] = pc[r] /\ at_vnet'[r] = at_vnet[r]
                                       /\ at_uif'[r] = at_uif[r]
      /\ UNCHANGED <<uinet_if_list, uif_mem, at_tmp>>
  BY <1>1 DEF IfDestroy, AppBegins, GoTo, lists
<1>3. PICK i \in Instances : Has(uinet_if_list[i], u)
  BY DEF IfDestroy
<1>4. StandsOn(App)'
  <2>1. overlapped' \/ uif_mem[u] = "attached"
    BY <1>1, <1>2, <1>3, BeginsOn
  <2> QED
    BY <1>2, <2>1 DEF StandsOn
<1>5. ASSUME NEW r \in Walkers, r # App, pc'[r] = "uif" PROVE StandsOn(r)'
  <2>1. pc[r] = "uif" /\ at_vnet'[r] = at_vnet[r] /\ at_uif'[r] = at_uif[r]
    BY <1>2, <1>5
  <2>2. StandsOn(r) /\ due' = due
    BY <1>5, <2>1, DueStays DEF ShutInv, CursorInv, HelperWalks
  <2> QED
    BY <1>1, <1>2, <2>1, <2>2 DEF StandsOn, NothingLeft, Gone
<1>6. ASSUME NEW r \in Walkers, pc'[r] = "detach" PROVE WaitsFor(r)'
  <2>1. r # App /\ pc[r] = "detach" /\ at_vnet'[r] = at_vnet[r] /\ at_uif'[r] = at_uif[r]
    BY <1>2, <1>6
  <2>2. WaitsFor(r) /\ due' = due
    BY <2>1, DueStays DEF ShutInv, CursorInv, HelperWalks
  <2> QED
    BY <1>1, <1>2, <2>1, <2>2 DEF WaitsFor, NothingLeft, Gone
<1>7. EachByOne'
  <2>1. \A r \in Walkers : (pc'[r] = "detach" <=> pc[r] = "detach")
                           /\ (pc[r] = "detach" => at_uif'[r] = at_uif[r])
    BY <1>2
  <2> QED
    BY <1>2, <2>1 DEF ShutInv, CursorInv, EachByOne
<1> QED
  BY <1>4, <1>5, <1>6, <1>7 DEF CursorInv

\* The wait for the interface's threads begins.
LEMMA BeginCursor ==
    ASSUME ShutInv, Running, ~Crashed', NEW t \in Walkers, DestroyBegins(t)
    PROVE  CursorInv'
<1>1. /\ pc \in [Walkers -> Places] /\ at_tmp \in [Walkers -> Ifs \cup {Nil}]
      /\ uif_mem \in [Ifs -> {"none", "attached", "detaching", "freed"}] /\ Nil \notin Ifs
      /\ at_vnet \in [Walkers -> Instances \cup {Nil}]
      /\ overlapped => overlapped'
  BY Typed, WhoIsWho, History
<1>u. PICK u \in Ifs : u = at_uif[t]
  BY BeginFinds
<1>2. PICK f : u = at_uif[t] /\ f = Follower(t)
  BY <1>u
<1>3. /\ pc[t] = "uif" /\ uif_mem[u] = "attached"
      /\ at_tmp' = [at_tmp EXCEPT ![t] = f]
      /\ uif_mem' = [uif_mem EXCEPT ![u] = "detaching"]
      /\ pc' = [pc EXCEPT ![t] = "detach"]
      /\ UNCHANGED <<uinet_if_list, at_vnet, at_uif>>
  BY <1>2, BeginFinds
<1>4. /\ at_vnet[t] = Nil => f = Nil
      /\ at_vnet[t] # Nil => /\ uinet_if_list[at_vnet[t]] # <<>>
                             /\ u = Head(uinet_if_list[at_vnet[t]])
                             /\ f = First(Tail(uinet_if_list[at_vnet[t]]))
  BY <1>1, <1>2, <1>3, FollowerIs
<1>5. /\ pc'[t] = "detach" /\ at_tmp'[t] = f /\ uif_mem'[u] = "detaching"
      /\ \A x \in Ifs : x # u => uif_mem'[x] = uif_mem[x]
      /\ \A r \in Walkers : r # t => pc'[r] = pc[r] /\ at_tmp'[r] = at_tmp[r]
  BY <1>1, <1>3
<1>6. WaitsFor(t)'
  <2>1. CASE at_vnet[t] = Nil
    BY <1>1, <1>2, <1>3, <1>4, <1>5, <2>1 DEF WaitsFor
  <2>2. CASE at_vnet[t] # Nil
    <3>1. PICK i \in Instances : i = at_vnet[t]
      BY <1>1, <2>2
    <3>2. PICK s \in Seq(Ifs) : s = uinet_if_list[i]
      BY Typed
    <3>3. PICK q : q = Tail(s)
      OBVIOUS
    <3>4. s # <<>> /\ u = Head(s) /\ f = First(q) /\ q \in Seq(Ifs)
      <4>1. s # <<>> /\ u = Head(s) /\ f = First(Tail(s)) /\ Unrepeated(s)
        BY <1>4, <2>2, <3>1, <3>2 DEF ShutInv, IfInv
      <4> QED
        BY <3>3, <4>1, TailList
    <3>5. f = Nil => q = <<>> /\ \A x : ~Has(q, x)
      BY <1>1, <3>4, FirstOf, EmptyList
    <3>6. f = Nil => NothingLeft(t, Tail(uinet_if_list[at_vnet[t]]))'
      BY <1>3, <3>1, <3>2, <3>3, <3>5 DEF NothingLeft
    <3>7. /\ at_uif'[t] = u /\ at_vnet'[t] = i /\ uinet_if_list'[i] = s
      BY <1>2, <1>3, <3>1, <3>2
    <3>8. First(Tail(uinet_if_list[at_vnet[t]]))' = f
      BY <3>3, <3>4, <3>7
    <3>9. at_uif'[t] # Nil /\ uif_mem'[at_uif'[t]] = "detaching" /\ at_vnet'[t] # Nil
      BY <1>1, <1>5, <3>1, <3>7, WhoIsWho
    <3>10. /\ uinet_if_list'[at_vnet'[t]] # <<>>
           /\ at_uif'[t] = Head(uinet_if_list'[at_vnet'[t]])
      BY <3>4, <3>7
    <3>11. IF at_tmp'[t] = Nil THEN NothingLeft(t, Tail(uinet_if_list[at_vnet[t]]))'
           ELSE at_tmp'[t] = First(Tail(uinet_if_list[at_vnet[t]]))'
      BY <1>5, <3>6, <3>8
    <3> QED
      BY <3>9, <3>10, <3>11, Zenon DEF WaitsFor
  <2> QED
    BY <2>1, <2>2
<1>7. ASSUME NEW r \in Walkers, r # t, pc'[r] = "uif" PROVE StandsOn(r)'
  <2>1. pc[r] = "uif"
    BY <1>5, <1>7
  <2>2. StandsOn(r) /\ (r = App \/ due' = due)
    BY <2>1, DueStays DEF ShutInv, CursorInv, HelperWalks
  <2>3. overlapped'
    BY <1>5, <1>7, BothWillDestroy
  <2>4. at_uif[r] = Nil \/ at_uif[r] \in Ifs
    BY Typed
  <2>5. at_uif[r] \in Ifs /\ Gone(at_uif[r]) => Gone(at_uif[r])'
    BY <1>3, <2>3, <1>5 DEF Gone
  <2> QED
    BY <1>3, <2>2, <2>3, <2>4, <2>5 DEF StandsOn, NothingLeft
<1>8. ASSUME NEW r \in Walkers, r # t, pc'[r] = "detach" PROVE WaitsFor(r)'
  <2>1. pc[r] = "detach" /\ at_tmp'[r] = at_tmp[r]
    BY <1>5, <1>8
  <2>2. WaitsFor(r) /\ (r = App \/ due' = due)
    BY <2>1, DueStays DEF ShutInv, CursorInv, HelperWalks
  <2>3. at_uif[r] \in Ifs /\ uif_mem'[at_uif[r]] = "detaching"
    BY <1>1, <1>3, <1>5, <2>2, Typed DEF WaitsFor
  <2>4. at_tmp[r] \in Ifs /\ Gone(at_tmp[r]) => Gone(at_tmp[r])'
    BY <1>1, <1>3, <1>5, <2>1 DEF Gone
  <2>5. at_tmp[r] = Nil \/ at_tmp[r] \in Ifs
    BY <1>1
  <2> QED
    BY <1>3, <2>1, <2>2, <2>3, <2>4, <2>5 DEF WaitsFor, NothingLeft
<1>9. EachByOne'
  <2>1. \A r \in Walkers : pc[r] = "detach" => r # t /\ at_uif[r] # u
    BY <1>3 DEF ShutInv, CursorInv, WaitsFor
  <2>2. \A x \in Ifs : uif_mem'[x] = "detaching" => x = u \/ uif_mem[x] = "detaching"
    BY <1>5
  <2> QED
    BY <1>2, <1>3, <1>5, <2>1, <2>2 DEF ShutInv, CursorInv, EachByOne
<1> QED
  BY <1>5, <1>6, <1>7, <1>8, <1>9 DEF CursorInv

\* The interface is gone, and the cursor goes to the next.
LEMMA EndCursor ==
    ASSUME ShutInv, Running, NEW t \in Walkers, DestroyEnds(t)
    PROVE  CursorInv'
<1>1. /\ pc \in [Walkers -> Places] /\ at_uif \in [Walkers -> Ifs \cup {Nil}]
      /\ at_vnet \in [Walkers -> Instances \cup {Nil}]
      /\ at_tmp \in [Walkers -> Ifs \cup {Nil}]
      /\ uif_mem \in [Ifs -> {"none", "attached", "detaching", "freed"}]
      /\ Nil \notin Ifs /\ Nil \notin Instances /\ (overlapped => overlapped')
  BY WhoIsWho, Typed, History
<1>2. PICK u \in Ifs : u = at_uif[t]
  BY EndDoes
<1>3. PICK f \in Ifs \cup {Nil} : f = at_tmp[t]
  BY <1>1
<1>4. /\ pc[t] = "detach" /\ uif_mem[u] = "detaching" /\ uinet_if_list' = OffList(u)
      /\ uif_mem' = [uif_mem EXCEPT ![u] = "freed"]
      /\ at_uif' = [at_uif EXCEPT ![t] = f] /\ at_tmp' = [at_tmp EXCEPT ![t] = Nil]
      /\ pc' = [pc EXCEPT ![t] = "uif"] /\ at_vnet' = at_vnet
  BY <1>2, <1>3, EndDoes
<1>5. /\ pc'[t] = "uif" /\ at_uif'[t] = f
      /\ \A r \in Walkers : r # t => /\ pc'[r] = pc[r] /\ at_uif'[r] = at_uif[r]
                                     /\ at_tmp'[r] = at_tmp[r]
      /\ uif_mem'[u] = "freed" /\ \A x \in Ifs : x # u => uif_mem'[x] = uif_mem[x]
  BY <1>1, <1>4
<1>6. \A i \in Instances : /\ uinet_if_list[i] \in Seq(Ifs) /\ Unrepeated(uinet_if_list[i])
                           /\ uinet_if_list'[i] = Without(uinet_if_list[i], u)
                           /\ uinet_if_list'[i] \in Seq(Ifs)
                           /\ \A x : Has(uinet_if_list'[i], x) => Has(uinet_if_list[i], x)
  <2>1. \A i \in Instances : uinet_if_list[i] \in Seq(Ifs) /\ Unrepeated(uinet_if_list[i])
    BY Typed DEF ShutInv, IfInv
  <2>2. \A i \in Instances : /\ Without(uinet_if_list[i], u) \in Seq(Ifs)
                             /\ \A x : Has(Without(uinet_if_list[i], u), x) => Has(uinet_if_list[i], x)
    BY <2>1, WithoutList
  <2>3. \A i \in Instances : uinet_if_list'[i] = Without(uinet_if_list[i], u)
    BY <1>4, OffListIs
  <2> QED
    BY <2>1, <2>2, <2>3
<1>7. \A x \in Ifs : Gone(x) => Gone(x)'
  BY <1>1, <1>5 DEF Gone
<1>8. \A r \in Walkers : r # t /\ pc[r] \in {"uif", "detach"} => overlapped'
  BY <1>5, BothWillDestroy
<1>9. WaitsFor(t) /\ (t = App \/ due' = due)
  BY <1>4, DueStays DEF ShutInv, CursorInv, HelperWalks
<1>10. StandsOn(t)'
  <2>1. CASE at_vnet[t] = Nil
    BY <1>3, <1>4, <1>5, <1>9, <2>1 DEF WaitsFor, StandsOn
  <2>2. CASE at_vnet[t] # Nil
    <3>1. PICK i \in Instances : i = at_vnet[t]
      BY <1>1, <2>2
    <3>2. PICK s \in Seq(Ifs) : s = uinet_if_list[i]
      BY <1>6
    <3>3. PICK q : q = Tail(s)
      OBVIOUS
    <3>4. /\ s # <<>> /\ u = Head(s) /\ Unrepeated(s)
          /\ IF f = Nil THEN NothingLeft(t, q) ELSE f = First(q) \/ Gone(f)
      BY <1>2, <1>3, <1>6, <1>9, <2>2, <3>1, <3>2, <3>3 DEF WaitsFor
    <3>5. q \in Seq(Ifs) /\ \A x : Has(q, x) <=> Has(s, x) /\ x # u
      BY <3>3, <3>4, TailList
    <3>6. uinet_if_list'[i] = q
      BY <1>6, <3>2, <3>3, <3>4, WithoutHead
    <3>7. f = Nil => (t = App => q = <<>>) /\ (t # App => \A x \in due' : ~Has(q, x))
      BY <1>9, <3>4 DEF NothingLeft
    <3>8. ASSUME f # Nil, ~overlapped' PROVE uif_mem'[f] = "attached"
      <4>1. f = First(q)
        BY <1>1, <3>4, <3>8 DEF Gone
      <4>2. f \in Ifs /\ Has(s, f) /\ f # u
        BY <1>1, <3>5, <3>8, <4>1, FirstOf
      <4>3. uif_mem[f] \in {"attached", "detaching"}
        BY <3>2, <4>2 DEF ShutInv, IfInv
      <4>4. uif_mem[f] # "detaching"
        <5>1. ASSUME uif_mem[f] = "detaching" PROVE FALSE
          <6>1. PICK r \in Walkers : pc[r] = "detach" /\ at_uif[r] = f
            BY <4>2, <5>1 DEF ShutInv, CursorInv, EachByOne
          <6> QED
            BY <1>2, <1>8, <3>8, <4>2, <6>1
        <5> QED
          BY <5>1
      <4> QED
        BY <1>5, <4>2, <4>3, <4>4
    <3>9. at_uif'[t] = f /\ at_vnet'[t] = i
      BY <1>4, <1>5, <3>1
    <3>10. f # Nil => f = First(q) \/ Gone(f)'
      BY <1>7, <3>4
    <3> QED
      BY <3>6, <3>7, <3>8, <3>9, <3>10 DEF StandsOn, NothingLeft
  <2> QED
    BY <2>1, <2>2
<1>11. ASSUME NEW r \in Walkers, r # t, pc'[r] = "uif" PROVE StandsOn(r)'
  <2>1. pc[r] = "uif" /\ at_uif'[r] = at_uif[r] /\ at_vnet'[r] = at_vnet[r]
    BY <1>4, <1>5, <1>11
  <2>2. overlapped'
    BY <1>8, <1>11, <2>1
  <2>3. StandsOn(r) /\ (r = App \/ due' = due)
    BY <2>1, DueStays DEF ShutInv, CursorInv, HelperWalks
  <2>4. CASE at_vnet[r] = Nil
    BY <2>1, <2>2, <2>4 DEF StandsOn
  <2>5. CASE at_vnet[r] # Nil
    <3>1. PICK i \in Instances : i = at_vnet[r]
      BY <1>1, <2>5
    <3>2. PICK s \in Seq(Ifs), q \in Seq(Ifs) :
            /\ s = uinet_if_list[i] /\ q = uinet_if_list'[i] /\ q = Without(s, u)
            /\ Unrepeated(s) /\ \A x : Has(q, x) => Has(s, x)
      BY <1>6
    <3>3. PICK c \in Ifs \cup {Nil} : c = at_uif[r]
      BY <1>1
    <3>4. IF c = Nil THEN NothingLeft(r, s) ELSE c = First(s) \/ Gone(c)
      BY <2>3, <2>5, <3>1, <3>2, <3>3 DEF StandsOn
    <3>5. CASE c = Nil
      <4>1. NothingLeft(r, q)
        BY <3>2, <3>4, <3>5, LessLeft
      <4> QED
        BY <2>1, <2>2, <2>3, <3>1, <3>2, <3>3, <3>5, <4>1 DEF StandsOn, NothingLeft
    <3>6. CASE c # Nil
      <4>1. CASE c = u
        BY <1>5, <2>1, <2>2, <3>1, <3>3, <3>6, <4>1 DEF StandsOn, Gone
      <4>2. CASE c # u /\ c = First(s)
        <5>1. First(q) = c
          BY <1>1, <3>2, <4>2, WithoutKeepsFirst
        <5> QED
          BY <2>1, <2>2, <3>1, <3>2, <3>3, <3>6, <5>1 DEF StandsOn
      <4>3. CASE Gone(c)
        <5>1. Gone(c)'
          BY <1>7, <3>6, <4>3
        <5> QED
          BY <2>1, <2>2, <3>1, <3>3, <3>6, <5>1 DEF StandsOn
      <4> QED
        BY <3>4, <3>6, <4>1, <4>2, <4>3
    <3> QED
      BY <3>5, <3>6
  <2> QED
    BY <2>4, <2>5
<1>12. ASSUME NEW r \in Walkers, r # t, pc'[r] = "detach" PROVE WaitsFor(r)'
  <2>1. /\ pc[r] = "detach" /\ at_uif'[r] = at_uif[r] /\ at_vnet'[r] = at_vnet[r]
        /\ at_tmp'[r] = at_tmp[r]
    BY <1>4, <1>5, <1>12
  <2>2. overlapped'
    BY <1>8, <1>12, <2>1
  <2>3. WaitsFor(r) /\ (r = App \/ due' = due)
    BY <2>1, DueStays DEF ShutInv, CursorInv, HelperWalks
  <2>4. PICK c \in Ifs, d \in Ifs \cup {Nil} : c = at_uif[r] /\ d = at_tmp[r]
    BY <1>1, <2>3 DEF WaitsFor
  <2>5. c # u /\ uif_mem'[c] = "detaching"
    <3>1. c # u
      BY <1>2, <1>4, <1>12, <2>1, <2>4 DEF ShutInv, CursorInv, EachByOne
    <3> QED
      BY <1>5, <2>3, <2>4, <3>1 DEF WaitsFor
  <2>6. CASE at_vnet[r] = Nil
    BY <1>1, <2>1, <2>3, <2>4, <2>5, <2>6 DEF WaitsFor
  <2>7. CASE at_vnet[r] # Nil
    <3>1. PICK i \in Instances : i = at_vnet[r]
      BY <1>1, <2>7
    <3>2. PICK s \in Seq(Ifs), q \in Seq(Ifs) :
            /\ s = uinet_if_list[i] /\ q = uinet_if_list'[i] /\ q = Without(s, u)
            /\ Unrepeated(s)
      BY <1>6
    <3>3. PICK e, h : e = Tail(s) /\ h = Tail(q)
      OBVIOUS
    <3>4. /\ s # <<>> /\ c = Head(s)
          /\ IF d = Nil THEN NothingLeft(r, e) ELSE d = First(e) \/ Gone(d)
      BY <2>3, <2>4, <2>7, <3>1, <3>2, <3>3 DEF WaitsFor
    <3>5. q # <<>> /\ c = Head(q) /\ h = Without(e, u)
      BY <2>5, <3>2, <3>3, <3>4, WithoutOther
    <3>6. e \in Seq(Ifs) /\ Unrepeated(e)
      BY <3>2, <3>3, <3>4, TailList
    <3>7. h \in Seq(Ifs) /\ \A x : Has(h, x) => Has(e, x)
      BY <3>5, <3>6, WithoutList
    <3>8. IF d = Nil THEN (r = App => h = <<>>) /\ (r # App => \A x \in due' : ~Has(h, x))
          ELSE d = First(h) \/ Gone(d)'
      <4>1. CASE d = Nil
        <5>1. NothingLeft(r, h)
          BY <3>4, <3>6, <3>7, <4>1, LessLeft
        <5> QED
          BY <2>3, <4>1, <5>1 DEF NothingLeft
      <4>2. CASE d # Nil
        <5>1. CASE d = u
          BY <1>5, <2>2, <4>2, <5>1 DEF Gone
        <5>2. CASE d # u /\ d = First(e)
          <6>1. First(h) = d
            BY <1>1, <3>5, <3>6, <5>2, WithoutKeepsFirst
          <6> QED
            BY <4>2, <6>1
        <5>3. CASE Gone(d)
          BY <1>7, <4>2, <5>3
        <5> QED
          BY <3>4, <4>2, <5>1, <5>2, <5>3
      <4> QED
        BY <4>1, <4>2
    <3>9. /\ at_uif'[r] = c /\ at_vnet'[r] = i /\ at_tmp'[r] = d /\ c # Nil /\ i # Nil
          /\ h = Tail(uinet_if_list'[i])
      BY <1>1, <2>1, <2>4, <3>1, <3>2, <3>3
    <3> QED
      BY <2>5, <3>2, <3>5, <3>8, <3>9, Zenon DEF WaitsFor, NothingLeft
  <2> QED
    BY <2>6, <2>7
<1>13. EachByOne'
  <2>1. \A r \in Walkers : pc[r] = "detach" /\ at_uif[r] # u => r # t
    BY <1>2
  <2>2. \A x \in Ifs : uif_mem'[x] = "detaching" => x # u /\ uif_mem[x] = "detaching"
    BY <1>5
  <2>3. \A x \in Ifs : uif_mem'[x] = "detaching" =>
          \E r \in Walkers : pc'[r] = "detach" /\ at_uif'[r] = x
    BY <1>5, <2>1, <2>2 DEF ShutInv, CursorInv, EachByOne
  <2>4. \A r \in Walkers : pc'[r] = "detach" =>
          r # t /\ pc[r] = "detach" /\ at_uif'[r] = at_uif[r]
    BY <1>5
  <2> QED
    BY <2>3, <2>4 DEF ShutInv, CursorInv, EachByOne
<1> QED
  BY <1>5, <1>10, <1>11, <1>12, <1>13 DEF CursorInv


\* An interface comes on a list, behind whatever the helper stands on, or is
\* lost.
LEMMA InsertCursor == ASSUME ShutInv, IfInsert, Running, ~Crashed' PROVE CursorInv'
<1>1. /\ pc \in [Walkers -> Places] /\ at_uif \in [Walkers -> Ifs \cup {Nil}]
      /\ at_vnet \in [Walkers -> Instances \cup {Nil}] /\ at_tmp \in [Walkers -> Ifs \cup {Nil}]
      /\ uif_mem \in [Ifs -> {"none", "attached", "detaching", "freed"}]
      /\ uinet_if_list \in [Instances -> Seq(Ifs)]
      /\ Nil \notin Ifs /\ Nil \notin Instances /\ (overlapped => overlapped')
      /\ App \in Walkers /\ Helper \in Walkers /\ App # Helper /\ Walkers = {App, Helper}
  BY WhoIsWho, Typed, History
<1>2. PICK u \in Ifs, i \in Instances :
        /\ pc[App] = "insert" /\ pc' = [pc EXCEPT ![App] = "idle"]
        /\ uif_mem[u] = "none" /\ u \notin due
        /\ uif_mem' = [uif_mem EXCEPT ![u] = "attached"]
        /\ \/ uinet_if_list' = [uinet_if_list EXCEPT ![i] = Append(@, u)]
           \/ uinet_if_list' = uinet_if_list
        /\ at_vnet' = [at_vnet EXCEPT ![App] = Nil] /\ at_uif' = [at_uif EXCEPT ![App] = Nil]
        /\ at_tmp' = [at_tmp EXCEPT ![App] = Nil]
  BY InsertDoes
<1>3. /\ pc'[App] = "idle" /\ pc'[Helper] = pc[Helper] /\ at_vnet'[Helper] = at_vnet[Helper]
      /\ at_uif'[Helper] = at_uif[Helper] /\ at_tmp'[Helper] = at_tmp[Helper]
      /\ uif_mem'[u] = "attached" /\ \A x \in Ifs : x # u => uif_mem'[x] = uif_mem[x]
  BY <1>1, <1>2
<1>4. \A j \in Instances : \/ uinet_if_list'[j] = uinet_if_list[j]
                           \/ uinet_if_list'[j] = Append(uinet_if_list[j], u)
  BY <1>1, <1>2
<1>5. \A x \in Ifs : Gone(x) => Gone(x)'
  BY <1>1, <1>2, <1>3 DEF Gone
<1>6. ASSUME NEW s \in Seq(Ifs), NEW q, q = s \/ q = Append(s, u), NEW c \in Ifs \cup {Nil},
             IF c = Nil THEN NothingLeft(Helper, s) ELSE c = First(s) \/ Gone(c)
      PROVE  IF c = Nil THEN \A x \in due : ~Has(q, x) ELSE c = First(q) \/ Gone(c)'
  <2>1. CASE c = Nil
    <3>1. \A x \in due : ~Has(s, x)
      BY <1>1, <1>6, <2>1 DEF NothingLeft
    <3>2. \A x : Has(Append(s, u), x) <=> Has(s, x) \/ x = u
      BY AppendList
    <3> QED
      BY <1>2, <1>6, <2>1, <3>1, <3>2
  <2>2. CASE c # Nil
    <3>1. c = First(s) => c = First(q)
      BY <1>1, <1>6, <2>2, AppendKeepsFirst
    <3> QED
      BY <1>5, <1>6, <2>2, <3>1
  <2> QED
    BY <2>1, <2>2
<1>7. ASSUME pc[Helper] \in {"uif", "detach"} PROVE overlapped' /\ due' = due
  <2>1. Overlap
    BY <1>2, <1>7 DEF Overlap
  <2>2. overlapped
    BY <2>1 DEF ShutInv, PhaseInv
  <2> QED
    BY <1>1, <1>7, <2>2, DueStays DEF HelperWalks
<1>8. ASSUME pc[Helper] = "uif" PROVE StandsOn(Helper)'
  <2>1. StandsOn(Helper) /\ overlapped' /\ due' = due
    BY <1>1, <1>7, <1>8 DEF ShutInv, CursorInv
  <2>2. CASE at_vnet[Helper] = Nil
    BY <1>3, <2>1, <2>2 DEF StandsOn
  <2>3. CASE at_vnet[Helper] # Nil
    <3>1. PICK j \in Instances, c \in Ifs \cup {Nil} : j = at_vnet[Helper] /\ c = at_uif[Helper]
      BY <1>1, <2>3
    <3>s. PICK s \in Seq(Ifs) : s = uinet_if_list[j]
      BY <1>1
    <3>2. PICK q : s = uinet_if_list[j] /\ q = uinet_if_list'[j]
      BY <3>s
    <3>3. q = s \/ q = Append(s, u)
      BY <1>4, <3>2
    <3>4. IF c = Nil THEN NothingLeft(Helper, s) ELSE c = First(s) \/ Gone(c)
      BY <2>1, <2>3, <3>1, <3>2 DEF StandsOn
    <3>5. IF c = Nil THEN \A x \in due : ~Has(q, x) ELSE c = First(q) \/ Gone(c)'
      BY <1>6, <3>3, <3>4
    <3>6. at_vnet'[Helper] = j /\ at_uif'[Helper] = c
      BY <1>3, <3>1
    <3> QED
      BY <1>1, <2>1, <3>2, <3>5, <3>6, Zenon DEF StandsOn, NothingLeft
  <2> QED
    BY <2>2, <2>3
<1>9. ASSUME pc[Helper] = "detach" PROVE WaitsFor(Helper)'
  <2>1. WaitsFor(Helper) /\ overlapped' /\ due' = due
    BY <1>1, <1>7, <1>9 DEF ShutInv, CursorInv
  <2>2. PICK c \in Ifs, d \in Ifs \cup {Nil} : c = at_uif[Helper] /\ d = at_tmp[Helper]
    BY <1>1, <2>1 DEF WaitsFor
  <2>3. c # u /\ uif_mem'[c] = "detaching"
    BY <1>2, <1>3, <2>1, <2>2 DEF WaitsFor
  <2>4. CASE at_vnet[Helper] = Nil
    BY <1>1, <1>3, <2>1, <2>2, <2>3, <2>4 DEF WaitsFor
  <2>5. CASE at_vnet[Helper] # Nil
    <3>1. PICK j \in Instances : j = at_vnet[Helper]
      BY <1>1, <2>5
    <3>s. PICK s \in Seq(Ifs) : s = uinet_if_list[j]
      BY <1>1
    <3>2. PICK q : s = uinet_if_list[j] /\ q = uinet_if_list'[j]
      BY <3>s
    <3>3. PICK e, h : e = Tail(s) /\ h = Tail(q)
      OBVIOUS
    <3>4. q = s \/ q = Append(s, u)
      BY <1>4, <3>2
    <3>5. /\ s # <<>> /\ c = Head(s)
          /\ IF d = Nil THEN NothingLeft(Helper, e) ELSE d = First(e) \/ Gone(d)
      BY <2>1, <2>2, <2>5, <3>1, <3>2, <3>3 DEF WaitsFor
    <3>6. e \in Seq(Ifs)
      BY <3>3, <3>5, HeadTailProperties
    <3>7. q # <<>> /\ Head(q) = c /\ (h = e \/ h = Append(e, u))
      <4>1. First(s) # Nil
        BY <1>1, <3>5, FirstOf
      <4>2. /\ Append(s, u) # <<>> /\ Head(Append(s, u)) = Head(s)
            /\ Tail(Append(s, u)) = Append(Tail(s), u)
        BY <1>1, <4>1, AppendKeepsFirst
      <4> QED
        BY <3>3, <3>4, <3>5, <4>2
    <3>8. IF d = Nil THEN \A x \in due : ~Has(h, x) ELSE d = First(h) \/ Gone(d)'
      BY <1>6, <3>5, <3>6, <3>7
    <3>9. at_uif'[Helper] = c /\ at_vnet'[Helper] = j /\ at_tmp'[Helper] = d /\ c # Nil /\ j # Nil
          /\ h = Tail(uinet_if_list'[j])
      BY <1>1, <1>3, <2>2, <3>1, <3>2, <3>3
    <3> QED
      BY <1>1, <2>1, <2>3, <3>2, <3>7, <3>8, <3>9, Zenon DEF WaitsFor, NothingLeft
  <2> QED
    BY <2>4, <2>5
<1>10. EachByOne'
  <2>1. \A x \in Ifs : uif_mem'[x] = "detaching" => uif_mem[x] = "detaching"
    BY <1>3
  <2>2. \A r \in Walkers : /\ pc'[r] = "detach" <=> pc[r] = "detach"
                           /\ pc[r] = "detach" => at_uif'[r] = at_uif[r]
    BY <1>1, <1>2, <1>3
  <2> QED
    BY <2>1, <2>2 DEF ShutInv, CursorInv, EachByOne
<1> QED
  BY <1>1, <1>3, <1>8, <1>9, <1>10 DEF CursorInv

\* In every step.
LEMMA CursorStep == ASSUME ShutInv, ShutdownNext, ~Crashed' PROVE CursorInv'
<1>1. /\ pc \in [Walkers -> Places] /\ App \in Walkers /\ Helper \in Walkers /\ App # Helper
      /\ at_vnet \in [Walkers -> Instances \cup {Nil}] /\ at_uif \in [Walkers -> Ifs \cup {Nil}]
      /\ at_tmp \in [Walkers -> Ifs \cup {Nil}] /\ Walkers = {App, Helper} /\ Running
  BY WhoIsWho, Typed DEF ShutdownNext
<1>2. ASSUME UNCHANGED <<uinet_if_list, uif_mem, pc, cursors>> PROVE CursorInv'
  <2>1. UNCHANGED <<uinet_if_list, uif_mem, pc, at_vnet, at_uif, at_tmp>>
    BY <1>2 DEF cursors
  <2> QED
    BY <1>1, <2>1, CursorKept
<1>3. CASE CallNext \/ DriverNext \/ Injected \/ TryLockFails \/ SetFlags \/ SetFlagsWakes
  <2>1. UNCHANGED <<uinet_if_list, uif_mem, pc, cursors>>
    BY <1>3 DEF CallNext, MsgSend, RspWait, RspWaitInterrupted, DriverNext, Injected,
         TryLockFails, SetFlags, SetFlagsWakes, own, lists
  <2> QED
    BY <1>2, <2>1
<1>4. ASSUME NEW t \in Walkers, DestroyWaits(t) PROVE CursorInv'
  <2>1. UNCHANGED <<uinet_if_list, uif_mem, pc, cursors>>
    BY <1>4 DEF DestroyWaits, own, lists
  <2> QED
    BY <1>2, <2>1
<1>5. CASE MsgWait \/ TryLockSucceeds \/ WithoutLock \/ NextVnet \/ ShutdownDone \/ RspSend
  <2>1. /\ UNCHANGED <<uinet_if_list, uif_mem>> /\ pc[Helper] # "detach"
        /\ pc'[Helper] \notin {"uif", "detach"}
    <3>1. CASE MsgWait \/ ShutdownDone \/ RspSend
      BY <1>1, <3>1 DEF MsgWait, ShutdownDone, RspSend, GoTo, lists
    <3>2. CASE TryLockSucceeds \/ WithoutLock
      BY <1>1, <3>2 DEF TryLockSucceeds, WithoutLock, ToFirstVnet, GoTo, lists
    <3>3. CASE NextVnet
      BY <1>1, <3>3, NextFinds DEF lists
    <3> QED
      BY <1>5, <3>1, <3>2, <3>3
  <2>2. HelperNext
    BY <1>5 DEF HelperNext
  <2>3. /\ pc'[App] = pc[App] /\ at_vnet'[App] = at_vnet[App]
        /\ at_uif'[App] = at_uif[App] /\ at_tmp'[App] = at_tmp[App]
    BY <2>2, HelperLeaves
  <2> QED
    BY <1>1, <2>1, <2>3, CursorKept
<1>6. CASE VisitVnet
  <2>1. PICK i \in Instances : i = at_vnet[Helper]
    BY <1>6, VisitFinds, HelperOn DEF HelperWalks
  <2>2. /\ pc[Helper] # "detach" /\ pc'[Helper] = "uif" /\ at_vnet'[Helper] = i
        /\ at_uif'[Helper] = First(uinet_if_list[i]) /\ UNCHANGED <<uinet_if_list, uif_mem>>
        /\ \A r \in Walkers : r # Helper => /\ pc'[r] = pc[r] /\ at_vnet'[r] = at_vnet[r]
                                            /\ at_uif'[r] = at_uif[r] /\ at_tmp'[r] = at_tmp[r]
    BY <1>1, <1>6, <2>1, VisitFinds DEF lists
  <2> QED
    BY <1>1, <2>2, AllCursor
<1>7. CASE HelperNext
  BY <1>1, <1>3, <1>4, <1>5, <1>6, <1>7, BeginCursor, EndCursor DEF HelperNext
<1>8. ASSUME NEW i \in Instances, InstanceDestroy(i) PROVE CursorInv'
  <2>1. /\ pc[App] # "detach" /\ pc'[App] = "uif" /\ at_vnet'[App] = i
        /\ at_uif'[App] = First(uinet_if_list[i]) /\ UNCHANGED <<uinet_if_list, uif_mem>>
        /\ \A r \in Walkers : r # App => /\ pc'[r] = pc[r] /\ at_vnet'[r] = at_vnet[r]
                                         /\ at_uif'[r] = at_uif[r] /\ at_tmp'[r] = at_tmp[r]
    BY <1>1, <1>8 DEF InstanceDestroy, AppBegins, GoTo, lists
  <2> QED
    BY <1>1, <2>1, AllCursor
<1>9. ASSUME NEW u \in Ifs, NEW i \in Instances,
             \/ IfCreate(u, i) \/ (IfCreateEnds /\ u = Watched /\ i = Default)
             \/ VnetAlloc(i) \/ IfCreateBegins
             \/ AppDestroyed \/ VnetLink \/ VnetUnlock \/ InstanceInit \/ VnetDestroyLocks
      PROVE  CursorInv'
  <2>1. /\ UNCHANGED <<uinet_if_list, uif_mem>> /\ pc[App] # "detach"
        /\ pc'[App] \notin {"uif", "detach"} /\ pc'[Helper] = pc[Helper]
        /\ at_vnet'[Helper] = at_vnet[Helper] /\ at_uif'[Helper] = at_uif[Helper]
        /\ at_tmp'[Helper] = at_tmp[Helper]
    <3>1. CASE IfCreate(u, i) \/ (IfCreateEnds /\ u = Watched /\ i = Default)
      BY <1>1, <3>1, CreateDoes DEF lists
    <3>2. CASE VnetAlloc(i) \/ IfCreateBegins \/ AppDestroyed
      BY <1>1, <3>2 DEF VnetAlloc, IfCreateBegins, AppDestroyed, AppBegins, GoTo, lists, cursors
    <3>3. CASE VnetLink \/ VnetUnlock \/ InstanceInit \/ VnetDestroyLocks
      BY <1>1, <3>3 DEF VnetLink, VnetUnlock, InstanceInit, VnetDestroyLocks, GoTo, lists, cursors
    <3> QED
      BY <1>9, <3>1, <3>2, <3>3
  <2> QED
    BY <1>1, <2>1, CursorKept
<1>10. CASE AppNext
  BY <1>1, <1>3, <1>4, <1>8, <1>9, <1>10, BeginCursor, EndCursor, OneCursor, InsertCursor, WhoIsWho
     DEF AppNext, AppCompletes
<1> QED
  BY <1>3, <1>7, <1>10 DEF ShutdownNext

-----------------------------------------------------------------------------
(* The insertion *)

\* The insertion stays as it is, unless the helper changes the list.
LEMMA InsertKept ==
    ASSUME ShutInv, Running,
           pc'[App] = "insert" =>
             /\ pc[App] = "insert" /\ inst' = inst
             /\ at_vnet'[App] = at_vnet[App] /\ at_uif'[App] = at_uif[App]
             /\ at_tmp'[App] = at_tmp[App]
             /\ \A u \in Ifs : uif_mem[u] = "none" => uif_mem'[u] = "none"
             /\ uinet_if_list' = uinet_if_list \/ Overlap'
    PROVE  InsertInv'
<1> SUFFICES ASSUME pc'[App] = "insert" PROVE InsertInv'
  BY DEF InsertInv
<1>1. InsertInv /\ pc[App] = "insert"
  BY DEF ShutInv
<1>2. /\ at_vnet'[App] \in Instances /\ inst'[at_vnet'[App]] = "live"
      /\ at_uif'[App] \in Ifs /\ uif_mem'[at_uif'[App]] = "none"
  BY <1>1 DEF InsertInv
<1>3. ASSUME ~overlapped' PROVE at_tmp'[App] = Final(uinet_if_list'[at_vnet'[App]])
  <2>1. ~overlapped /\ ~Overlap'
    BY <1>3, History
  <2>2. at_tmp[App] = Final(uinet_if_list[at_vnet[App]])
    BY <1>1, <2>1 DEF InsertInv
  <2> QED
    BY <2>1, <2>2
<1> QED
  BY <1>2, <1>3, Zenon DEF InsertInv

\* In every step.
LEMMA InsertStep == ASSUME ShutInv, ShutdownNext, ~Crashed' PROVE InsertInv'
<1>1. /\ pc \in [Walkers -> Places] /\ App \in Walkers /\ Helper \in Walkers /\ App # Helper
      /\ at_vnet \in [Walkers -> Instances \cup {Nil}] /\ at_uif \in [Walkers -> Ifs \cup {Nil}]
      /\ at_tmp \in [Walkers -> Ifs \cup {Nil}] /\ Running
      /\ uif_mem \in [Ifs -> {"none", "attached", "detaching", "freed"}]
  BY WhoIsWho, Typed DEF ShutdownNext
<1>2. CASE CallNext \/ DriverNext \/ Injected \/ SetFlags \/ SetFlagsWakes
  <2>1. UNCHANGED <<inst, uinet_if_list, uif_mem, pc, at_vnet, at_uif, at_tmp>>
    BY <1>2 DEF CallNext, MsgSend, RspWait, RspWaitInterrupted, DriverNext, Injected,
         SetFlags, SetFlagsWakes, own, lists, cursors
  <2> QED
    BY <1>1, <2>1, InsertKept
<1>3. CASE HelperNext
  <2>1. /\ inst' = inst /\ pc'[App] = pc[App] /\ at_vnet'[App] = at_vnet[App]
        /\ at_uif'[App] = at_uif[App] /\ at_tmp'[App] = at_tmp[App]
    BY <1>3, HelperLeaves
  <2>2. CASE MsgWait \/ TryLockSucceeds \/ TryLockFails \/ WithoutLock \/ VisitVnet
             \/ NextVnet \/ ShutdownDone \/ RspSend \/ DestroyWaits(Helper)
    <3>1. UNCHANGED <<uinet_if_list, uif_mem>>
      BY <2>2 DEF MsgWait, TryLockSucceeds, TryLockFails, WithoutLock, VisitVnet,
           NextVnet, ShutdownDone, RspSend, DestroyWaits, own, lists
    <3> QED
      BY <1>1, <2>1, <3>1, InsertKept
  <2>3. CASE DestroyBegins(Helper)
    <3>1. /\ uif_mem[at_uif[Helper]] = "attached" /\ uinet_if_list' = uinet_if_list
          /\ uif_mem' = [uif_mem EXCEPT ![at_uif[Helper]] = "detaching"]
      BY <1>1, <2>3, BeginFinds
    <3>2. \A u \in Ifs : uif_mem[u] = "none" => uif_mem'[u] = "none"
      BY <1>1, <3>1
    <3> QED
      BY <1>1, <2>1, <3>1, <3>2, InsertKept
  <2>4. CASE DestroyEnds(Helper)
    <3>1. /\ uif_mem[at_uif[Helper]] = "detaching" /\ pc' = [pc EXCEPT ![Helper] = "uif"]
          /\ uif_mem' = [uif_mem EXCEPT ![at_uif[Helper]] = "freed"]
      BY <1>1, <2>4, EndDoes
    <3>2. \A u \in Ifs : uif_mem[u] = "none" => uif_mem'[u] = "none"
      BY <1>1, <3>1
    <3>3. pc'[App] = "insert" => Overlap'
      BY <1>1, <3>1 DEF Overlap
    <3> QED
      BY <1>1, <2>1, <3>2, <3>3, InsertKept
  <2> QED
    BY <1>3, <2>2, <2>3, <2>4 DEF HelperNext
<1>4. ASSUME NEW u \in Ifs, NEW i \in Instances,
             IfCreate(u, i) \/ (IfCreateEnds /\ u = Watched /\ i = Default)
      PROVE  InsertInv'
  <2>1. /\ uif_mem[u] = "none" /\ inst[i] = "live" /\ UNCHANGED <<inst, uif_mem, uinet_if_list>>
        /\ at_vnet'[App] = i /\ at_uif'[App] = u /\ at_tmp'[App] = Final(uinet_if_list[i])
    BY <1>1, <1>4, CreateDoes DEF lists
  <2> QED
    BY <2>1 DEF InsertInv
<1>5. ASSUME NEW u \in Ifs, NEW i \in Instances,
             \/ IfDestroy(u) \/ InstanceDestroy(i) \/ VnetAlloc(i) \/ IfCreateBegins
             \/ IfInsert \/ AppDestroyed \/ VnetLink \/ VnetUnlock \/ InstanceInit \/ VnetDestroyLocks
             \/ DestroyBegins(App) \/ DestroyWaits(App) \/ DestroyEnds(App)
      PROVE  InsertInv'
  <2>1. pc'[App] # "insert"
    <3>1. CASE IfDestroy(u) \/ InstanceDestroy(i) \/ VnetAlloc(i) \/ IfCreateBegins \/ AppDestroyed
      BY <1>1, <3>1 DEF IfDestroy, InstanceDestroy, VnetAlloc, IfCreateBegins, AppDestroyed, GoTo
    <3>2. CASE VnetLink \/ VnetUnlock \/ InstanceInit \/ VnetDestroyLocks
      BY <1>1, <3>2 DEF VnetLink, VnetUnlock, InstanceInit, VnetDestroyLocks, GoTo
    <3>3. CASE IfInsert \/ DestroyBegins(App) \/ DestroyEnds(App)
      BY <1>1, <3>3, InsertDoes, BeginFinds, EndDoes
    <3>4. CASE DestroyWaits(App)
      BY <3>4 DEF DestroyWaits, own
    <3> QED
      BY <1>5, <3>1, <3>2, <3>3, <3>4
  <2> QED
    BY <2>1 DEF InsertInv
<1>6. CASE AppNext
  BY <1>2, <1>4, <1>5, <1>6, WhoIsWho DEF AppNext, AppCompletes
<1> QED
  BY <1>2, <1>3, <1>6 DEF ShutdownNext

-----------------------------------------------------------------------------
(* The walk *)

\* The helper does not move on, and no list gets something that is due.
LEMMA WalkKept ==
    ASSUME ShutInv, due' = due,
           pc'[Helper] \in HelperWalks =>
             /\ pc[Helper] \in HelperWalks
             /\ at_vnet'[Helper] = at_vnet[Helper] /\ vnet_list' = vnet_list,
           pc'[Helper] = "down" \/ shutdown_complete' => pc[Helper] = "down" \/ shutdown_complete,
           \A i \in Instances : \A x \in due : Has(uinet_if_list'[i], x) => Has(uinet_if_list[i], x)
    PROVE  WalkInv'
<1>1. App # Helper
  BY WhoIsWho
<1>2. \A i \in Instances : NothingLeft(Helper, uinet_if_list[i]) => NothingLeft(Helper, uinet_if_list[i])'
  BY <1>1 DEF NothingLeft
<1>3. ASSUME pc'[Helper] \in HelperWalks
      PROVE  \E k \in 1 .. Len(vnet_list') :
               /\ vnet_list'[k] = at_vnet'[Helper]
               /\ \A j \in 1 .. k - 1 : NothingLeft(Helper, uinet_if_list[vnet_list[j]])'
  <2>1. /\ vnet_list \in Seq(Instances) /\ vnet_list' = vnet_list
        /\ at_vnet'[Helper] = at_vnet[Helper]
    BY <1>3, Typed
  <2>2. PICK k \in 1 .. Len(vnet_list) :
          /\ vnet_list[k] = at_vnet[Helper]
          /\ \A j \in 1 .. k - 1 : NothingLeft(Helper, uinet_if_list[vnet_list[j]])
    BY <1>3 DEF ShutInv, WalkInv
  <2>3. \A j \in 1 .. k - 1 : vnet_list[j] \in Instances
    <3>1. \A j \in 1 .. k - 1 : j \in 1 .. Len(vnet_list)
      BY <2>1, LenProperties
    <3> QED
      BY <2>1, <3>1, ElementOfSeq
  <2>4. \A j \in 1 .. k - 1 : NothingLeft(Helper, uinet_if_list[vnet_list[j]])'
    <3> SUFFICES ASSUME NEW j \in 1 .. k - 1
                 PROVE  NothingLeft(Helper, uinet_if_list[vnet_list[j]])'
      OBVIOUS
    <3>1. PICK i \in Instances : i = vnet_list[j]
      BY <2>3
    <3>2. NothingLeft(Helper, uinet_if_list[i])
      BY <2>2, <3>1
    <3>3. NothingLeft(Helper, uinet_if_list[i])'
      BY <1>2, <3>2
    <3> QED
      BY <2>1, <3>1, <3>3 DEF NothingLeft
  <2> QED
    BY <2>1, <2>2, <2>4
<1>4. ASSUME pc'[Helper] = "down" \/ shutdown_complete'
      PROVE  \A i \in Instances : NothingLeft(Helper, uinet_if_list[i])'
  BY <1>2, <1>4 DEF ShutInv, WalkInv
<1> QED
  BY <1>3, <1>4 DEF WalkInv

\* Nothing is claimed before a walk.
LEMMA NoWalk ==
    ASSUME pc'[Helper] \in {"msgwait", "lock"}, ~shutdown_complete'
    PROVE  WalkInv'
BY DEF WalkInv, HelperWalks

\* The walk begins at the first instance; without any there are no interfaces.
LEMMA FirstWalk == ASSUME ShutInv, TryLockSucceeds \/ WithoutLock PROVE WalkInv'
<1>1. /\ pc \in [Walkers -> Places] /\ Helper \in Walkers
      /\ at_vnet \in [Walkers -> Instances \cup {Nil}] /\ vnet_list \in Seq(Instances)
      /\ Nil \notin Instances
  BY WhoIsWho, Typed
<1>2. /\ pc[Helper] = "lock" /\ UNCHANGED <<vnet_list, uinet_if_list, shutdown_complete>>
      /\ at_vnet'[Helper] = First(vnet_list)
      /\ pc'[Helper] = IF vnet_list = <<>> THEN "down" ELSE "vnet"
  BY <1>1 DEF TryLockSucceeds, WithoutLock, ToFirstVnet, GoTo, lists
<1>3. ~shutdown_complete
  BY <1>2 DEF ShutInv, PhaseInv
<1>4. CASE vnet_list = <<>>
  <2>1. \A i \in Instances : ~Has(vnet_list, i)
    BY <1>4, EmptyList
  <2>2. \A i \in Instances : uinet_if_list[i] = <<>>
    BY <2>1 DEF ShutInv, IfInv
  <2>3. \A i \in Instances : NothingLeft(Helper, uinet_if_list[i])'
    BY <1>2, <2>2, EmptyList DEF NothingLeft
  <2> QED
    BY <1>2, <1>4, <2>3 DEF WalkInv, HelperWalks
<1>5. CASE vnet_list # <<>>
  <2>1. 1 \in 1 .. Len(vnet_list) /\ vnet_list[1] = First(vnet_list)
    BY <1>1, <1>5, HeadOn, FirstOf
  <2>2. \A j \in 1 .. 1 - 1 : FALSE
    OBVIOUS
  <2>3. pc'[Helper] = "vnet" /\ ~shutdown_complete'
    BY <1>2, <1>3, <1>5
  <2> QED
    BY <1>2, <2>1, <2>2, <2>3 DEF WalkInv
<1> QED
  BY <1>4, <1>5

\* The helper leaves an instance once nothing due is left on its list, and the
\* last one once that holds of every list.
LEMMA NextWalk == ASSUME ShutInv, Running, NextVnet, ~Crashed' PROVE WalkInv'
<1>1. /\ pc \in [Walkers -> Places] /\ Helper \in Walkers
      /\ at_vnet \in [Walkers -> Instances \cup {Nil}] /\ vnet_list \in Seq(Instances)
      /\ Nil \notin Instances /\ Unrepeated(vnet_list)
  BY WhoIsWho, Typed DEF ShutInv, VnetInv
<1>2. pc[Helper] = "uif" /\ pc[Helper] \in HelperWalks /\ at_uif[Helper] = Nil
  BY NextFinds DEF HelperWalks
<1>3. PICK k \in 1 .. Len(vnet_list) :
        /\ vnet_list[k] = at_vnet[Helper]
        /\ \A j \in 1 .. k - 1 : NothingLeft(Helper, uinet_if_list[vnet_list[j]])
  BY <1>2 DEF ShutInv, WalkInv
<1>4. PICK f : f = After(vnet_list, vnet_list[k])
  OBVIOUS
<1>5. /\ UNCHANGED <<vnet_list, uinet_if_list, shutdown_complete, call>>
      /\ at_vnet'[Helper] = f /\ pc'[Helper] = IF f = Nil THEN "down" ELSE "vnet"
  BY <1>1, <1>3, <1>4, NextFinds DEF lists
<1>6. ~shutdown_complete /\ due' = due
  BY <1>2, <1>5, HelperWalking, History
<1>7. NothingLeft(Helper, uinet_if_list[vnet_list[k]])
  <2>1. vnet_list[k] \in Instances
    BY <1>1, ElementOfSeq
  <2>2. StandsOn(Helper)
    BY <1>1, <1>2 DEF ShutInv, CursorInv
  <2>3. at_vnet[Helper] # Nil
    BY <1>1, <1>3, <2>1
  <2> QED
    BY <1>2, <1>3, <2>2, <2>3 DEF StandsOn
<1>8. k \in Nat /\ Len(vnet_list) \in Nat /\ k <= Len(vnet_list)
  BY <1>1, LenProperties
<1>9. \A j \in 1 .. k : NothingLeft(Helper, uinet_if_list[vnet_list[j]])
  <2>1. \A j \in 1 .. k : j = k \/ j \in 1 .. k - 1
    BY <1>8
  <2> QED
    BY <1>3, <1>7, <2>1
<1>10. /\ f = IF k = Len(vnet_list) THEN Nil ELSE vnet_list[k + 1]
       /\ k # Len(vnet_list) => k + 1 \in 1 .. Len(vnet_list) /\ vnet_list[k + 1] \in Instances
  BY <1>1, <1>4, AfterPlace
<1>11. CASE k = Len(vnet_list)
  <2>1. f = Nil /\ pc'[Helper] = "down"
    BY <1>5, <1>10, <1>11
  <2>2. ASSUME NEW i \in Instances PROVE NothingLeft(Helper, uinet_if_list[i])'
    <3>1. NothingLeft(Helper, uinet_if_list[i])
      <4>1. CASE Has(vnet_list, i)
        BY <1>9, <1>11, <4>1 DEF Has
      <4>2. CASE ~Has(vnet_list, i)
        BY <4>2, NoneLeft DEF ShutInv, IfInv
      <4> QED
        BY <4>1, <4>2
    <3> QED
      BY <1>5, <1>6, <3>1 DEF NothingLeft
  <2> QED
    BY <1>5, <2>1, <2>2 DEF WalkInv, HelperWalks
<1>12. CASE k # Len(vnet_list)
  <2>1. PICK n \in 1 .. Len(vnet_list) : n = k + 1 /\ f = vnet_list[n] /\ f # Nil
    BY <1>1, <1>10, <1>12
  <2>2. \A j \in 1 .. n - 1 : NothingLeft(Helper, uinet_if_list[vnet_list[j]])
    <3>1. n - 1 = k
      BY <1>8, <2>1
    <3> QED
      BY <1>9, <3>1
  <2>3. pc'[Helper] = "vnet" /\ ~shutdown_complete'
    BY <1>5, <1>6, <2>1
  <2>4. \A j \in 1 .. n - 1 : NothingLeft(Helper, uinet_if_list[vnet_list[j]])'
    BY <1>5, <1>6, <2>2 DEF NothingLeft
  <2>5. \E m \in 1 .. Len(vnet_list') :
          /\ vnet_list'[m] = at_vnet'[Helper]
          /\ \A j \in 1 .. m - 1 : NothingLeft(Helper, uinet_if_list[vnet_list[j]])'
    BY <1>5, <2>1, <2>4
  <2> QED
    BY <2>3, <2>5 DEF WalkInv
<1> QED
  BY <1>11, <1>12

\* A destruction takes from the lists only.
LEMMA DestroyWalk ==
    ASSUME ShutInv, Running, ~Crashed', NEW t \in Walkers, DestroyBegins(t) \/ DestroyEnds(t)
    PROVE  WalkInv'
<1>1. /\ pc \in [Walkers -> Places] /\ Helper \in Walkers /\ t \in {App, Helper} /\ App # Helper
  BY WhoIsWho, Typed
<1>2. /\ UNCHANGED <<vnet_list, at_vnet, shutdown_complete, call>> /\ pc[t] \in {"uif", "detach"}
      /\ \E x \in {"uif", "detach"} : pc' = [pc EXCEPT ![t] = x]
  BY BeginFinds, EndDoes
<1>3. pc'[Helper] = pc[Helper]
        \/ (pc[Helper] \in HelperWalks /\ pc'[Helper] \in {"uif", "detach"})
  BY <1>1, <1>2 DEF HelperWalks
<1>4. \A i \in Instances : \A x \in due : Has(uinet_if_list'[i], x) => Has(uinet_if_list[i], x)
  <2>1. CASE DestroyBegins(t)
    BY <2>1, BeginFinds
  <2>2. CASE DestroyEnds(t)
    BY <2>2, EndDoes, OffListIs
  <2> QED
    BY <2>1, <2>2
<1>5. due' = due
  BY <1>2, History
<1> QED
  BY <1>2, <1>3, <1>4, <1>5, WalkKept DEF HelperWalks

\* What comes on a list is not due.
LEMMA InsertWalk == ASSUME ShutInv, IfInsert, Running, ~Crashed' PROVE WalkInv'
<1>1. /\ pc \in [Walkers -> Places] /\ at_vnet \in [Walkers -> Instances \cup {Nil}]
      /\ App \in Walkers /\ Helper \in Walkers /\ App # Helper
      /\ uinet_if_list \in [Instances -> Seq(Ifs)]
  BY WhoIsWho, Typed
<1>2. PICK u \in Ifs, i \in Instances :
        /\ pc' = [pc EXCEPT ![App] = "idle"] /\ u \notin due
        /\ \/ uinet_if_list' = [uinet_if_list EXCEPT ![i] = Append(@, u)]
           \/ uinet_if_list' = uinet_if_list
        /\ at_vnet' = [at_vnet EXCEPT ![App] = Nil]
        /\ UNCHANGED <<vnet_list, shutdown_complete, call>>
  BY InsertDoes
<1>3. ASSUME NEW j \in Instances, NEW x \in due, Has(uinet_if_list'[j], x)
      PROVE  Has(uinet_if_list[j], x)
  <2>1. PICK s \in Seq(Ifs) : s = uinet_if_list[j]
    BY <1>1
  <2>2. uinet_if_list'[j] = s \/ uinet_if_list'[j] = Append(s, u)
    BY <1>1, <1>2, <2>1
  <2>3. Has(Append(s, u), x) => Has(s, x)
    BY <1>2, AppendList
  <2> QED
    BY <1>3, <2>1, <2>2, <2>3
<1>4. pc'[Helper] = pc[Helper] /\ at_vnet'[Helper] = at_vnet[Helper] /\ due' = due
  BY <1>1, <1>2, History
<1> QED
  BY <1>2, <1>3, <1>4, WalkKept

\* In every step.
LEMMA WalkStep == ASSUME ShutInv, ShutdownNext, ~Crashed' PROVE WalkInv'
<1>1. /\ pc \in [Walkers -> Places] /\ App \in Walkers /\ Helper \in Walkers /\ App # Helper
      /\ at_vnet \in [Walkers -> Instances \cup {Nil}] /\ Running
  BY WhoIsWho, Typed DEF ShutdownNext
<1>2. CASE CallNext
  <2>1. UNCHANGED <<pc, at_vnet, vnet_list, uinet_if_list, shutdown_complete>>
    BY <1>2 DEF CallNext, MsgSend, RspWait, RspWaitInterrupted, lists, cursors
  <2>2. CASE Called
    BY <1>1, <2>1, <2>2, History, WalkKept
  <2>3. CASE ~Called
    BY <2>1, <2>3, NoWalk DEF ShutInv, PhaseInv
  <2> QED
    BY <2>2, <2>3
<1>3. CASE DriverNext \/ Injected \/ SetFlags \/ SetFlagsWakes \/ DestroyWaits(App) \/ DestroyWaits(Helper)
  <2>1. UNCHANGED <<pc, at_vnet, vnet_list, uinet_if_list, shutdown_complete, call>>
    BY <1>3 DEF DriverNext, Injected, SetFlags, SetFlagsWakes, DestroyWaits, own, lists, cursors
  <2> QED
    BY <1>1, <2>1, History, WalkKept
<1>4. CASE MsgWait \/ TryLockFails \/ ShutdownDone \/ RspSend
  <2>1. /\ UNCHANGED <<uinet_if_list, vnet_list, at_vnet, call>>
        /\ pc'[Helper] \notin HelperWalks \cup {"down"}
        /\ shutdown_complete' => shutdown_complete \/ pc[Helper] = "down"
    BY <1>1, <1>4 DEF MsgWait, TryLockFails, ShutdownDone, RspSend, GoTo, lists, cursors, HelperWalks
  <2> QED
    BY <1>1, <2>1, History, WalkKept
<1>5. CASE VisitVnet
  <2>1. /\ UNCHANGED <<vnet_list, uinet_if_list, at_vnet, shutdown_complete, call>>
        /\ pc[Helper] = "vnet" /\ pc'[Helper] = "uif"
    BY <1>1, <1>5, VisitFinds DEF lists
  <2> QED
    BY <1>1, <2>1, History, WalkKept DEF HelperWalks
<1>6. CASE HelperNext
  BY <1>1, <1>3, <1>4, <1>5, <1>6, FirstWalk, NextWalk, DestroyWalk DEF HelperNext
<1>7. ASSUME NEW u \in Ifs, NEW i \in Instances,
             \/ IfCreate(u, i) \/ IfCreateEnds \/ VnetAlloc(i) \/ IfCreateBegins
             \/ IfDestroy(u) \/ InstanceDestroy(i)
             \/ AppDestroyed \/ VnetUnlock \/ InstanceInit \/ VnetDestroyLocks
      PROVE  WalkInv'
  <2>1. /\ UNCHANGED <<vnet_list, uinet_if_list, shutdown_complete, call>>
        /\ pc'[Helper] = pc[Helper] /\ at_vnet'[Helper] = at_vnet[Helper]
    <3>1. CASE IfCreate(u, i) \/ IfCreateEnds
      BY <1>1, <3>1 DEF IfCreate, IfCreateEnds, InsertBegins, GoTo, AppUnchanged, lists
    <3>2. CASE VnetAlloc(i) \/ IfCreateBegins \/ IfDestroy(u) \/ InstanceDestroy(i)
      BY <1>1, <3>2 DEF VnetAlloc, IfCreateBegins, IfDestroy, InstanceDestroy, GoTo, AppUnchanged,
           lists, cursors
    <3>3. CASE AppDestroyed \/ VnetUnlock \/ InstanceInit \/ VnetDestroyLocks
      BY <1>1, <3>3 DEF AppDestroyed, VnetUnlock, InstanceInit, VnetDestroyLocks, GoTo, AppUnchanged,
           lists, cursors
    <3> QED
      BY <1>7, <3>1, <3>2, <3>3
  <2> QED
    BY <1>1, <2>1, History, WalkKept
<1>8. CASE VnetLink
  <2>1. /\ UNCHANGED <<uinet_if_list, shutdown_complete, call>> /\ pc'[Helper] = pc[Helper]
        /\ AppRuns /\ pc[App] \in {"alloc", "wlocked"}
    BY <1>1, <1>8 DEF VnetLink, GoTo, AppUnchanged
  <2>2. vnet_lock = App
    BY <2>1 DEF ShutInv, LockInv
  <2>3. pc[Helper] \notin HelperWalks
    BY <2>1, <2>2, HelperWalking
  <2> QED
    BY <1>1, <2>1, <2>3, History, WalkKept
<1>9. CASE AppNext
  BY <1>1, <1>3, <1>7, <1>8, <1>9, DestroyWalk, InsertWalk, WhoIsWho DEF AppNext, AppCompletes
<1> QED
  BY <1>2, <1>3, <1>6, <1>9 DEF ShutdownNext

-----------------------------------------------------------------------------
(* The invariant *)

\* Before anything happens.
LEMMA ShutInvInit == ShutdownInit => ShutInv
<1> SUFFICES ASSUME ShutdownInit PROVE ShutInv
  OBVIOUS
<1>1. /\ App \in Walkers /\ Helper \in Walkers /\ App # Helper /\ Default \in Instances
      /\ App # Nil /\ Helper # Nil /\ App \in Callers /\ LockAttempts \in Nat /\ LockAttempts # 0
      /\ Watched \in Ifs
  BY WhoIsWho
<1>2. /\ msgs = 0 /\ rsps = 0 /\ call = [c \in Callers |-> "idle"]
      /\ vnet_lock = Nil
      /\ inst = [i \in Instances |-> IF Has(vnet_list, i) THEN "live" ELSE "none"]
      /\ uinet_if_list = [i \in Instances |-> <<>>] /\ uif_mem = [u \in Ifs |-> "none"]
      /\ pc = [t \in Walkers |-> IF t = App THEN "idle" ELSE "msgwait"]
      /\ lock_attempts = 0 /\ shutdown_complete = FALSE
      /\ at_vnet = [t \in Walkers |-> Nil] /\ at_uif = [t \in Walkers |-> Nil]
      /\ at_tmp = [t \in Walkers |-> Nil] /\ due = {} /\ overlapped = FALSE
  BY DEF ShutdownInit
<1>3. pc[App] = "idle" /\ pc[Helper] = "msgwait" /\ ~Called /\ ~Overlap /\ ~Crashed
  BY <1>1, <1>2 DEF Called, Overlap, Crashed
<1>4. \A i \in Instances : uinet_if_list[i] = <<>>
  BY <1>2
<1>5. vnet_list \in Seq(Instances) /\ Unrepeated(vnet_list) /\ Has(vnet_list, Default)
  <2>1. CASE vnet_list = <<Default>>
    <3>1. vnet_list \in Seq(Instances) /\ Len(vnet_list) = 1 /\ vnet_list[1] = Default
      BY <1>1, <2>1
    <3> QED
      BY <3>1 DEF Unrepeated, Has
  <2>2. ASSUME NEW i \in Instances \ {Default}, vnet_list = <<i, Default>>
        PROVE  vnet_list \in Seq(Instances) /\ Unrepeated(vnet_list) /\ Has(vnet_list, Default)
    <3>1. /\ vnet_list \in Seq(Instances) /\ Len(vnet_list) = 2
          /\ vnet_list[1] = i /\ vnet_list[2] = Default /\ i # Default
      BY <1>1, <2>2
    <3> QED
      BY <3>1 DEF Unrepeated, Has
  <2> QED
    BY <2>1, <2>2 DEF ShutdownInit
<1>6. ListTypes
  <2>1. uinet_if_list \in [Instances -> Seq(Ifs)]
    BY <1>2, EmptyList
  <2>2. ShutdownTypeOK
    <3>1. msgs \in Nat /\ rsps \in Nat /\ vnet_lock \in {Nil, App, Helper}
          /\ lock_attempts \in 0 .. LockAttempts
      BY <1>1, <1>2
    <3>2. call \in [Callers -> CallPlaces] /\ pc \in [Walkers -> Places]
      BY <1>2 DEF CallPlaces, Places
    <3>3. /\ inst \in [Instances -> {"none", "nouinet", "live", "freed"}]
          /\ uif_mem \in [Ifs -> {"none", "attached", "detaching", "freed"}]
      BY <1>2
    <3>4. shutdown_complete \in BOOLEAN /\ due \subseteq Ifs /\ overlapped \in BOOLEAN
      BY <1>2
    <3> QED
      BY <3>1, <3>2, <3>3, <3>4 DEF ShutdownTypeOK
  <2> QED
    BY <1>2, <1>5, <2>1, <2>2 DEF ListTypes
<1>7. PhaseInv
  BY <1>1, <1>2, <1>3 DEF PhaseInv, AppPlaces, HelperWalks
<1>8. LockInv
  BY <1>1, <1>2, <1>3 DEF LockInv, HelperWalks
<1>9. VnetInv /\ DefaultInv
  BY <1>1, <1>2, <1>3, <1>5 DEF VnetInv, DefaultInv
<1>10. IfInv
  BY <1>2, <1>4, EmptyList DEF IfInv
<1>11. CursorInv
  <2>1. \A t \in Walkers : pc[t] \notin {"uif", "detach"}
    BY <1>2
  <2> QED
    BY <1>1, <1>2, <2>1 DEF CursorInv, EachByOne
<1>12. WalkInv /\ InsertInv
  BY <1>2, <1>3 DEF WalkInv, InsertInv, HelperWalks
<1>13. WatchedInv
  BY <1>1, <1>2, <1>3 DEF WatchedInv
<1> QED
  BY <1>6, <1>7, <1>8, <1>9, <1>10, <1>11, <1>12, <1>13 DEF ShutInv

\* A step of somebody else changes nothing.
LEMMA ShutInvStutter == ASSUME ShutInv, UNCHANGED allvars PROVE ShutInv'
<1>1. /\ UNCHANGED <<msgs, rsps, call, vnet_list, vnet_lock, inst, uinet_if_list, uif_mem, pc>>
      /\ UNCHANGED <<lock_attempts, shutdown_complete, at_vnet, at_uif, at_tmp, due, overlapped>>
      /\ UNCHANGED <<ctl, det>>
  BY DEF allvars, own, lists, cursors, vars
<1>2. ListTypes' /\ PhaseInv' /\ LockInv'
  BY <1>1 DEF ShutInv, ListTypes, ShutdownTypeOK, PhaseInv, LockInv, LockHeldLong, AppRuns, Called,
       Overlap, Crashed
<1>3. VnetInv' /\ DefaultInv' /\ IfInv'
  BY <1>1 DEF ShutInv, VnetInv, DefaultInv, IfInv
<1>4. CursorInv' /\ InsertInv' /\ WatchedInv'
  BY <1>1 DEF ShutInv, CursorInv, StandsOn, WaitsFor, NothingLeft, Gone, EachByOne, InsertInv, WatchedInv
<1>5. WalkInv'
  BY <1>1 DEF ShutInv, WalkInv, NothingLeft
<1> QED
  BY <1>2, <1>3, <1>4, <1>5 DEF ShutInv

\* And ever after.
LEMMA ShutInvariant == ShutdownSpec => []ShutInv
<1>1. ShutInv /\ [ShutdownNext]_allvars => ShutInv'
  <2> SUFFICES ASSUME ShutInv, [ShutdownNext]_allvars PROVE ShutInv'
    OBVIOUS
  <2>1. CASE UNCHANGED allvars
    BY <2>1, ShutInvStutter
  <2>2. CASE ShutdownNext /\ Crashed'
    BY <2>2, CrashStep
  <2>3. CASE ShutdownNext /\ ~Crashed'
    <3>1. ListTypes' /\ PhaseInv' /\ LockInv'
      BY <2>3, TypesStep, PhaseStep, LockStep
    <3>2. VnetInv' /\ DefaultInv' /\ IfInv'
      BY <2>3, VnetStep, DefaultStep, IfStep
    <3>3. CursorInv' /\ InsertInv' /\ WalkInv' /\ WatchedInv'
      BY <2>3, CursorStep, InsertStep, WalkStep, WatchedStep
    <3> QED
      BY <3>1, <3>2, <3>3 DEF ShutInv
  <2> QED
    BY <2>1, <2>2, <2>3
<1> QED
  BY <1>1, ShutInvInit, PTL DEF ShutdownSpec

\* What the lists of interfaces hold is alive, whatever calls of uinet_shutdown
\* and of the application come together, and nobody follows a pointer to freed
\* memory or to an instance without its uinet unless the application changes
\* interfaces or instances while the helper walks.
THEOREM ShutdownListsHoldLive == ShutdownSpec => []ListsHoldLive
<1>1. ShutInv => ListsHoldLive
  <2> SUFFICES ASSUME ShutInv PROVE ListsHoldLive
    OBVIOUS
  <2>1. ASSUME NEW i \in Instances, NEW k \in DOMAIN uinet_if_list[i]
        PROVE  uif_mem[uinet_if_list[i][k]] \in {"attached", "detaching"}
    <3>1. PICK s \in Seq(Ifs) : s = uinet_if_list[i]
      BY Typed
    <3>2. k \in 1 .. Len(s)
      BY <3>1
    <3>3. s[k] \in Ifs /\ Has(s, s[k])
      BY <3>2, ElementOfSeq DEF Has
    <3> QED
      BY <3>1, <3>3 DEF ShutInv, IfInv
  <2>2. ShutdownTypeOK /\ (Crashed => overlapped)
    BY DEF ShutInv, ListTypes, PhaseInv
  <2> QED
    BY <2>1, <2>2 DEF ListsHoldLive
<1> QED
  BY <1>1, ShutInvariant, PTL

\* Whoever comes back from uinet_shutdown with an answer, its own or another
\* caller's, finds every interface there was when the first call was made
\* detached, off its list and freed and its threads ended, whatever the
\* application has created and destroyed meanwhile.
THEOREM ShutdownReturnMeansDown == ShutdownSpec => []ReturnMeansDown
<1>1. ShutInv /\ RxInv => ReturnMeansDown
  <2> SUFFICES ASSUME ShutInv, RxInv, NEW c \in Callers, call[c] = "returned", NEW u \in due
               PROVE  /\ uif_mem[u] = "freed"
                      /\ \A i \in Instances : ~Has(uinet_if_list[i], u)
                      /\ u = Watched => rx = "exited" /\ tx = "exited"
    BY DEF ReturnMeansDown
  <2>1. shutdown_complete
    BY DEF ShutInv, PhaseInv
  <2>2. \A i \in Instances : ~Has(uinet_if_list[i], u)
    BY <2>1, WhoIsWho DEF ShutInv, WalkInv, NothingLeft
  <2>3. u \in Ifs /\ uif_mem[u] \in {"none", "attached", "detaching", "freed"}
    BY Typed
  <2>4. uif_mem[u] = "freed"
    BY <2>2, <2>3 DEF ShutInv, IfInv
  <2>5. u = Watched => det = "done"
    BY <2>4 DEF ShutInv, WatchedInv
  <2>6. det = "done" => rx = "exited" /\ tx = "exited"
    BY DEF RxInv, AckFollowsExit
  <2> QED
    BY <2>2, <2>4, <2>5, <2>6
<1> QED
  BY <1>1, ShutInvariant, RxInvInShutdown, PTL
=============================================================================

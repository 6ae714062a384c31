------------------------------ MODULE RxThread ------------------------------
(***************************************************************************)
(* The life of the threads of a DPDK interface that is not an STS one      *)
(* (uinet_if_dpdk.c) on the kthread shim (uinet_kern_kthread.c): how       *)
(* kthread_add starts the receive thread, how SIOCSIFFLAGS starts and      *)
(* stops reception through rx_thread_run_state, and how if_dpdk_detach     *)
(* ends both threads.                                                      *)
(*                                                                         *)
(* Four threads take part: the one that attaches the interface and sets    *)
(* its flags (ctl), the receive thread (rx), the transmit thread (tx), of  *)
(* which this module only keeps what a stop depends on (TxInject has its   *)
(* work), and the one that detaches the interface (det), which may be the  *)
(* shutdown helper.  Every access to rx_thread_run_state is made under     *)
(* rx_lock, so the code between taking the lock and waiting on rx_cv or    *)
(* releasing the lock is one step.                                         *)
(***************************************************************************)
EXTENDS Naturals

CONSTANT
  RxDisabled    \* sc->RxDisabled: no receive interface in the configuration string

ASSUME RxThreadAssumption == RxDisabled \in BOOLEAN

VARIABLES
  run_state,    \* sc->rx_thread_run_state: 0 stopped, 1 run, 2 stop asked, 3 stopped as asked
  drv_running,  \* IFF_DRV_RUNNING of if_drv_flags
  notice_utd,   \* notice.utd of kthread_add is set
  td_stop_req,  \* td->td_stop_req is set
  stop_limited, \* fewer than td_stop_check_ticks ticks since td_last_stop_check
  tsr_ack,      \* the stop request's tsr_ack
  rx,           \* where the receive thread is
  tx,           \* where the transmit thread is
  ctl,          \* where the configuring thread is
  det           \* where the detaching thread is

vars == <<run_state, drv_running, notice_utd, td_stop_req,
          stop_limited, tsr_ack, rx, tx, ctl, det>>

\* The receive thread: not created, in the start hook, in notify_started, at
\* the stop check that heads its loop, about to take rx_lock, waiting on
\* rx_cv, signalled, receiving, about to acknowledge its stop, gone.
RxPlaces == {"none", "hook", "notify", "check", "lock", "wait", "woken",
             "receive", "ack", "exited"}
\* The configuring thread: before kthread_add, waiting in it, outside the
\* driver, waiting on rx_cv in SIOCSIFFLAGS, signalled.
CtlPlaces == {"attach", "addwait", "idle", "downwait", "downwoken"}
\* The transmit thread: not created, waiting on tx_cv, in a pass, gone.
TxPlaces == {"none", "wait", "send", "exited"}
\* The detaching thread: not there yet, waiting for the receive thread, for
\* the transmit thread, done.
DetPlaces == {"off", "stopwait", "txwait", "done"}

Init ==
  /\ run_state = 0
  /\ drv_running = FALSE
  /\ notice_utd = FALSE
  /\ td_stop_req = FALSE
  /\ stop_limited = FALSE
  /\ tsr_ack = FALSE
  /\ rx = "none"
  /\ tx = "none"
  /\ ctl = "attach"
  /\ det = "off"

----------------------------------------------------------------------------
(* Creation of the thread *)

\* kthread_add waits for the new thread's notice whether or not
\* uhi_thread_create could make one; error is only looked at afterwards.  The
\* transmit thread comes first, and without it the receive thread never does.
KthreadAdd ==
  /\ ctl = "attach"
  /\ ctl' = "addwait"
  /\ \/ rx' = "hook" /\ tx' = "wait"
     \/ rx' = "none" /\ tx' \in {"wait", "none"}
  /\ UNCHANGED <<run_state, drv_running, notice_utd, td_stop_req,
                 stop_limited, tsr_ack, det>>

\* uinet_thread_start_hook, which runs in the new thread.
StartHook ==
  /\ rx = "hook"
  /\ rx' = "notify"
  /\ td_stop_req' = FALSE
  /\ stop_limited' = TRUE
  /\ UNCHANGED <<run_state, drv_running, notice_utd, tsr_ack, ctl, tx, det>>

NotifyStarted ==
  /\ rx = "notify"
  /\ rx' = "check"
  /\ notice_utd' = TRUE
  /\ UNCHANGED <<run_state, drv_running, td_stop_req,
                 stop_limited, tsr_ack, ctl, tx, det>>

KthreadAddReturns ==
  /\ ctl = "addwait"
  /\ notice_utd
  /\ ctl' = "idle"
  /\ UNCHANGED <<run_state, drv_running, notice_utd, td_stop_req,
                 stop_limited, tsr_ack, rx, tx, det>>

----------------------------------------------------------------------------
(* SIOCSIFFLAGS *)

\* Mutant: the waiting thread is not signalled.
SignalForgotten == rx

\* cv_signal(&sc->rx_cv) by the configuring thread: only the receive thread
\* can be waiting then.
RxSignalled == IF rx = "wait" THEN "woken" ELSE rx

\* Mutant: every up counts.
UpStateCounting(s) == s + 1

\* Only a stopped thread is started.
UpState(s) == IF s = 0 THEN 1 ELSE s

\* The interface is marked up.
FlagsUp ==
  /\ ctl = "idle"
  /\ det = "off"
  /\ drv_running' = TRUE
  /\ IF RxDisabled
       THEN UNCHANGED <<run_state, rx>>
       ELSE /\ run_state' = UpState(run_state)
            /\ rx' = IF run_state = 0 THEN RxSignalled ELSE rx
  /\ UNCHANGED <<notice_utd, td_stop_req, stop_limited, tsr_ack, ctl, tx, det>>

\* The interface is marked down.  A thread that may be receiving is asked to
\* stop, and if_dpdk_stop comes after its answer.
FlagsDown ==
  /\ ctl = "idle"
  /\ det = "off"
  /\ drv_running
  /\ IF run_state = 1 /\ ~RxDisabled
       THEN /\ run_state' = 2
            /\ rx' = RxSignalled
            /\ ctl' = "downwait"
            /\ UNCHANGED drv_running
       ELSE /\ drv_running' = FALSE
            /\ UNCHANGED <<run_state, rx, ctl>>
  /\ UNCHANGED <<notice_utd, td_stop_req, stop_limited, tsr_ack, tx, det>>

\* Mutant: the answer is left standing.
DownStateKept == 3

\* What the state is once the stop has been answered.
DownState == 0

\* The loop around cv_wait in SIOCSIFFLAGS.  What becomes of a thread that
\* still waits when detach destroys rx_cv is undefined, and not followed.
DownWakes ==
  /\ ctl = "downwoken"
  /\ det \in {"off", "stopwait"}
  /\ IF run_state # 3
       THEN /\ ctl' = "downwait"
            /\ UNCHANGED <<run_state, drv_running>>
       ELSE /\ ctl' = "idle"
            /\ run_state' = DownState
            /\ drv_running' = FALSE
  /\ UNCHANGED <<notice_utd, td_stop_req, stop_limited, tsr_ack, rx, tx, det>>

----------------------------------------------------------------------------
(* The receive thread *)

\* kthread_stop_check() looks at td_stop_req only when enough ticks have
\* passed since it last did.
StopCheckSays == ~stop_limited /\ td_stop_req

\* while (!kthread_stop_check())
RxCheck ==
  /\ rx = "check"
  /\ rx' = IF StopCheckSays THEN "ack" ELSE "lock"
  /\ stop_limited' = TRUE
  /\ UNCHANGED <<run_state, drv_running, notice_utd, td_stop_req,
                 tsr_ack, ctl, tx, det>>

\* Mutant: the thread waits in state 0 only.
AfterLockUnlessStopped(s) == IF s # 0 THEN "receive" ELSE "wait"

\* wait_for_start is 1 before the loop and nothing clears it, so every round
\* comes to the wait unless reception may run.
AfterLock(s) == IF s = 1 THEN "receive" ELSE "wait"

\* Mutant: the answer is given without a signal.
AnswerWithoutSignal == ctl

\* cv_signal(&sc->rx_cv) by the receive thread.
CtlSignalled == IF ctl = "downwait" THEN "downwoken" ELSE ctl

\* A round of the loop up to the wait on rx_cv or the release of rx_lock.
RxLock ==
  /\ rx = "lock"
  /\ IF run_state = 2
       THEN /\ run_state' = 3
            /\ ctl' = CtlSignalled
            /\ rx' = AfterLock(3)
       ELSE /\ rx' = AfterLock(run_state)
            /\ UNCHANGED <<run_state, ctl>>
  /\ UNCHANGED <<drv_running, notice_utd, td_stop_req,
                 stop_limited, tsr_ack, tx, det>>

\* cv_timedwait returned after a signal: the loop tests the state again.
RxWakes ==
  /\ rx = "woken"
  /\ rx' = AfterLock(run_state)
  /\ UNCHANGED <<run_state, drv_running, notice_utd, td_stop_req,
                 stop_limited, tsr_ack, ctl, tx, det>>

\* cv_timedwait returned EWOULDBLOCK: the stop check comes first.
RxTimesOut ==
  /\ rx = "wait"
  /\ rx' = IF StopCheckSays THEN "ack" ELSE AfterLock(run_state)
  /\ stop_limited' = TRUE
  /\ UNCHANGED <<run_state, drv_running, notice_utd, td_stop_req,
                 tsr_ack, ctl, tx, det>>

\* if_dpdk_batch_receive and the sleep it asks for.
RxReceive ==
  /\ rx = "receive"
  /\ rx' = "check"
  /\ UNCHANGED <<run_state, drv_running, notice_utd, td_stop_req,
                 stop_limited, tsr_ack, ctl, tx, det>>

\* kthread_stop_ack()
RxAck ==
  /\ rx = "ack"
  /\ rx' = "exited"
  /\ tsr_ack' = TRUE
  /\ UNCHANGED <<run_state, drv_running, notice_utd, td_stop_req,
                 stop_limited, ctl, tx, det>>

\* POSIX lets a wait on a condition variable end without a signal.
SpuriousWakeup ==
  /\ \/ rx = "wait" /\ rx' = "woken" /\ UNCHANGED ctl
     \/ ctl = "downwait" /\ det \in {"off", "stopwait"} /\ ctl' = "downwoken" /\ UNCHANGED rx
  /\ UNCHANGED <<run_state, drv_running, notice_utd, td_stop_req,
                 stop_limited, tsr_ack, tx, det>>

\* ticks reaches td_last_stop_check + td_stop_check_ticks.
TicksPass ==
  /\ stop_limited
  /\ stop_limited' = FALSE
  /\ UNCHANGED <<run_state, drv_running, notice_utd, td_stop_req,
                 tsr_ack, rx, ctl, tx, det>>

----------------------------------------------------------------------------
(* The transmit thread, as far as a stop depends on it *)

\* Somebody injects packets, and the thread leaves its wait without a look at
\* td_stop_req.  Nothing keeps the producers from it while the interface is
\* being detached; what they do before then is left to TxInject.
TxInjected ==
  /\ tx = "wait" /\ det # "off"
  /\ tx' = "send"
  /\ UNCHANGED <<run_state, drv_running, notice_utd, td_stop_req,
                 stop_limited, tsr_ack, rx, ctl, det>>

\* The pass is over and nothing has been injected since.
TxSent ==
  /\ tx = "send"
  /\ tx' = "wait"
  /\ UNCHANGED <<run_state, drv_running, notice_utd, td_stop_req,
                 stop_limited, tsr_ack, rx, ctl, det>>

\* cv_timedwait timed out, kthread_stop_check saw the request, and the thread
\* acknowledges it.
TxStopped ==
  /\ tx = "wait" /\ det # "off"
  /\ tx' = "exited"
  /\ UNCHANGED <<run_state, drv_running, notice_utd, td_stop_req,
                 stop_limited, tsr_ack, rx, ctl, det>>

----------------------------------------------------------------------------
(* if_dpdk_detach *)

\* kthread_stop() of both threads: each request is complete before its thread
\* can see it.  An interface can be found, and so detached, once its creation
\* has returned.
KthreadStop ==
  /\ det = "off"
  /\ ctl \notin {"attach", "addwait"}
  /\ det' = "stopwait"
  /\ tsr_ack' = FALSE
  /\ td_stop_req' = TRUE
  /\ UNCHANGED <<run_state, drv_running, notice_utd, stop_limited, rx, tx, ctl>>

\* Mutant: the wait ends with the request itself.
StopWaitOverOnRequest == td_stop_req

\* The loop around cv_wait in kthread_stop_wait, for the receive thread.
StopWaitOver == tsr_ack

\* kthread_stop_wait(&rx_tsr) returns; rx_lock and rx_cv are destroyed.
DetachRxGone ==
  /\ det = "stopwait"
  /\ StopWaitOver
  /\ det' = "txwait"
  /\ UNCHANGED <<run_state, drv_running, notice_utd, td_stop_req,
                 stop_limited, tsr_ack, rx, tx, ctl>>

\* kthread_stop_wait(&tx_tsr) returns, and detach frees all that the threads
\* used.
DetachFrees ==
  /\ det = "txwait"
  /\ tx = "exited"
  /\ det' = "done"
  /\ UNCHANGED <<run_state, drv_running, notice_utd, td_stop_req,
                 stop_limited, tsr_ack, rx, tx, ctl>>

----------------------------------------------------------------------------
CtlNext == KthreadAdd \/ KthreadAddReturns \/ FlagsUp \/ FlagsDown \/ DownWakes
RxNext == \/ StartHook \/ NotifyStarted \/ RxCheck \/ RxLock \/ RxWakes
          \/ RxTimesOut \/ RxReceive \/ RxAck
TxNext == TxSent \/ TxStopped
DetNext == KthreadStop \/ DetachRxGone \/ DetachFrees

Next ==
  CtlNext \/ RxNext \/ TxNext \/ TxInjected \/ DetNext \/ SpuriousWakeup \/ TicksPass

\* The operating system runs every thread that can run, a timed wait ends,
\* and ticks goes on.  Nobody has to set flags, inject packets or detach the
\* interface, and injections that do not cease keep the transmit thread from
\* the time-out that TxStopped needs.  Once the interface is being detached nobody
\* signals rx_cv, and wakeups without a signal do not for ever come before the
\* time-out of the receive thread.
Fairness ==
  /\ WF_vars(RxNext)
  /\ SF_vars(det = "stopwait" /\ RxTimesOut)
  /\ WF_vars(KthreadAddReturns \/ DownWakes)
  /\ WF_vars(TxNext)
  /\ WF_vars(DetachRxGone \/ DetachFrees)
  /\ WF_vars(TicksPass)

Spec == Init /\ [][Next]_vars /\ Fairness

----------------------------------------------------------------------------
(* Properties *)

\* Every variable has its type; in particular rx_thread_run_state stays among
\* the four states the driver knows.
TypeOK ==
  /\ run_state \in {0, 1, 2, 3}
  /\ drv_running \in BOOLEAN
  /\ notice_utd \in BOOLEAN
  /\ td_stop_req \in BOOLEAN
  /\ stop_limited \in BOOLEAN
  /\ tsr_ack \in BOOLEAN
  /\ rx \in RxPlaces
  /\ tx \in TxPlaces
  /\ ctl \in CtlPlaces
  /\ det \in DetPlaces

\* Once SIOCSIFFLAGS has taken the interface down, and until it brings it up
\* again, the receive thread is not in if_dpdk_batch_receive: the caller has
\* waited for the thread's answer before if_dpdk_stop.
StoppedMeansQuiet == ctl = "idle" /\ ~drv_running => rx # "receive"

\* The receive thread does not sleep on rx_cv while it should run: bringing
\* the interface up never relies on the time-out of cv_timedwait.
PromptStart == rx = "wait" => run_state # 1

\* if_dpdk_detach destroys rx_lock and rx_cv only after the receive thread's
\* last access to them, and the softc, the rings and the lists only after the
\* transmit thread's as well.
ThreadsGoneBeforeFree ==
  /\ det \in {"txwait", "done"} => rx = "exited"
  /\ det = "done" => tx = "exited"

\* What the threads owe each other, from which the three invariants above
\* follow: states 2 and 3 exist only while SIOCSIFFLAGS waits, a thread
\* receives only in a state it was allowed to, and nobody but a thread that
\* is leaving acknowledges a stop.
StateFollowsCtl ==
  /\ ctl = "attach" => rx = "none"
  /\ run_state \in {2, 3} <=> ctl \in {"downwait", "downwoken"}
  /\ run_state = 1 => ctl = "idle" /\ drv_running /\ ~RxDisabled
  /\ rx = "receive" => run_state \in {1, 2}
AckFollowsExit ==
  /\ tsr_ack => rx = "exited"
  /\ det \in {"txwait", "done"} => tsr_ack
  /\ det = "done" => tx = "exited"
RxInv == TypeOK /\ StateFollowsCtl /\ PromptStart /\ AckFollowsExit

=============================================================================

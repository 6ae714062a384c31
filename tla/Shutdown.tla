------------------------------ MODULE Shutdown ------------------------------
(***************************************************************************)
(* uinet_shutdown, the helper thread that serves it (uinet_init.c) over    *)
(* the message channel of uinet_host_interface.c, and what it takes down:  *)
(* the stack instances on the vnet list, the interfaces registered with    *)
(* each of them (uinet_config.c) and, for one DPDK interface, the threads  *)
(* of RxThread, whose detaching thread is here the helper or the           *)
(* application.                                                            *)
(*                                                                         *)
(* uinet_shutdown is called by threads and signal handlers at any time     *)
(* and any number at once; a handler may run in the application's own      *)
(* thread, which then stands still where it is, even with the vnet list    *)
(* lock held.  Nothing but that lock guards the list of instances, and the *)
(* lists of interfaces are guarded by nothing, while the programs install  *)
(* their handlers before they create instances and interfaces: the helper  *)
(* may walk the lists while the application changes them.  A thread that   *)
(* follows a pointer to freed or unset memory ends the process ("crash").  *)
(* Two history variables note how it came to that (overlapped) and what a  *)
(* shutdown has to take down (due).                                        *)
(***************************************************************************)
EXTENDS RxThread, TailQ, FiniteSets

CONSTANTS
  Threads,       \* other threads that may call uinet_shutdown, once each
  App, Helper,   \* the application's thread, the helper thread
  Instances,     \* stack instances that may exist
  Default,       \* uinst0 with vnet0
  Ifs,           \* interfaces that may exist
  Watched,       \* the interface whose threads RxThread follows; the others are
                 \* STS ones, which have none
  Nil,           \* NULL
  LockAttempts,  \* how often the helper tries for the vnet list lock: 5
  MaxOps         \* bound: instances and interfaces the application creates or destroys

ASSUME ShutdownAssumption ==
  /\ Default \in Instances /\ Watched \in Ifs
  /\ App \notin Threads /\ Helper \notin Threads /\ App # Helper
  /\ Nil \notin Instances \cup Ifs \cup Threads \cup {App, Helper}
  /\ IsFiniteSet(Threads)
  /\ LockAttempts \in Nat \ {0}
  /\ MaxOps \in Nat

VARIABLES
  msgs, rsps,        \* bytes on their way from fds[0] to fds[1], and back
  call,              \* where each call of uinet_shutdown is
  vnet_list,         \* vnet_head
  vnet_lock,         \* who holds vnet_sxlock, or Nil
  inst,              \* what the memory behind each instance is
  uinet_if_list,     \* the interfaces registered with each instance
  uif_mem,           \* what the memory behind each interface is
  pc,                \* where the helper and the application are
  lock_attempts,     \* the helper's count
  shutdown_complete, \* the helper's flag
  at_vnet, at_uif, at_tmp, \* the helper's and the application's cursors, Nil when dead
  ops,               \* how many of those operations have begun
  due,               \* the interfaces there were when uinet_shutdown was first called
  overlapped         \* the helper has walked while the application changed the lists

lists == <<vnet_list, vnet_lock, inst, uinet_if_list, uif_mem>>
cursors == <<at_vnet, at_uif, at_tmp>>
own == <<msgs, rsps, call, lists, pc, lock_attempts, shutdown_complete, cursors>>
allvars == <<vars, own, ops, due, overlapped>>

Callers == Threads \cup {App}
Walkers == {App, Helper}

\* not called, waiting for an answer, back with an answer, back because a
\* signal interrupted the read.
CallPlaces == {"idle", "wait", "returned", "cut"}
\* Common to both: in uinet_ifdestroy_all before an interface, waiting for
\* its threads, at freed memory.  The helper: waiting for a message, trying
\* for the lock, before an instance, all down, before its answer.  The
\* application: outside, in uinet_ifcreate, in its TAILQ_INSERT_TAIL, in
\* vnet_alloc with the lock, having linked the vnet, having unlocked, waiting for the lock in
\* vnet_destroy, having it, having unlinked the vnet.
Places == {"uif", "detach", "crash", "msgwait", "lock", "vnet", "down", "answer",
           "idle", "create", "insert", "alloc", "linked", "listed", "wlock", "wlocked", "unlinked"}

\* The application may have created an instance before it installs a handler.
ShutdownInit ==
  /\ Init
  /\ msgs = 0 /\ rsps = 0
  /\ call = [c \in Callers |-> "idle"]
  /\ vnet_list \in {<<Default>>} \cup {<<i, Default>> : i \in Instances \ {Default}}
  /\ vnet_lock = Nil
  /\ inst = [i \in Instances |-> IF Has(vnet_list, i) THEN "live" ELSE "none"]
  /\ uinet_if_list = [i \in Instances |-> <<>>]
  /\ uif_mem = [u \in Ifs |-> "none"]
  /\ pc = [t \in Walkers |-> IF t = App THEN "idle" ELSE "msgwait"]
  /\ lock_attempts = 0
  /\ shutdown_complete = FALSE
  /\ at_vnet = [t \in Walkers |-> Nil]
  /\ at_uif = [t \in Walkers |-> Nil]
  /\ at_tmp = [t \in Walkers |-> Nil]
  /\ ops = 0
  /\ due = {}
  /\ overlapped = FALSE

Final(s) == IF s = <<>> THEN Nil ELSE s[Len(s)]
First(s) == IF s = <<>> THEN Nil ELSE Head(s)

\* Mutant: the list is left at the first element.
AfterDropped(s, x) == Nil

\* The element of s that follows x.
After(s, x) == IF PlaceOf(s, x) = Len(s) THEN Nil ELSE s[PlaceOf(s, x) + 1]

Called == \E c \in Callers : call[c] # "idle"

\* The application's thread stands still while it runs a handler.
AppRuns == call[App] \in {"idle", "returned", "cut"}

----------------------------------------------------------------------------
(* uinet_shutdown *)

\* Mutant: a call that finds a message under way sends none.
SendUnlessPending(c) ==
  /\ call[c] = "idle"
  /\ call' = [call EXCEPT ![c] = "wait"]
  /\ msgs' = IF msgs = 0 THEN 1 ELSE msgs
  /\ UNCHANGED <<rsps, lists, pc, lock_attempts, shutdown_complete, cursors, vars>>

\* uinet_shutdown is called, which does uhi_msg_send() and then waits.
MsgSend(c) ==
  /\ call[c] = "idle"
  /\ call' = [call EXCEPT ![c] = "wait"]
  /\ msgs' = msgs + 1
  /\ UNCHANGED <<rsps, lists, pc, lock_attempts, shutdown_complete, cursors, vars>>

\* uhi_msg_rsp_wait(): whoever reads first takes the answer.
RspWait(c) ==
  /\ call[c] = "wait" /\ rsps > 0
  /\ call' = [call EXCEPT ![c] = "returned"]
  /\ rsps' = rsps - 1
  /\ UNCHANGED <<msgs, lists, pc, lock_attempts, shutdown_complete, cursors, vars>>

\* A signal whose handler does not restart system calls ends the read, and
\* its result is not looked at.  While a handler runs, as the call in the
\* application's thread does, all signals are blocked.
RspWaitInterrupted(c) ==
  /\ call[c] = "wait" /\ c # App
  /\ call' = [call EXCEPT ![c] = "cut"]
  /\ UNCHANGED <<msgs, rsps, lists, pc, lock_attempts, shutdown_complete, cursors, vars>>

----------------------------------------------------------------------------
(* The helper thread *)

GoTo(t, place) == pc' = [pc EXCEPT ![t] = place]

MsgWait ==
  /\ pc[Helper] = "msgwait" /\ msgs > 0
  /\ msgs' = msgs - 1
  /\ GoTo(Helper, IF shutdown_complete THEN "answer" ELSE "lock")
  /\ UNCHANGED <<rsps, call, lists, lock_attempts, shutdown_complete, cursors, vars>>

\* The loop over the instances begins.
ToFirstVnet ==
  /\ at_vnet' = [at_vnet EXCEPT ![Helper] = First(vnet_list)]
  /\ GoTo(Helper, IF vnet_list = <<>> THEN "down" ELSE "vnet")
  /\ UNCHANGED <<at_uif, at_tmp>>

AttemptsLeft == lock_attempts < LockAttempts

TryLockSucceeds ==
  /\ pc[Helper] = "lock" /\ AttemptsLeft
  /\ vnet_lock = Nil
  /\ vnet_lock' = Helper
  /\ ToFirstVnet
  /\ UNCHANGED <<msgs, rsps, call, vnet_list, inst, uinet_if_list, uif_mem,
                 lock_attempts, shutdown_complete, vars>>

\* An operation on the list is over within the seconds that the helper waits,
\* unless the thread that does it has been stopped by a handler.
LockHeldLong == vnet_lock = App /\ ~AppRuns

TryLockFails ==
  /\ pc[Helper] = "lock" /\ AttemptsLeft
  /\ vnet_lock # Nil
  /\ lock_attempts + 1 = LockAttempts => LockHeldLong
  /\ lock_attempts' = lock_attempts + 1
  /\ UNCHANGED <<msgs, rsps, call, lists, pc, shutdown_complete, cursors, vars>>


OutOfAttempts == lock_attempts = LockAttempts

\* "Proceeding without vnet list lock"
WithoutLock ==
  /\ pc[Helper] = "lock" /\ OutOfAttempts
  /\ ToFirstVnet
  /\ UNCHANGED <<msgs, rsps, call, lists, lock_attempts, shutdown_complete, vars>>

\* vnet_iter->vnet_uinet, and uinet_instance_shutdown up to the head of its
\* loop.  An instance that uinet_instance_init has not reached has no
\* vnet_uinet, and uinet_ifdestroy_all follows it unchecked.
VisitVnet ==
  /\ pc[Helper] = "vnet"
  /\ LET i == at_vnet[Helper] IN
       IF inst[i] # "live"
         THEN GoTo(Helper, "crash") /\ UNCHANGED cursors
         ELSE /\ GoTo(Helper, "uif")
              /\ at_uif' = [at_uif EXCEPT ![Helper] = First(uinet_if_list[i])]
              /\ UNCHANGED <<at_vnet, at_tmp>>
  /\ UNCHANGED <<msgs, rsps, call, lists, lock_attempts, shutdown_complete, vars>>

\* VNET_FOREACH goes on after uinet_ifdestroy_all.
NextVnet ==
  /\ pc[Helper] = "uif" /\ at_uif[Helper] = Nil
  /\ LET i == at_vnet[Helper] IN
       IF inst[i] # "live"
         THEN GoTo(Helper, "crash") /\ UNCHANGED cursors
         ELSE /\ at_vnet' = [at_vnet EXCEPT ![Helper] = After(vnet_list, i)]
              /\ GoTo(Helper, IF After(vnet_list, i) = Nil THEN "down" ELSE "vnet")
              /\ UNCHANGED <<at_uif, at_tmp>>
  /\ UNCHANGED <<msgs, rsps, call, lists, lock_attempts, shutdown_complete, vars>>


\* if (have_lock) VNET_LIST_RUNLOCK()
LockAfter == IF vnet_lock = Helper THEN Nil ELSE vnet_lock

ShutdownDone ==
  /\ pc[Helper] = "down"
  /\ vnet_lock' = LockAfter
  /\ shutdown_complete' = TRUE
  /\ lock_attempts' = 0
  /\ GoTo(Helper, "answer")
  /\ UNCHANGED <<msgs, rsps, call, vnet_list, inst, uinet_if_list, uif_mem, cursors, vars>>

\* uhi_msg_rsp_send()
RspSend ==
  /\ pc[Helper] = "answer"
  /\ rsps' = rsps + 1
  /\ GoTo(Helper, "msgwait")
  /\ UNCHANGED <<msgs, call, lists, lock_attempts, shutdown_complete, cursors, vars>>

----------------------------------------------------------------------------
(* uinet_ifdestroy_internal, called by the helper or the application *)

\* Mutant: the next element is read once this one is freed.
FollowerReadLate(t) == at_uif[t]

\* The tmp of TAILQ_FOREACH_SAFE.
Follower(t) ==
  IF at_vnet[t] = Nil THEN Nil ELSE After(uinet_if_list[at_vnet[t]], at_uif[t])

\* Up to the wait for the interface's threads.  An interface that the other
\* one is destroying, or has freed, is followed all the same.
DestroyBegins(t) ==
  /\ pc[t] = "uif" /\ at_uif[t] # Nil
  /\ t = App => AppRuns
  /\ LET u == at_uif[t] IN
       IF uif_mem[u] # "attached"
         THEN GoTo(t, "crash") /\ UNCHANGED <<at_tmp, uif_mem, vars>>
         ELSE /\ at_tmp' = [at_tmp EXCEPT ![t] = Follower(t)]
              /\ uif_mem' = [uif_mem EXCEPT ![u] = "detaching"]
              /\ GoTo(t, "detach")
              /\ IF u = Watched THEN KthreadStop ELSE UNCHANGED vars
  /\ UNCHANGED <<msgs, rsps, call, vnet_list, vnet_lock, inst, uinet_if_list,
                 lock_attempts, shutdown_complete, at_vnet, at_uif>>

\* TAILQ_REMOVE
OffList(u) == [i \in Instances |-> Without(uinet_if_list[i], u)]

\* if_dpdk_detach goes on to wait for the transmit thread.
DestroyWaits(t) ==
  /\ pc[t] = "detach" /\ at_uif[t] = Watched
  /\ t = App => AppRuns
  /\ DetachRxGone
  /\ UNCHANGED own

\* if_dpdk_detach returns; the interface is taken off the list and freed.
DestroyEnds(t) ==
  /\ pc[t] = "detach"
  /\ t = App => AppRuns
  /\ LET u == at_uif[t] IN
       /\ IF u = Watched THEN DetachFrees ELSE UNCHANGED vars
       /\ uinet_if_list' = OffList(u)
       /\ uif_mem' = [uif_mem EXCEPT ![u] = "freed"]
       /\ at_uif' = [at_uif EXCEPT ![t] = at_tmp[t]]
       /\ at_tmp' = [at_tmp EXCEPT ![t] = Nil]
       /\ GoTo(t, "uif")
  /\ UNCHANGED <<msgs, rsps, call, vnet_list, vnet_lock, inst,
                 lock_attempts, shutdown_complete, at_vnet>>

----------------------------------------------------------------------------
(* The application *)

AppUnchanged == UNCHANGED <<msgs, rsps, call, lock_attempts, shutdown_complete>>

\* An operation begins at any time, also while the helper is at work.
AppBegins == pc[App] = "idle" /\ AppRuns /\ ctl \notin {"downwait", "downwoken"}

\* TAILQ_INSERT_TAIL of u has read tqh_last of instance i's list.
InsertBegins(u, i) ==
  /\ at_vnet' = [at_vnet EXCEPT ![App] = i]
  /\ at_uif' = [at_uif EXCEPT ![App] = u]
  /\ at_tmp' = [at_tmp EXCEPT ![App] = Final(uinet_if_list[i])]
  /\ GoTo(App, "insert")

\* uinet_ifcreate of an interface without threads, up to its insertion.  The
\* error paths free what was allocated.
IfCreate(u, i) ==
  /\ AppBegins /\ u # Watched
  /\ uif_mem[u] = "none" /\ inst[i] = "live"
  /\ InsertBegins(u, i)
  /\ UNCHANGED <<lists, vars>> /\ AppUnchanged

\* uinet_ifcreate of the watched interface, up to the wait in kthread_add.
IfCreateBegins ==
  /\ AppBegins
  /\ KthreadAdd
  /\ GoTo(App, "create")
  /\ UNCHANGED <<lists, cursors>> /\ AppUnchanged

\* if_dpdk_attach returns; only now does the interface come on the list.
IfCreateEnds ==
  /\ pc[App] = "create" /\ AppRuns
  /\ KthreadAddReturns
  /\ InsertBegins(Watched, Default)
  /\ UNCHANGED lists /\ AppUnchanged

\* The links are written.  If the last interface has left the list since
\* tqh_last was read, the new one is linked to freed memory and is lost.
IfInsert ==
  /\ pc[App] = "insert" /\ AppRuns
  /\ LET i == at_vnet[App]
         in_place == at_tmp[App] = Final(uinet_if_list[i])
     IN  \/ /\ GoTo(App, "idle")
            /\ uif_mem' = [uif_mem EXCEPT ![at_uif[App]] = "attached"]
            /\ uinet_if_list' = IF in_place
                 THEN [uinet_if_list EXCEPT ![i] = Append(@, at_uif[App])]
                 ELSE uinet_if_list
         \/ /\ ~in_place
            /\ GoTo(App, "crash")
            /\ UNCHANGED <<uif_mem, uinet_if_list>>
  /\ at_vnet' = [at_vnet EXCEPT ![App] = Nil]
  /\ at_uif' = [at_uif EXCEPT ![App] = Nil]
  /\ at_tmp' = [at_tmp EXCEPT ![App] = Nil]
  /\ UNCHANGED <<vnet_list, vnet_lock, inst, vars>> /\ AppUnchanged

\* SIOCSIFFLAGS on the watched interface, which may go on into a shutdown.
SetFlags ==
  /\ AppRuns
  /\ pc[App] = "idle"
  /\ FlagsUp \/ FlagsDown
  /\ UNCHANGED own

SetFlagsWakes ==
  /\ AppRuns
  /\ pc[App] = "idle"
  /\ DownWakes
  /\ UNCHANGED own

\* uinet_ifdestroy of an interface that was found by its name.
IfDestroy(u) ==
  /\ AppBegins
  /\ \E i \in Instances : Has(uinet_if_list[i], u)
  /\ at_vnet' = [at_vnet EXCEPT ![App] = Nil]
  /\ at_uif' = [at_uif EXCEPT ![App] = u]
  /\ GoTo(App, "uif")
  /\ UNCHANGED <<lists, at_tmp, vars>> /\ AppUnchanged

\* uinet_instance_destroy, up to uinet_ifdestroy_all
InstanceDestroy(i) ==
  /\ AppBegins
  /\ i # Default /\ inst[i] = "live"
  /\ at_vnet' = [at_vnet EXCEPT ![App] = i]
  /\ at_uif' = [at_uif EXCEPT ![App] = First(uinet_if_list[i])]
  /\ GoTo(App, "uif")
  /\ UNCHANGED <<lists, at_tmp, vars>> /\ AppUnchanged

\* uinet_ifdestroy or uinet_ifdestroy_all returns.
AppDestroyed ==
  /\ pc[App] = "uif" /\ at_uif[App] = Nil /\ AppRuns
  /\ GoTo(App, IF at_vnet[App] = Nil THEN "idle" ELSE "wlock")
  /\ UNCHANGED <<lists, cursors, vars>> /\ AppUnchanged

\* vnet_alloc has made the vnet of a new instance and takes the lock.
VnetAlloc(i) ==
  /\ AppBegins
  /\ inst[i] = "none" /\ vnet_lock = Nil
  /\ vnet_lock' = App
  /\ inst' = [inst EXCEPT ![i] = "nouinet"]
  /\ at_vnet' = [at_vnet EXCEPT ![App] = i]
  /\ GoTo(App, "alloc")
  /\ UNCHANGED <<vnet_list, uinet_if_list, uif_mem, at_uif, at_tmp, vars>> /\ AppUnchanged

\* LIST_INSERT_HEAD and LIST_REMOVE, with the lock held.
VnetLink ==
  /\ AppRuns
  /\ \/ /\ pc[App] = "alloc"
        /\ vnet_list' = <<at_vnet[App]>> \o vnet_list
        /\ GoTo(App, "linked")
     \/ /\ pc[App] = "wlocked"
        /\ vnet_list' = Without(vnet_list, at_vnet[App])
        /\ GoTo(App, "unlinked")
  /\ UNCHANGED <<vnet_lock, inst, uinet_if_list, uif_mem, cursors, vars>> /\ AppUnchanged

\* VNET_LIST_WUNLOCK, after which vnet_destroy frees the vnet.
VnetUnlock ==
  /\ AppRuns
  /\ pc[App] \in {"linked", "unlinked"}
  /\ vnet_lock' = Nil
  /\ inst' = IF pc[App] = "linked" THEN inst
               ELSE [inst EXCEPT ![at_vnet[App]] = "freed"]
  /\ at_vnet' = IF pc[App] = "linked" THEN at_vnet ELSE [at_vnet EXCEPT ![App] = Nil]
  /\ GoTo(App, IF pc[App] = "linked" THEN "listed" ELSE "idle")
  /\ UNCHANGED <<vnet_list, uinet_if_list, uif_mem, at_uif, at_tmp, vars>> /\ AppUnchanged

\* uinet_instance_init, which sets vnet_uinet.  If the event system refuses
\* the new instance the vnet is destroyed again.
InstanceInit ==
  /\ AppRuns
  /\ pc[App] = "listed"
  /\ inst' = [inst EXCEPT ![at_vnet[App]] = "live"]
  /\ \/ GoTo(App, "idle") /\ at_vnet' = [at_vnet EXCEPT ![App] = Nil]
     \/ GoTo(App, "wlock") /\ UNCHANGED at_vnet
  /\ UNCHANGED <<vnet_list, vnet_lock, uinet_if_list, uif_mem, at_uif, at_tmp, vars>>
  /\ AppUnchanged

\* VNET_LIST_WLOCK in vnet_destroy
VnetDestroyLocks ==
  /\ AppRuns
  /\ pc[App] = "wlock" /\ vnet_lock = Nil
  /\ vnet_lock' = App
  /\ GoTo(App, "wlocked")
  /\ UNCHANGED <<vnet_list, inst, uinet_if_list, uif_mem, cursors, vars>> /\ AppUnchanged

----------------------------------------------------------------------------
\* The two walks the application's changes can meet, and the places of the
\* application where they matter.
Overlap ==
  /\ pc[Helper] \in {"vnet", "uif", "detach"}
  /\ pc[App] \in {"insert", "uif", "detach", "linked", "listed"}

Crashed == \E t \in Walkers : pc[t] = "crash"

\* No step follows a crash.  The others are counted if they begin an operation,
\* and the history variables note them.
Running ==
  /\ ~Crashed
  /\ ops' = IF pc[App] = "idle" /\ pc'[App] # "idle" THEN ops + 1 ELSE ops
  /\ ops' <= MaxOps
  /\ due' = IF ~Called /\ Called' THEN {u \in Ifs : uif_mem[u] \in {"attached", "detaching"}}
            ELSE due
  /\ overlapped' = (overlapped \/ Overlap')

CallNext == \E c \in Callers :
  \/ MsgSend(c) \/ RspWait(c) \/ RspWaitInterrupted(c)
HelperNext ==
  \/ MsgWait \/ TryLockSucceeds \/ TryLockFails \/ WithoutLock \/ VisitVnet
  \/ NextVnet \/ ShutdownDone \/ RspSend
  \/ DestroyBegins(Helper) \/ DestroyWaits(Helper) \/ DestroyEnds(Helper)
AppCompletes ==
  \/ SetFlagsWakes
  \/ IfCreateEnds \/ IfInsert \/ AppDestroyed \/ VnetLink \/ VnetUnlock \/ InstanceInit
  \/ VnetDestroyLocks \/ DestroyBegins(App) \/ DestroyWaits(App) \/ DestroyEnds(App)
AppNext ==
  \/ AppCompletes
  \/ IfCreateBegins \/ SetFlags
  \/ \E u \in Ifs : IfDestroy(u) \/ \E i \in Instances : IfCreate(u, i)
  \/ \E i \in Instances : InstanceDestroy(i) \/ VnetAlloc(i)
\* The interface's threads and their surroundings.
Injected == TxInjected /\ UNCHANGED own
DriverNext == (RxNext \/ TxNext \/ SpuriousWakeup \/ TicksPass) /\ UNCHANGED own

ShutdownNext == (CallNext \/ HelperNext \/ AppNext \/ DriverNext \/ Injected) /\ Running

\* Every thread that can run does, a wait for the lock ends once the lock is
\* free again and again, reads return once there is something to read, and
\* the driver's threads are scheduled as RxThread says.
ShutdownFairness ==
  /\ WF_allvars(HelperNext /\ Running)
  /\ WF_allvars(AppCompletes /\ Running)
  /\ \A c \in Callers : WF_allvars(RspWait(c) /\ Running)
  /\ WF_allvars(RxNext /\ UNCHANGED own /\ Running)
  /\ WF_allvars(TxNext /\ UNCHANGED own /\ Running)
  /\ SF_allvars(det = "stopwait" /\ RxTimesOut /\ UNCHANGED own /\ Running)
  /\ WF_allvars(TicksPass /\ UNCHANGED own /\ Running)

ShutdownSpec == ShutdownInit /\ [][ShutdownNext]_allvars /\ ShutdownFairness

----------------------------------------------------------------------------
(* Properties *)

ShutdownTypeOK ==
  /\ msgs \in Nat /\ rsps \in Nat
  /\ call \in [Callers -> CallPlaces]
  /\ vnet_lock \in {Nil, App, Helper}
  /\ inst \in [Instances -> {"none", "nouinet", "live", "freed"}]
  /\ uif_mem \in [Ifs -> {"none", "attached", "detaching", "freed"}]
  /\ pc \in [Walkers -> Places]
  /\ lock_attempts \in 0..LockAttempts
  /\ shutdown_complete \in BOOLEAN
  /\ due \subseteq Ifs /\ overlapped \in BOOLEAN

\* No answer goes missing: whoever waits in uinet_shutdown is matched by a
\* message not yet read, an answer not yet taken, or the helper at work on a
\* message.  This is why handlers that share one channel and take each
\* other's answers all return.
Waiting == {c \in Callers : call[c] = "wait"}
HelperBusy == IF pc[Helper] = "msgwait" THEN 0 ELSE 1
NoAnswerMissing == Cardinality(Waiting) <= msgs + rsps + HelperBusy

\* uinet_shutdown comes back with an answer only after every interface there
\* was when it was first called is detached, off its list and freed and its
\* threads have ended, though the answer may be another caller's and whatever
\* the application creates and destroys meanwhile.  (An interface that is
\* being created may come up later; nobody takes it down.)
ReturnMeansDown ==
  (\E c \in Callers : call[c] = "returned") => \A u \in due :
    /\ uif_mem[u] = "freed"
    /\ \A i \in Instances : ~Has(uinet_if_list[i], u)
    /\ u = Watched => rx = "exited" /\ tx = "exited"

\* What the lists hold is alive, and a walk over the instances' interfaces
\* never finds anything else: an interface that the other walk destroys or has
\* freed, or an instance without its uinet, is met only if the application
\* changes interfaces or instances while the helper walks.
ListsHoldLive ==
  /\ ShutdownTypeOK
  /\ \A i \in Instances : \A k \in DOMAIN uinet_if_list[i] :
       uif_mem[uinet_if_list[i][k]] \in {"attached", "detaching"}
  /\ Crashed => overlapped

\* A call of uinet_shutdown results in a shutdown, also from a signal handler
\* and whatever the other threads are doing: the helper gets through the vnet
\* list while another thread creates or destroys an instance.
HelperSurvives == pc[Helper] # "crash"

\* A thread of an interface that is up goes on receiving, after however many
\* downs and ups, until the interface is taken down or detached.
UpReceives ==
  (drv_running /\ ctl = "idle" /\ ~RxDisabled)
    ~> (rx = "receive" \/ ctl # "idle" \/ det # "off" \/ Crashed)

\* Taking the interface down returns, if the receive thread has left its wait
\* by then.  A down that follows an up so closely that the thread has not yet
\* woken is answered by nobody, since the wait loop only looks for state 1.
DownReturns ==
  (ctl \in {"downwait", "downwoken"} /\ rx \in {"receive", "check", "lock"})
    ~> (ctl = "idle" \/ det # "off" \/ Crashed)

\* From some time on nobody injects packets, so that the transmit thread gets
\* to its time-out.
InjectionsCease == <>[][~Injected]_allvars



=============================================================================

------------------------------ MODULE Ithread -------------------------------
(***************************************************************************)
(* Software interrupts as uinet_kern_intr.c implements them with a host    *)
(* thread: an event with its list of handlers, the interrupt thread that   *)
(* runs the handlers that need it, and the threads that add handlers       *)
(* (swi_add), schedule them (swi_sched) and remove them (swi_remove).      *)
(* netisr and the taskqueues are built on it.                              *)
(*                                                                         *)
(* mtx of Synch is ie_lock.  The thread lock of the interrupt thread is    *)
(* never held across a wait other than its own cv_wait, so its critical    *)
(* sections are single steps.  ithread_create starts the thread at once,   *)
(* with an event of its own in it_event that intr_event_add_handler        *)
(* replaces later: whether the thread sees the right one is a race.        *)
(***************************************************************************)
EXTENDS Synch, TailQ

CONSTANTS
  Handlers,  \* struct intr_handler
  Pri,       \* ih_pri of each
  Removable, \* those that swi_remove may be called for
  Owner, Users, \* who adds each handler, and who schedules and removes it
  Event      \* the channel that is the event itself

ASSUME IthreadAssumption ==
  /\ Chans = Handlers \cup {Event} /\ Event \notin Handlers
  /\ Pri \in [Handlers -> Nat]
  /\ Removable \subseteq Handlers
  /\ Owner \in [Handlers -> Sleepers]
  /\ Users \in [Handlers -> SUBSET Sleepers]

VARIABLES
  ie_handlers, \* the event's list
  mem,         \* what the memory behind each handler is
  cookie,      \* handlers that swi_add has returned
  ih_need, ih_dead, \* the handlers' need counter and IH_DEAD
  ie_adding,   \* IE_ADDING_THREAD
  ie_thread,   \* whether the event has its thread
  threads,     \* how many threads were created
  it_event,    \* which event ithd->it_event points to
  it_need,     \* ithd->it_need
  iwait,       \* TDI_IWAIT of the interrupt thread
  ipc,         \* where the interrupt thread is
  seen,        \* its local variable ie
  cur, nxt,    \* its cursors in the handler list, Nil when dead
  pc, op,      \* where each caller is, and the handler it is busy with, if any
  asleep       \* handlers removed while IWAIT was set (history)

event == <<ie_handlers, mem, cookie, ih_need, ih_dead, ie_adding, ie_thread>>
ithread == <<threads, it_event, it_need, iwait, ipc, seen, cur, nxt>>
callers == <<pc, op, asleep>>
vars == <<synchvars, event, ithread, callers>>

\* outside; in intr_event_add_handler's loop with the lock, about to create
\* the thread, about to install it; in swi_sched before it_need, before the
\* thread lock; in intr_event_remove_handler's loop with the lock.
Places == {"idle", "add", "create", "install", "sched", "signal", "remove"}
\* not created, before its first line, at the test of it_need, before a
\* handler, before the lock that it takes to reap one, in one, before the
\* thread lock, in cv_wait, back from it, at freed memory.
IPlaces == {"none", "start", "check", "exec", "reap", "run", "lock", "wait", "woken", "crash"}

Init ==
  /\ SynchInit
  /\ ie_handlers = <<>>
  /\ mem = [h \in Handlers |-> "none"]
  /\ cookie = {}
  /\ ih_need = [h \in Handlers |-> FALSE]
  /\ ih_dead = [h \in Handlers |-> FALSE]
  /\ ie_adding = FALSE /\ ie_thread = FALSE
  /\ threads = 0 /\ it_event = "own" /\ it_need = FALSE /\ iwait = FALSE
  /\ ipc = "none" /\ seen = "none" /\ cur = Nil /\ nxt = Nil
  /\ pc = [p \in Sleepers |-> "idle"]
  /\ op = [p \in Sleepers |-> Nil]
  /\ asleep = {}

First(s) == IF s = <<>> THEN Nil ELSE Head(s)
After(s, x) == IF PlaceOf(s, x) = Len(s) THEN Nil ELSE s[PlaceOf(s, x) + 1]
GoTo(p, place) == pc' = [pc EXCEPT ![p] = place]
Returns(p) == GoTo(p, "idle") /\ op' = [op EXCEPT ![p] = Nil]

----------------------------------------------------------------------------
(* intr_event_add_handler *)

\* The new handler goes before the first one of higher priority value, or to
\* the end.
GoesAt(h, k) ==
  /\ \A i \in 1 .. k - 1 : Pri[ie_handlers[i]] <= Pri[h]
  /\ k <= Len(ie_handlers) => Pri[ie_handlers[k]] > Pri[h]

\* No caller in the library asks for INTR_EXCL.
AddHandler(p, h) ==
  /\ pc[p] = "idle" /\ p = Owner[h] /\ mem[h] = "none" /\ mtx = Nil
  /\ mtx' = p
  /\ mem' = [mem EXCEPT ![h] = "live"]
  /\ \E k \in 1 .. Len(ie_handlers) + 1 :
       GoesAt(h, k) /\ ie_handlers' = InsertAt(ie_handlers, k, h)
  /\ GoTo(p, "add")
  /\ op' = [op EXCEPT ![p] = h]
  /\ UNCHANGED <<se_active, waiters, se, spc, cookie, ih_need, ih_dead, ie_adding,
                 ie_thread, ithread, asleep>>

\* The head of the loop "create a thread if we need one", with the lock.
AtAddLoop(p) == pc[p] = "add" /\ spc[p] = "awake"

\* Another thread is at it.
AddSleeps(p) ==
  /\ AtAddLoop(p) /\ ~ie_thread /\ ie_adding
  /\ SleepEnters(p, Event)
  /\ UNCHANGED <<event, ithread, callers>>

\* Mutant: the flag is not set.
AddingForgotten == FALSE

AddingNow == TRUE

AddUnlocks(p) ==
  /\ AtAddLoop(p) /\ ~ie_thread /\ ~ie_adding
  /\ ie_adding' = AddingNow
  /\ mtx' = Nil
  /\ GoTo(p, "create")
  /\ UNCHANGED <<se_active, waiters, se, spc, ie_handlers, mem, cookie, ih_need, ih_dead,
                 ie_thread, ithread, op, asleep>>

\* ithread_create: "RFSTOPPED is not honored and threads are started right
\* away".
IthreadCreate(p) ==
  /\ pc[p] = "create"
  /\ threads' = threads + 1
  /\ ipc' = "start"
  /\ GoTo(p, "install")
  /\ UNCHANGED <<synchvars, event, it_event, it_need, iwait, seen, cur, nxt, op, asleep>>

\* Mutant: those that wait are not woken.
NobodyWoken == spc

AddersWoken == Wakeup(Event)

AddInstalls(p) ==
  /\ pc[p] = "install" /\ mtx = Nil
  /\ mtx' = p
  /\ ie_adding' = FALSE
  /\ ie_thread' = TRUE
  /\ it_event' = "event"
  /\ spc' = AddersWoken
  /\ GoTo(p, "add")
  /\ UNCHANGED <<se_active, waiters, se, ie_handlers, mem, cookie, ih_need, ih_dead,
                 threads, it_need, iwait, ipc, seen, cur, nxt, op, asleep>>

\* *cookiep
CookieOf(p) == op[p]

AddReturns(p) ==
  /\ AtAddLoop(p) /\ ie_thread
  /\ mtx' = Nil
  /\ cookie' = cookie \cup {CookieOf(p)}
  /\ Returns(p)
  /\ UNCHANGED <<se_active, waiters, se, spc, ie_handlers, mem, ih_need, ih_dead, ie_adding,
                 ie_thread, ithread, asleep>>

----------------------------------------------------------------------------
(* swi_sched, by callers that see to it that the handler is not removed *)

Sched(p, h) ==
  /\ pc[p] = "idle" /\ p \in Users[h] /\ h \in cookie
  /\ ih_need' = [ih_need EXCEPT ![h] = TRUE]
  /\ GoTo(p, "sched")
  /\ op' = [op EXCEPT ![p] = h]
  /\ UNCHANGED <<synchvars, ie_handlers, mem, cookie, ih_dead, ie_adding, ie_thread,
                 ithread, asleep>>

\* intr_event_schedule_thread; it has a thread and a handler by now.
SchedNeeds(p) ==
  /\ pc[p] = "sched"
  /\ it_need' = TRUE
  /\ GoTo(p, "signal")
  /\ UNCHANGED <<synchvars, event, threads, it_event, iwait, ipc, seen, cur, nxt, op, asleep>>

\* Mutant: IWAIT is cleared and nothing signalled.
SignalForgotten == ipc

\* Where the interrupt thread is after cv_signal.
Signalled == IF iwait /\ ipc = "wait" THEN "woken" ELSE ipc

SchedSignals(p) ==
  /\ pc[p] = "signal"
  /\ iwait' = FALSE
  /\ ipc' = Signalled
  /\ Returns(p)
  /\ UNCHANGED <<synchvars, event, threads, it_event, it_need, seen, cur, nxt, asleep>>

----------------------------------------------------------------------------
(* swi_remove: intr_event_remove_handler *)

\* If IWAIT is set the handler is neither marked nor taken off the list.
RemoveHandler(p, h) ==
  /\ pc[p] = "idle" /\ p \in Users[h] /\ h \in cookie \cap Removable /\ mtx = Nil
  /\ \A q \in Sleepers : pc[q] \in {"sched", "signal"} => op[q] # h
  /\ mtx' = p
  /\ cookie' = cookie \ {h}
  /\ IF iwait
       THEN asleep' = asleep \cup {h} /\ UNCHANGED <<ih_dead, it_need>>
       ELSE /\ ih_dead' = [ih_dead EXCEPT ![h] = TRUE]
            /\ it_need' = TRUE
            /\ UNCHANGED asleep
  /\ GoTo(p, "remove")
  /\ op' = [op EXCEPT ![p] = h]
  /\ UNCHANGED <<se_active, waiters, se, spc, ie_handlers, mem, ih_need, ie_adding, ie_thread,
                 threads, it_event, iwait, ipc, seen, cur, nxt>>

AtRemoveLoop(p) == pc[p] = "remove" /\ spc[p] = "awake"

RemoveSleeps(p) ==
  /\ AtRemoveLoop(p) /\ ih_dead[op[p]]
  /\ SleepEnters(p, op[p])
  /\ UNCHANGED <<event, ithread, callers>>

\* Mutant: the handler is freed without waiting for the interrupt thread.
RemovedAtOnce(p) == TRUE

\* The loop "while (handler->ih_flags & IH_DEAD)" is over.
Removed(p) == ~ih_dead[op[p]]

RemoveFrees(p) ==
  /\ AtRemoveLoop(p) /\ Removed(p)
  /\ mtx' = Nil
  /\ mem' = [mem EXCEPT ![op[p]] = "freed"]
  /\ Returns(p)
  /\ UNCHANGED <<se_active, waiters, se, spc, ie_handlers, cookie, ih_need, ih_dead, ie_adding,
                 ie_thread, ithread, asleep>>

----------------------------------------------------------------------------
(* ithread_loop *)

IStart ==
  /\ ipc = "start"
  /\ seen' = it_event
  /\ ipc' = "check"
  /\ UNCHANGED <<synchvars, event, threads, it_event, it_need, iwait, cur, nxt, callers>>

\* The event that ithread_create made has no handlers.
HandlersSeen == IF seen = "event" THEN ie_handlers ELSE <<>>

\* it_need is read and cleared in one step, and what the thread that set it wrote
\* before is seen after: the model is sequentially consistent.  The code has no
\* barrier here and a comment that one may be needed.
ICheck ==
  /\ ipc = "check"
  /\ it_need' = FALSE
  /\ IF it_need
       THEN cur' = First(HandlersSeen) /\ ipc' = "exec"
       ELSE ipc' = "lock" /\ UNCHANGED cur
  /\ UNCHANGED <<synchvars, event, threads, it_event, iwait, seen, nxt, callers>>

\* intr_event_execute_handlers, one round of its loop, and its end.
IExec ==
  /\ ipc = "exec"
  /\ IF cur = Nil
       THEN ipc' = "check" /\ UNCHANGED <<ih_need, cur, nxt>>
     ELSE IF mem[cur] # "live"
       THEN ipc' = "crash" /\ UNCHANGED <<ih_need, cur, nxt>>
     ELSE IF ih_dead[cur]
       THEN ipc' = "reap" /\ nxt' = After(ie_handlers, cur) /\ UNCHANGED <<ih_need, cur>>
     ELSE IF ih_need[cur]
       THEN /\ ih_need' = [ih_need EXCEPT ![cur] = FALSE]
            /\ ipc' = "run" /\ nxt' = After(ie_handlers, cur) /\ UNCHANGED cur
     ELSE cur' = After(ie_handlers, cur) /\ UNCHANGED <<ih_need, ipc, nxt>>
  /\ UNCHANGED <<synchvars, ie_handlers, mem, cookie, ih_dead, ie_adding, ie_thread,
                 threads, it_event, it_need, iwait, seen, callers>>

RemoverWoken == Wakeup(cur)

\* The handler is marked for death: off the list, and its remover is woken.
IReap ==
  /\ ipc = "reap" /\ mtx = Nil
  /\ ie_handlers' = Without(ie_handlers, cur)
  /\ ih_dead' = [ih_dead EXCEPT ![cur] = FALSE]
  /\ spc' = RemoverWoken
  /\ cur' = nxt /\ nxt' = Nil
  /\ ipc' = "exec"
  /\ UNCHANGED <<se_active, waiters, se, mtx, mem, cookie, ih_need, ie_adding, ie_thread,
                 threads, it_event, it_need, iwait, seen, callers>>

\* ih_handler(ih_argument) returns.
IRun ==
  /\ ipc = "run"
  /\ cur' = nxt /\ nxt' = Nil
  /\ ipc' = "exec"
  /\ UNCHANGED <<synchvars, event, threads, it_event, it_need, iwait, seen, callers>>

\* Mutant: the thread sleeps without another look at it_need.
MaySleepAnyway == TRUE

MaySleep == ~it_need

\* thread_lock, the second test, and cv_wait.
ILock ==
  /\ ipc = "lock"
  /\ iwait' = IF MaySleep THEN TRUE ELSE iwait
  /\ ipc' = IF MaySleep THEN "wait" ELSE "check"
  /\ UNCHANGED <<synchvars, event, threads, it_event, it_need, seen, cur, nxt, callers>>

\* cv_wait returns.
IWoken ==
  /\ ipc = "woken"
  /\ ipc' = "check"
  /\ UNCHANGED <<synchvars, event, threads, it_event, it_need, iwait, seen, cur, nxt, callers>>

\* pthread_cond_wait returns by itself; IWAIT stays set.
ISpurious ==
  /\ ipc = "wait"
  /\ ipc' = "woken"
  /\ UNCHANGED <<synchvars, event, threads, it_event, it_need, iwait, seen, cur, nxt, callers>>

----------------------------------------------------------------------------
Sleeping(p) ==
  (CvWaits(p) \/ Relocks(p) \/ SleepLeaves(p)) /\ UNCHANGED <<event, ithread, callers>>
\* What a caller goes on with once it has begun.
Continues(p) ==
  \/ AddSleeps(p) \/ AddUnlocks(p) \/ IthreadCreate(p) \/ AddInstalls(p) \/ AddReturns(p)
  \/ SchedNeeds(p) \/ SchedSignals(p)
  \/ RemoveSleeps(p) \/ RemoveFrees(p) \/ Sleeping(p)
Begins(p) == \E h \in Handlers : AddHandler(p, h) \/ Sched(p, h) \/ RemoveHandler(p, h)
IthreadNext == IStart \/ ICheck \/ IExec \/ IReap \/ IRun \/ ILock \/ IWoken
Spurious ==
  \/ ISpurious
  \/ \E p \in Sleepers : SpuriousWakeup(p) /\ UNCHANGED <<event, ithread, callers>>

Next ==
  \/ \E p \in Sleepers : Begins(p) \/ Continues(p)
  \/ IthreadNext \/ Spurious

\* The host runs every thread that is not blocked, and a thread gets a mutex
\* that becomes free again and again.
Fairness ==
  /\ \A p \in Sleepers : SF_vars(Continues(p))
  /\ SF_vars(IthreadNext)

Spec == Init /\ [][Next]_vars
FairSpec == Spec /\ Fairness

----------------------------------------------------------------------------
(* Properties *)

\* Every variable has its type.
TypeOK ==
  /\ spc \in [Sleepers -> SleepPlaces] /\ mtx \in Sleepers \cup {Nil}
  /\ mem \in [Handlers -> {"none", "live", "freed"}]
  /\ cookie \subseteq Handlers
  /\ ih_need \in [Handlers -> BOOLEAN] /\ ih_dead \in [Handlers -> BOOLEAN]
  /\ ie_adding \in BOOLEAN /\ ie_thread \in BOOLEAN
  /\ it_event \in {"own", "event"} /\ seen \in {"none", "own", "event"}
  /\ it_need \in BOOLEAN /\ iwait \in BOOLEAN /\ ipc \in IPlaces
  /\ cur \in Handlers \cup {Nil} /\ nxt \in Handlers \cup {Nil}
  /\ pc \in [Sleepers -> Places] /\ op \in [Sleepers -> Handlers \cup {Nil}]

\* However many threads add handlers at once, one of them creates the event's
\* thread and the others wait for it.
OneThread == threads <= 1

\* The interrupt thread never sleeps on work: if it waits and nobody has
\* signalled it, it_need is clear or whoever set it is about to signal.
WorkIsSignalled ==
  ipc = "wait" /\ it_need =>
    \E p \in Sleepers : pc[p] = "signal"

\* swi_remove frees no handler that the interrupt thread still has on its list
\* or under its cursor, unless it was called while IWAIT was set.
FreedIsOffList ==
  /\ TypeOK
  /\ \A k \in DOMAIN ie_handlers :
       mem[ie_handlers[k]] = "live" \/ ie_handlers[k] \in asleep
  /\ ipc \in {"exec", "reap", "run"} /\ cur # Nil => mem[cur] = "live" \/ cur \in asleep
  /\ ipc = "crash" => asleep # {}

Astray == seen = "own" \/ ipc = "crash"

\* What swi_sched asked for is done, if the interrupt thread found its event:
\* "it will execute this handler on the next pass.  Otherwise, it will execute
\* it the next time it runs."
ScheduledRuns == \A h \in Handlers :
  ih_need[h] ~> (~ih_need[h] \/ mem[h] = "freed" \/ Astray)

\* swi_add, swi_sched and swi_remove return, on the same condition.
CallsReturn == \A p \in Sleepers : (pc[p] # "idle") ~> (pc[p] = "idle" \/ Astray)

\* What swi_sched's comment says, without the condition.
SwiRuns == \A h \in Handlers : ih_need[h] ~> ~ih_need[h]
=============================================================================

------------------------------- MODULE Callout -------------------------------
(***************************************************************************)
(* Kernel timers: the timing wheel of uinet_kern_timeout.c.                *)
(*                                                                         *)
(* The clock thread (timer_intr) advances ticks and walks the wheel        *)
(* (callout_tick, softclock); it drops cc_lock to take a callout's own     *)
(* lock and to run its handler.  Other threads, and the handlers           *)
(* themselves, call callout_reset, callout_stop and callout_drain          *)
(* meanwhile.  They hold c_lock when they stop or reset a callout that has *)
(* one, as _callout_stop_safe asserts.                                     *)
(*                                                                         *)
(* cc_lock protects the wheel.  A client's critical section is one action; *)
(* the clock thread's is a sequence of steps with cc_lock held.            *)
(* The module is about one CPU, which is what ncpus is by default.  The    *)
(* build defines SMP and has a callout_cpu for each CPU that is configured *)
(* beyond it; callout_tick ticks that of the clock thread alone, and a     *)
(* callout that callout_reset_on moves to another CPU stays on a wheel     *)
(* that nobody walks.  Neither those wheels nor the move are modelled.     *)
(* Not modelled either: CALLOUT_ACTIVE, which only callers look at;        *)
(* cc_waiting, which the code reads but never sets, so that the branches   *)
(* testing it are dead.                                                    *)
(***************************************************************************)
EXTENDS Integers, TailQ

CONSTANTS
    Timer,       \* callout structures
    Client,      \* threads other than the clock thread
    OldClient,   \* those that use the timeout() interface
    Lock,        \* the mutexes callouts are tied to
    c_lock,      \* [Timer -> Lock or Null], from callout_init and callout_init_mtx
    Null,        \* the NULL pointer; also: no thread holds the lock
    Clock,       \* the clock thread
    WheelSize,   \* callwheelsize
    TickMod,     \* ticks is an int that wraps around at this value
    MaxTo,       \* bound: the largest to_ticks
    MaxSteps     \* MAX_SOFTCLOCK_STEPS

ASSUME CalloutAssumption ==
    /\ c_lock \in [Timer -> Lock \cup {Null}]
    /\ Null \notin Timer \cup Client \cup Lock \cup {Clock}
    /\ Clock \notin Client
    /\ OldClient \subseteq Client
    /\ WheelSize \in Nat \ {0} /\ MaxTo \in Nat \ {0} /\ MaxSteps \in Nat \ {0}
    /\ TickMod \in Nat \ {0} /\ TickMod % (2 * WheelSize) = 0
    /\ 2 * (MaxTo + 1) < TickMod

VARIABLES
    ticks, cc_softticks,      \* time, and how far the wheel has been walked
    cc_callwheel,             \* bucket -> sequence of callouts
    c_time, pending,          \* c->c_time; CALLOUT_PENDING in c->c_flags
    cc_lock,                  \* who holds cc_lock
    cc_curr, cc_cancel, cc_next,
    tpc, curticks, c, steps,  \* the clock thread: where it is, and its locals
    owner,                    \* who holds each c_lock
    pc,                       \* the clients: "idle", or stuck in a call
    owed                      \* runs a callout was scheduled for and that neither
                              \* happened nor were cancelled

wheelVars == <<cc_callwheel, c_time, pending>>
clockVars == <<ticks, cc_softticks, tpc, curticks, c, steps>>
vars == <<wheelVars, clockVars, cc_lock, cc_curr, cc_cancel, cc_next, owner, pc, owed>>

Actor == Client \cup {Clock}
Bucket == 0 .. WheelSize - 1
Tick == 0 .. TickMod - 1

\* The difference of two int tick counts, which may have wrapped around.
Diff(a, b) == ((a - b + TickMod \div 2) % TickMod) - TickMod \div 2
TickAfter(a, n) == (a + n) % TickMod
BucketOf(t) == t % WheelSize

\* TAILQ_FIRST, TAILQ_NEXT
First(q) == IF q = <<>> THEN Null ELSE q[1]
NextIn(q, x) ==
    IF \E k \in 1 .. Len(q) - 1 : q[k] = x
    THEN q[(CHOOSE k \in 1 .. Len(q) - 1 : q[k] = x) + 1]
    ELSE Null

\* kern_timeout_callwheel_init, and callouts initialised but not scheduled.
Init ==
    /\ ticks = 0 /\ cc_softticks = 0
    /\ cc_callwheel = [b \in Bucket |-> <<>>]
    /\ c_time = [x \in Timer |-> 0]
    /\ pending = [x \in Timer |-> FALSE]
    /\ cc_lock = Null
    /\ cc_curr = Null /\ cc_cancel = FALSE /\ cc_next = Null
    /\ tpc = "sleep" /\ curticks = 0 /\ c = Null /\ steps = 0
    /\ owner = [l \in Lock |-> Null]
    /\ pc = [t \in Client |-> "idle"]
    /\ owed = [x \in Timer |-> 0]

-----------------------------------------------------------------------------
(* The clock thread *)

\* timer_intr: uinet_hardclock counts the tick.
Hardclock ==
    /\ tpc = "sleep"
    /\ ticks' = TickAfter(ticks, 1)
    /\ tpc' = "tick"
    /\ UNCHANGED <<wheelVars, cc_softticks, curticks, c, steps, cc_lock, cc_curr,
                   cc_cancel, cc_next, owner, pc, owed>>

\* Mutant: one bucket is passed over without a look.
EmptyBucketsToSkipOneTooMany ==
    LET n == Diff(ticks, cc_softticks)
        At(k) == cc_callwheel[BucketOf(TickAfter(cc_softticks, k))]
    IN  CHOOSE k \in 0 .. n : /\ k = n \/ (k > 0 /\ At(k) # <<>>)
                              /\ \A j \in 0 .. k - 1 : At(j) = <<>> \/ j = 0

\* How many empty buckets callout_tick steps over.
EmptyBucketsToSkip ==
    LET n == Diff(ticks, cc_softticks)
        At(k) == cc_callwheel[BucketOf(TickAfter(cc_softticks, k))]
    IN  CHOOSE k \in 0 .. n : /\ k = n \/ At(k) # <<>>
                              /\ \A j \in 0 .. k - 1 : At(j) = <<>>

CalloutTick ==
    /\ tpc = "tick" /\ cc_lock = Null
    /\ cc_softticks' = TickAfter(cc_softticks, EmptyBucketsToSkip)
    /\ tpc' = IF cc_softticks' = ticks THEN "sleep" ELSE "softclock"
    /\ UNCHANGED <<wheelVars, ticks, curticks, c, steps, cc_lock, cc_curr,
                   cc_cancel, cc_next, owner, pc, owed>>

\* softclock begins: cc_lock was free in between.
SoftclockEnter ==
    /\ tpc = "softclock" /\ cc_lock = Null
    /\ cc_lock' = Clock
    /\ steps' = 0
    /\ tpc' = "bucket"
    /\ UNCHANGED <<wheelVars, ticks, cc_softticks, curticks, c, cc_curr, cc_cancel,
                   cc_next, owner, pc, owed>>

\* The outer loop: the next bucket, or the end.
NextBucket ==
    /\ tpc = "bucket"
    /\ IF cc_softticks # ticks
       THEN /\ curticks' = cc_softticks
            /\ cc_softticks' = TickAfter(cc_softticks, 1)
            /\ c' = First(cc_callwheel[BucketOf(cc_softticks)])
            /\ tpc' = "walk"
            /\ UNCHANGED <<cc_next, cc_lock>>
       ELSE /\ cc_next' = Null /\ cc_lock' = Null
            /\ tpc' = "sleep"
            /\ UNCHANGED <<curticks, cc_softticks, c>>
    /\ UNCHANGED <<wheelVars, ticks, steps, cc_curr, cc_cancel, owner, pc, owed>>

BucketDone ==
    /\ tpc = "walk" /\ c = Null
    /\ tpc' = "bucket"
    /\ UNCHANGED <<wheelVars, ticks, cc_softticks, curticks, c, steps, cc_lock,
                   cc_curr, cc_cancel, cc_next, owner, pc, owed>>

Successor == NextIn(cc_callwheel[BucketOf(curticks)], c)

\* A callout of a later turn of the wheel: go on, and after MaxSteps of them let
\* others have the lock for a moment.
NotDue ==
    /\ tpc = "walk" /\ c # Null /\ c_time[c] # curticks
    /\ c' = Successor
    /\ IF steps + 1 >= MaxSteps
       THEN cc_next' = Successor /\ cc_lock' = Null /\ tpc' = "relock" /\ steps' = 0
       ELSE UNCHANGED <<cc_next, cc_lock, tpc>> /\ steps' = steps + 1
    /\ UNCHANGED <<wheelVars, ticks, cc_softticks, curticks, cc_curr, cc_cancel,
                   owner, pc, owed>>

\* Where the walk resumes once the lock has been dropped.
ResumeAt == cc_next

Relock ==
    /\ tpc = "relock" /\ cc_lock = Null
    /\ cc_lock' = Clock
    /\ c' = ResumeAt
    /\ tpc' = "walk"
    /\ UNCHANGED <<wheelVars, ticks, cc_softticks, curticks, steps, cc_curr,
                   cc_cancel, cc_next, owner, pc, owed>>

\* A callout is due: it leaves the wheel and becomes the current one.
Due ==
    /\ tpc = "walk" /\ c # Null /\ c_time[c] = curticks
    /\ cc_next' = Successor
    /\ cc_callwheel' = [cc_callwheel EXCEPT ![BucketOf(curticks)] = Without(@, c)]
    /\ pending' = [pending EXCEPT ![c] = FALSE]
    /\ cc_curr' = c
    /\ cc_cancel' = FALSE
    /\ cc_lock' = Null
    /\ tpc' = "switch"
    /\ UNCHANGED <<ticks, cc_softticks, curticks, c, steps, c_time, owner, pc, owed>>

\* A callout without a lock runs at once; nobody can cancel it any more.
SwitchNoLock ==
    /\ tpc = "switch" /\ c_lock[c] = Null
    /\ owed' = [owed EXCEPT ![c] = @ - 1]
    /\ tpc' = "handler"
    /\ UNCHANGED <<wheelVars, ticks, cc_softticks, curticks, c, steps, cc_lock,
                   cc_curr, cc_cancel, cc_next, owner, pc>>

\* The test of cc_cancel made with c_lock held.
NotCancelled == ~cc_cancel

\* lc_lock(c_lock): either the callout was cancelled while the locks were
\* switched, or from here on it cannot be stopped.
SwitchLock ==
    /\ tpc = "switch" /\ c_lock[c] # Null
    /\ owner[c_lock[c]] = Null
    /\ IF NotCancelled
       THEN /\ owner' = [owner EXCEPT ![c_lock[c]] = Clock]
            /\ cc_cancel' = TRUE
            /\ owed' = [owed EXCEPT ![c] = @ - 1]
            /\ tpc' = "handler"
       ELSE tpc' = "skip" /\ UNCHANGED <<owner, cc_cancel, owed>>
    /\ UNCHANGED <<wheelVars, ticks, cc_softticks, curticks, c, steps, cc_lock,
                   cc_curr, cc_next, pc>>

\* Mutant: nobody gives the lock back.
OwnerAfterHandlerKept == owner

OwnerAfterHandler ==
    IF c_lock[c] = Null THEN owner ELSE [owner EXCEPT ![c_lock[c]] = Null]

\* c_func(c_arg) has returned, and c_lock is released (by the handler itself if
\* CALLOUT_RETURNUNLOCKED).
HandlerReturns ==
    /\ tpc = "handler"
    /\ tpc' = "skip"
    /\ owner' = OwnerAfterHandler
    /\ UNCHANGED <<wheelVars, ticks, cc_softticks, curticks, c, steps, cc_lock,
                   cc_curr, cc_cancel, cc_next, pc, owed>>

\* The label skip: the walk goes on with the callout that cc_next names now.
Skip ==
    /\ tpc = "skip" /\ cc_lock = Null
    /\ cc_lock' = Clock
    /\ cc_curr' = Null
    /\ steps' = 0
    /\ c' = ResumeAt
    /\ tpc' = "walk"
    /\ UNCHANGED <<wheelVars, ticks, cc_softticks, curticks, cc_cancel, cc_next,
                   owner, pc, owed>>

-----------------------------------------------------------------------------
(* callout_reset, callout_stop, callout_drain *)

\* A thread that may work on callout x now: it holds x's lock, if there is one,
\* and cc_lock is free.  The clock thread calls from inside a handler.
MayCall(a, x) ==
    /\ cc_lock = Null
    /\ c_lock[x] # Null => owner[c_lock[x]] = a
    /\ IF a = Clock THEN tpc = "handler" ELSE pc[a] = "idle"

\* Mutant: the walk keeps a pointer to a callout that was taken off the wheel.
NextWithoutKept(x) == cc_next

\* cc_next moves past a callout that leaves the wheel.
NextWithout(x) ==
    IF cc_next = x THEN NextIn(cc_callwheel[BucketOf(c_time[x])], x) ELSE cc_next

\* Mutant: the callout stays linked where it was.
WheelKept(x) == cc_callwheel

\* The wheel without x.
WheelWithout(x) ==
    IF pending[x]
    THEN [cc_callwheel EXCEPT ![BucketOf(c_time[x])] = Without(@, x)]
    ELSE cc_callwheel

\* Mutant: the running callout is not told.
CancelNothing(x) == cc_cancel

\* A callout that waits for the lock the caller holds is cancelled.
CancelIfWaiting(x) == cc_cancel \/ (cc_curr = x /\ c_lock[x] # Null)

Deadline(to) == TickAfter(ticks, to)

\* callout_reset_on, for the CPU the callout is on.  An earlier schedule is
\* replaced.
Reset(a, x, to) ==
    /\ MayCall(a, x)
    /\ cc_cancel' = CancelIfWaiting(x)
    /\ cc_next' = IF pending[x] THEN NextWithout(x) ELSE cc_next
    /\ c_time' = [c_time EXCEPT ![x] = Deadline(to)]
    /\ pending' = [pending EXCEPT ![x] = TRUE]
    /\ cc_callwheel' = [WheelWithout(x) EXCEPT ![BucketOf(Deadline(to))] = Append(@, x)]
    /\ owed' = [owed EXCEPT ![x] = IF c_lock[x] # Null THEN 1
                                   ELSE IF pending[x] THEN @ ELSE @ + 1]
    /\ UNCHANGED <<clockVars, cc_lock, cc_curr, owner, pc>>

\* callout_stop on a scheduled callout: off the wheel.  An earlier run of the
\* same callout that waits for the lock is left alone.
StopPending(a, x) ==
    /\ MayCall(a, x)
    /\ pending[x]
    /\ cc_next' = NextWithout(x)
    /\ cc_callwheel' = WheelWithout(x)
    /\ pending' = [pending EXCEPT ![x] = FALSE]
    /\ owed' = [owed EXCEPT ![x] = @ - 1]
    /\ UNCHANGED <<clockVars, c_time, cc_lock, cc_curr, cc_cancel, owner, pc>>

\* callout_stop otherwise: the current run is cancelled if it has not begun.
StopCurrent(a, x) ==
    /\ MayCall(a, x)
    /\ ~pending[x] /\ cc_curr = x
    /\ cc_cancel' = CancelIfWaiting(x)
    /\ owed' = [owed EXCEPT ![x] = IF c_lock[x] # Null THEN 0 ELSE @]
    /\ UNCHANGED <<clockVars, wheelVars, cc_lock, cc_curr, cc_next, owner, pc>>

\* callout_drain: the caller holds no c_lock.  A scheduled callout is stopped.
DrainPending(t, x) ==
    /\ pc[t] = "idle" /\ cc_lock = Null
    /\ \A l \in Lock : owner[l] # t
    /\ pending[x]
    /\ cc_next' = NextWithout(x)
    /\ cc_callwheel' = WheelWithout(x)
    /\ pending' = [pending EXCEPT ![x] = FALSE]
    /\ owed' = [owed EXCEPT ![x] = @ - 1]
    /\ UNCHANGED <<clockVars, c_time, cc_lock, cc_curr, cc_cancel, owner, pc>>

\* callout_drain while the callout runs: cv_wait on callout_cv, which nothing
\* initialises; pthread_cond_wait gets a NULL pointer and the process ends.
DrainCurrent(t, x) ==
    /\ pc[t] = "idle" /\ cc_lock = Null
    /\ \A l \in Lock : owner[l] # t
    /\ ~pending[x] /\ cc_curr = x
    /\ pc' = [pc EXCEPT ![t] = "drain"]
    /\ UNCHANGED <<clockVars, wheelVars, cc_lock, cc_curr, cc_cancel, cc_next,
                   owner, owed>>

\* timeout() takes cc_lock and calls callout_reset, which takes it again.  The
\* mutex does not recurse (MTX_DEF): the thread waits for itself.
TimeoutCall(t) ==
    /\ t \in OldClient
    /\ pc[t] = "idle" /\ cc_lock = Null
    /\ \A l \in Lock : owner[l] # t
    /\ cc_lock' = t
    /\ pc' = [pc EXCEPT ![t] = "timeout"]
    /\ UNCHANGED <<clockVars, wheelVars, cc_curr, cc_cancel, cc_next, owner, owed>>

\* Clients take and release the lock of a callout around their calls.
TakeLock(t, l) ==
    /\ pc[t] = "idle"
    /\ owner[l] = Null /\ \A k \in Lock : owner[k] # t
    /\ owner' = [owner EXCEPT ![l] = t]
    /\ UNCHANGED <<clockVars, wheelVars, cc_lock, cc_curr, cc_cancel, cc_next, pc, owed>>

ReleaseLock(t) ==
    \E l \in Lock :
        /\ owner[l] = t
        /\ owner' = [owner EXCEPT ![l] = Null]
        /\ UNCHANGED <<clockVars, wheelVars, cc_lock, cc_curr, cc_cancel, cc_next, pc, owed>>

-----------------------------------------------------------------------------

ClockStep ==
    \/ Hardclock \/ CalloutTick \/ SoftclockEnter \/ NextBucket \/ BucketDone
    \/ NotDue \/ Relock \/ Due \/ SwitchNoLock \/ SwitchLock \/ HandlerReturns \/ Skip

ClientStep ==
    \/ \E a \in Actor, x \in Timer :
        \/ \E to \in 1 .. MaxTo : Reset(a, x, to)
        \/ StopPending(a, x) \/ StopCurrent(a, x)
    \/ \E t \in Client :
        \/ \E x \in Timer : DrainPending(t, x) \/ DrainCurrent(t, x)
        \/ TimeoutCall(t)
        \/ \E l \in Lock : TakeLock(t, l)
        \/ ReleaseLock(t)

\* No thread has made the process end in cv_wait.
Alive == \A t \in Client : pc[t] # "drain"

Next == Alive /\ (ClockStep \/ ClientStep)

\* The clock thread is scheduled, also when clients compete for its locks, and
\* handlers and critical sections end.
Fairness ==
    /\ WF_vars(Alive /\ ClockStep)
    /\ SF_vars(Alive /\ SwitchLock)
    /\ \A t \in Client : WF_vars(Alive /\ ReleaseLock(t))

Spec == Init /\ [][Next]_vars /\ Fairness

-----------------------------------------------------------------------------
(* Properties *)

\* All variables have their types.
TypeOK ==
    /\ {ticks, cc_softticks, curticks} \subseteq Tick
    /\ cc_callwheel \in [Bucket -> Seq(Timer)]
    /\ c_time \in [Timer -> Tick] /\ pending \in [Timer -> BOOLEAN]
    /\ cc_lock \in Actor \cup {Null} /\ owner \in [Lock -> Actor \cup {Null}]
    /\ {c, cc_curr, cc_next} \subseteq Timer \cup {Null} /\ cc_cancel \in BOOLEAN
    /\ tpc \in {"sleep", "tick", "softclock", "bucket", "walk", "relock", "switch",
                "handler", "skip"}
    /\ steps \in 0 .. MaxSteps
    /\ pc \in [Client -> {"idle", "drain", "timeout"}]
    /\ owed \in [Timer -> 0 .. 2]

\* CALLOUT_PENDING says exactly that the callout is linked into the wheel, once
\* and in the bucket of its time, so TAILQ_REMOVE never touches a list the callout
\* is not in.
WheelHoldsPending ==
    /\ TypeOK
    /\ \A b \in Bucket : Unrepeated(cc_callwheel[b])
    /\ \A x \in Timer, b \in Bucket :
        Has(cc_callwheel[b], x) <=> pending[x] /\ b = BucketOf(c_time[x])

\* Where the walk of a bucket will go on: the cursor, or cc_next while the lock
\* is dropped.
Cursor == IF tpc = "walk" THEN c ELSE cc_next
Walking == tpc \in {"walk", "relock", "switch", "handler", "skip"}

\* Whatever clients do while softclock has dropped cc_lock, it resumes at a
\* callout that is still in the bucket it was walking.
CursorStaysOnBucket ==
    Walking /\ Cursor # Null =>
        pending[Cursor] /\ BucketOf(c_time[Cursor]) = BucketOf(curticks)

\* The callouts the walk will still visit.
Ahead ==
    LET q == cc_callwheel[BucketOf(curticks)]
    IN  {q[k] : k \in {j \in 1 .. Len(q) : \E i \in 1 .. j : q[i] = Cursor}}

\* The wheel never moves past a scheduled callout: one whose tick lies behind
\* would wait for the tick counter to wrap around.
NoCalloutPassedOver ==
    \A x \in Timer : pending[x] =>
        \/ Diff(c_time[x], cc_softticks) >= 0
        \/ Walking /\ c_time[x] = curticks /\ x \in Ahead

\* Every run that callers were not told is cancelled is scheduled or about to
\* begin, and no other: a callout stopped or moved with its lock held does not
\* run, even if softclock was waiting for that lock, and none runs twice.
RunsAreOwed ==
    \A x \in Timer :
        owed[x] = (IF pending[x] THEN 1 ELSE 0)
                + (IF cc_curr = x /\ tpc = "switch" /\ (c_lock[x] = Null \/ ~cc_cancel)
                   THEN 1 ELSE 0)

\* A callout that is not rescheduled for ever does not stay scheduled for ever,
\* whatever is done to the others: softclock runs it unless someone stops it.  The
\* exceptions are the two calls that take the clock thread with them: a drain of a
\* running callout, and timeout(), which keeps cc_lock.
ScheduledCalloutFires ==
    \A x \in Timer :
        <>[][\A a \in Actor : \A to \in 1 .. MaxTo : ~Reset(a, x, to)]_vars
            => []<>(~pending[x] \/ ~Alive \/ cc_lock \in Client)

\* "threads waiting in callout_drain() will be woken up as soon as the relevant
\* callout completes" (the comment on cc_curr): the call comes back.
DrainersWakeUp == \A t \in Client : pc[t] = "drain" ~> pc[t] = "idle"
=============================================================================

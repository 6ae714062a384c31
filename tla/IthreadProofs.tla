--------------------------- MODULE IthreadProofs ----------------------------
(***************************************************************************)
(* Proofs about software interrupts, for any number of callers, handlers   *)
(* and sleep entries: one thread is created for the event, and the         *)
(* interrupt thread does not sleep on work that nobody will signal.        *)
(***************************************************************************)
EXTENDS Ithread, TailQProofs, FiniteSetTheorems, SequenceTheorems, TLAPS

Creating == {"create", "install"}

\* At most one caller is creating the thread.  While it is, IE_ADDING_THREAD is
\* set and the event has no thread; before it has, there is none at all.
CreationInv ==
  /\ threads \in {0, 1}
  /\ \A p, q \in Sleepers : pc[p] \in Creating /\ pc[q] \in Creating => p = q
  /\ \A p \in Sleepers : pc[p] \in Creating => ie_adding = TRUE /\ ie_thread = FALSE
  /\ \A p \in Sleepers : pc[p] = "create" => threads = 0
  /\ ie_thread = FALSE /\ ie_adding = FALSE => threads = 0

\* A thread that waits has IWAIT set: whoever is about to signal will.
SleepInv == ipc = "wait" => iwait = TRUE

IthreadInv ==
  /\ pc \in [Sleepers -> Places]
  /\ ie_adding \in BOOLEAN /\ ie_thread \in BOOLEAN
  /\ CreationInv /\ SleepInv /\ WorkIsSignalled

\* An event without handlers and without a thread satisfies it.
LEMMA IthreadInitInv == Init => IthreadInv
BY DEF Init, IthreadInv, CreationInv, SleepInv, WorkIsSignalled, Places, Creating

\* A step of caller p that has nothing to do with the creation and leaves the
\* interrupt thread alone.
LEMMA CallerElsewhere ==
    ASSUME IthreadInv, NEW p \in Sleepers, NEW x \in Places \ Creating,
           pc' = [pc EXCEPT ![p] = x],
           pc[p] \in Creating => ie_thread' = TRUE,
           pc[p] \notin Creating => ie_thread' = ie_thread /\ ie_adding' = ie_adding,
           ie_thread' \in BOOLEAN, ie_adding' \in BOOLEAN, threads' = threads,
           SleepInv', WorkIsSignalled'
    PROVE  IthreadInv'
<1>1. pc' \in [Sleepers -> Places]
  BY DEF IthreadInv
<1>2. \A q \in Sleepers : pc'[q] \in Creating => pc[q] \in Creating /\ q # p /\ pc'[q] = pc[q]
  BY DEF IthreadInv
<1>3. CreationInv'
  <2>1. CASE pc[p] \in Creating
    <3>1. \A q \in Sleepers : pc'[q] \notin Creating
      BY <1>2, <2>1 DEF IthreadInv, CreationInv
    <3>2. threads' \in {0, 1} /\ ie_thread' = TRUE
      BY <2>1 DEF IthreadInv, CreationInv
    <3> QED
      BY <3>1, <3>2 DEF CreationInv, Creating
  <2>2. CASE pc[p] \notin Creating
    <3>1. threads' = threads /\ ie_thread' = ie_thread /\ ie_adding' = ie_adding /\ CreationInv
      BY <2>2 DEF IthreadInv
    <3> QED
      BY <1>2, <3>1 DEF CreationInv, Creating
  <2> QED
    BY <2>1, <2>2
<1> QED
  BY <1>1, <1>3 DEF IthreadInv

\* The interrupt thread and the waker of p's sleep: pc and the creation stay.
LEMMA CallersStay ==
    ASSUME IthreadInv, pc' = pc, ie_thread' = ie_thread, ie_adding' = ie_adding,
           threads' = threads, SleepInv', WorkIsSignalled'
    PROVE  IthreadInv'
BY DEF IthreadInv, CreationInv

\* A caller that is not about to signal leaves the one that is where it is.
LEMMA SignalStays ==
    ASSUME IthreadInv, NEW p \in Sleepers, NEW x, pc' = [pc EXCEPT ![p] = x],
           pc[p] # "signal", ipc' = ipc, it_need' = it_need
    PROVE  WorkIsSignalled'
<1> SUFFICES ASSUME ipc = "wait", it_need PROVE \E q \in Sleepers : pc'[q] = "signal"
  BY DEF WorkIsSignalled
<1>1. PICK q \in Sleepers : pc[q] = "signal"
  BY DEF IthreadInv, WorkIsSignalled
<1>2. pc'[q] = "signal"
  BY <1>1 DEF IthreadInv
<1> QED
  BY <1>2

-----------------------------------------------------------------------------
(* One lemma for each kind of step *)

\* swi_add
LEMMA AddKeeps ==
    ASSUME IthreadInv, NEW p \in Sleepers,
           \/ (\E h \in Handlers : AddHandler(p, h)) \/ AddSleeps(p) \/ AddUnlocks(p)
           \/ IthreadCreate(p) \/ AddInstalls(p) \/ AddReturns(p)
    PROVE  IthreadInv'
<1> USE DEF Creating
<1>1. CASE \E h \in Handlers : AddHandler(p, h)
  <2>1. /\ pc[p] = "idle" /\ pc' = [pc EXCEPT ![p] = "add"]
        /\ UNCHANGED <<ie_thread, ie_adding, threads, ipc, iwait, it_need>>
    BY <1>1 DEF AddHandler, GoTo, ithread
  <2>2. SleepInv' /\ WorkIsSignalled'
    BY <2>1, SignalStays DEF IthreadInv, SleepInv
  <2> QED
    BY <2>1, <2>2, CallerElsewhere DEF IthreadInv, Places
<1>2. CASE AddSleeps(p)
  <2>1. UNCHANGED <<pc, ie_thread, ie_adding, threads, ipc, iwait, it_need>>
    BY <1>2 DEF AddSleeps, event, ithread, callers
  <2> QED
    BY <2>1, CallersStay DEF IthreadInv, SleepInv, WorkIsSignalled
<1>3. CASE AddUnlocks(p)
  <2>1. /\ pc[p] = "add" /\ pc' = [pc EXCEPT ![p] = "create"]
        /\ ~ie_thread /\ ~ie_adding /\ ie_adding' = TRUE /\ ie_thread' = ie_thread
        /\ UNCHANGED <<threads, ipc, iwait, it_need>>
    BY <1>3 DEF AddUnlocks, AtAddLoop, AddingNow, GoTo, ithread
  <2>2. SleepInv' /\ WorkIsSignalled'
    BY <2>1, SignalStays DEF IthreadInv, SleepInv
  <2>3. ie_thread = FALSE /\ ie_adding = FALSE /\ threads = 0
    BY <2>1 DEF IthreadInv, CreationInv
  <2>4. \A q \in Sleepers : pc'[q] \in Creating => q = p
    BY <2>1, <2>3 DEF IthreadInv, CreationInv
  <2>5. CreationInv'
    BY <2>1, <2>3, <2>4 DEF CreationInv
  <2> QED
    BY <2>1, <2>2, <2>5 DEF IthreadInv, Places
<1>4. CASE IthreadCreate(p)
  <2>1. /\ pc[p] = "create" /\ pc' = [pc EXCEPT ![p] = "install"] /\ threads' = threads + 1
        /\ ipc' = "start" /\ UNCHANGED <<ie_thread, ie_adding>>
    BY <1>4 DEF IthreadCreate, GoTo, event
  <2>2. threads = 0 /\ ie_adding = TRUE /\ ie_thread = FALSE
    BY <2>1 DEF IthreadInv, CreationInv
  <2>3. \A q \in Sleepers : pc'[q] \in Creating => q = p
    BY <2>1 DEF IthreadInv, CreationInv
  <2>4. pc'[p] = "install" /\ threads' = 1
    BY <2>1, <2>2 DEF IthreadInv
  <2>5. CreationInv'
    BY <2>1, <2>2, <2>3, <2>4 DEF CreationInv
  <2>6. SleepInv' /\ WorkIsSignalled'
    BY <2>1 DEF SleepInv, WorkIsSignalled
  <2> QED
    BY <2>1, <2>5, <2>6 DEF IthreadInv, Places
<1>5. CASE AddInstalls(p)
  <2>1. /\ pc[p] = "install" /\ pc' = [pc EXCEPT ![p] = "add"] /\ ie_thread' = TRUE
        /\ ie_adding' = FALSE /\ UNCHANGED <<threads, ipc, iwait, it_need>>
    BY <1>5 DEF AddInstalls, GoTo
  <2>2. SleepInv' /\ WorkIsSignalled'
    BY <2>1, SignalStays DEF IthreadInv, SleepInv
  <2> QED
    BY <2>1, <2>2, CallerElsewhere DEF Places
<1>6. CASE AddReturns(p)
  <2>1. /\ pc[p] = "add" /\ pc' = [pc EXCEPT ![p] = "idle"]
        /\ UNCHANGED <<ie_thread, ie_adding, threads, ipc, iwait, it_need>>
    BY <1>6 DEF AddReturns, AtAddLoop, Returns, GoTo, ithread
  <2>2. SleepInv' /\ WorkIsSignalled'
    BY <2>1, SignalStays DEF IthreadInv, SleepInv
  <2> QED
    BY <2>1, <2>2, CallerElsewhere DEF IthreadInv, Places
<1> QED
  BY <1>1, <1>2, <1>3, <1>4, <1>5, <1>6

\* swi_sched: it_need is set by one that will signal, and the signal reaches a
\* thread that waits.
LEMMA SchedKeeps ==
    ASSUME IthreadInv, NEW p \in Sleepers,
           (\E h \in Handlers : Sched(p, h)) \/ SchedNeeds(p) \/ SchedSignals(p)
    PROVE  IthreadInv'
<1> USE DEF Creating
<1>1. CASE \E h \in Handlers : Sched(p, h)
  <2>1. /\ pc[p] = "idle" /\ pc' = [pc EXCEPT ![p] = "sched"]
        /\ UNCHANGED <<ie_thread, ie_adding, threads, ipc, iwait, it_need>>
    BY <1>1 DEF Sched, GoTo, ithread
  <2>2. SleepInv' /\ WorkIsSignalled'
    BY <2>1, SignalStays DEF IthreadInv, SleepInv
  <2> QED
    BY <2>1, <2>2, CallerElsewhere DEF IthreadInv, Places
<1>2. CASE SchedNeeds(p)
  <2>1. /\ pc[p] = "sched" /\ pc' = [pc EXCEPT ![p] = "signal"]
        /\ UNCHANGED <<ie_thread, ie_adding, threads, ipc, iwait>>
    BY <1>2 DEF SchedNeeds, GoTo, event
  <2>2. pc'[p] = "signal"
    BY <2>1 DEF IthreadInv
  <2>3. SleepInv' /\ WorkIsSignalled'
    BY <2>1, <2>2 DEF IthreadInv, SleepInv, WorkIsSignalled
  <2> QED
    BY <2>1, <2>3, CallerElsewhere DEF IthreadInv, Places
<1>3. CASE SchedSignals(p)
  <2>1. /\ pc[p] = "signal" /\ pc' = [pc EXCEPT ![p] = "idle"] /\ ipc' = Signalled
        /\ UNCHANGED <<ie_thread, ie_adding, threads>>
    BY <1>3 DEF SchedSignals, Returns, GoTo, event
  <2>2. ipc' # "wait"
    BY <2>1 DEF IthreadInv, SleepInv, Signalled
  <2>3. SleepInv' /\ WorkIsSignalled'
    BY <2>2 DEF SleepInv, WorkIsSignalled
  <2> QED
    BY <2>1, <2>3, CallerElsewhere DEF IthreadInv, Places
<1> QED
  BY <1>1, <1>2, <1>3

\* swi_remove: it sets it_need only while IWAIT is clear, that is, while the
\* thread does not wait.
LEMMA RemoveKeeps ==
    ASSUME IthreadInv, NEW p \in Sleepers,
           (\E h \in Handlers : RemoveHandler(p, h)) \/ RemoveSleeps(p) \/ RemoveFrees(p)
    PROVE  IthreadInv'
<1> USE DEF Creating
<1>1. CASE \E h \in Handlers : RemoveHandler(p, h)
  <2>1. /\ pc[p] = "idle" /\ pc' = [pc EXCEPT ![p] = "remove"]
        /\ UNCHANGED <<ie_thread, ie_adding, threads, ipc, iwait>>
        /\ it_need' = it_need \/ ~iwait
    BY <1>1 DEF RemoveHandler, GoTo
  <2>2. SleepInv'
    BY <2>1 DEF IthreadInv, SleepInv
  <2>3. WorkIsSignalled'
    <3>1. CASE it_need' = it_need
      BY <2>1, <3>1, SignalStays
    <3>2. CASE ~iwait
      BY <2>1, <3>2 DEF IthreadInv, SleepInv, WorkIsSignalled
    <3> QED
      BY <2>1, <3>1, <3>2
  <2> QED
    BY <2>1, <2>2, <2>3, CallerElsewhere DEF IthreadInv, Places
<1>2. CASE RemoveSleeps(p)
  <2>1. UNCHANGED <<pc, ie_thread, ie_adding, threads, ipc, iwait, it_need>>
    BY <1>2 DEF RemoveSleeps, event, ithread, callers
  <2> QED
    BY <2>1, CallersStay DEF IthreadInv, SleepInv, WorkIsSignalled
<1>3. CASE RemoveFrees(p)
  <2>1. /\ pc[p] = "remove" /\ pc' = [pc EXCEPT ![p] = "idle"]
        /\ UNCHANGED <<ie_thread, ie_adding, threads, ipc, iwait, it_need>>
    BY <1>3 DEF RemoveFrees, AtRemoveLoop, Returns, GoTo, ithread
  <2>2. SleepInv' /\ WorkIsSignalled'
    BY <2>1, SignalStays DEF IthreadInv, SleepInv
  <2> QED
    BY <2>1, <2>2, CallerElsewhere DEF IthreadInv, Places
<1> QED
  BY <1>1, <1>2, <1>3

\* The interrupt thread: it goes to sleep only with a second look at it_need,
\* under the thread lock.
LEMMA ThreadKeeps ==
    ASSUME IthreadInv, IthreadNext \/ ISpurious
    PROVE  IthreadInv'
<1>1. UNCHANGED <<pc, ie_thread, ie_adding, threads>>
  BY DEF IthreadNext, IStart, ICheck, IExec, IReap, IRun, ILock, IWoken, ISpurious, event, callers
<1>2. ipc' # "wait" \/ ILock
  BY DEF IthreadNext, IStart, ICheck, IExec, IReap, IRun, IWoken, ISpurious
<1>3. CASE ipc' # "wait"
  BY <1>1, <1>3, CallersStay DEF SleepInv, WorkIsSignalled
<1>4. CASE ILock /\ ipc' = "wait"
  <2>1. ~it_need' /\ iwait' = TRUE
    BY <1>4 DEF ILock, MaySleep
  <2> QED
    BY <1>1, <2>1, CallersStay DEF SleepInv, WorkIsSignalled
<1> QED
  BY <1>2, <1>3, <1>4

\* Every step preserves the inductive invariant.
LEMMA IthreadNextInv == IthreadInv /\ [Next]_vars => IthreadInv'
<1> SUFFICES ASSUME IthreadInv, [Next]_vars PROVE IthreadInv'
  OBVIOUS
<1>1. ASSUME NEW p \in Sleepers, Begins(p) PROVE IthreadInv'
  BY <1>1, AddKeeps, SchedKeeps, RemoveKeeps DEF Begins
<1>2. ASSUME UNCHANGED <<event, ithread, callers>> PROVE IthreadInv'
  <2>1. UNCHANGED <<pc, ie_thread, ie_adding, threads, ipc, iwait, it_need>>
    BY <1>2 DEF event, ithread, callers
  <2> QED
    BY <2>1, CallersStay DEF IthreadInv, SleepInv, WorkIsSignalled
<1>3. ASSUME NEW p \in Sleepers, Continues(p) PROVE IthreadInv'
  <2>1. CASE Sleeping(p)
    BY <2>1, <1>2 DEF Sleeping
  <2> QED
    BY <1>3, <2>1, AddKeeps, SchedKeeps, RemoveKeeps DEF Continues
<1>4. CASE IthreadNext \/ Spurious
  BY <1>2, <1>4, ThreadKeeps DEF Spurious
<1>5. CASE UNCHANGED vars
  BY <1>2, <1>5 DEF vars
<1> QED
  BY <1>1, <1>3, <1>4, <1>5 DEF Next

\* So it holds of every state that can be reached.
LEMMA IthreadInvariant == Spec => []IthreadInv
BY IthreadInitInv, IthreadNextInv, PTL DEF Spec

-----------------------------------------------------------------------------
(* Theorems *)

\* However many threads add handlers at once, one interrupt thread is created.
THEOREM IthreadOneThread == Spec => []OneThread
<1>1. IthreadInv => OneThread
  BY DEF IthreadInv, CreationInv, OneThread
<1> QED
  BY <1>1, IthreadInvariant, PTL

\* The interrupt thread never sleeps on work that nobody is about to signal.
THEOREM IthreadWorkIsSignalled == Spec => []WorkIsSignalled
<1>1. IthreadInv => WorkIsSignalled
  BY DEF IthreadInv
<1> QED
  BY <1>1, IthreadInvariant, PTL

-----------------------------------------------------------------------------
(* Sleep entries (uinet_kern_synch.c) *)

\* A thread points to an entry exactly while it sleeps; an entry counts the
\* threads that point to it, is in the table while there are any, and under one
\* channel only.
SynchInv ==
  /\ se_active \in [Chans -> Entries \cup {Nil}]
  /\ waiters \in [Entries -> Nat]
  /\ se \in [Sleepers -> Entries \cup {Nil}]
  /\ spc \in [Sleepers -> SleepPlaces]
  /\ \A t \in Sleepers : spc[t] = "awake" <=> se[t] = Nil
  /\ \A e \in Entries : waiters[e] = Cardinality(UsersOf(e))
  /\ \A e \in Entries : UsersOf(e) # {} <=> \E c \in Chans : se_active[c] = e
  /\ \A c, d \in Chans : se_active[c] = se_active[d] /\ se_active[c] # Nil => c = d

\* The handler that a caller of swi_remove is busy with is one.
OpInv ==
  /\ pc \in [Sleepers -> Places] /\ op \in [Sleepers -> Handlers \cup {Nil}]
  /\ \A p \in Sleepers : pc[p] \in {"add", "create", "install", "remove"} => op[p] \in Handlers

\* The users of an entry are finitely many, so its count tells whether it has any.
LEMMA UsersFinite ==
    \A e : /\ UsersOf(e) \subseteq Sleepers /\ IsFiniteSet(UsersOf(e))
           /\ Cardinality(UsersOf(e)) \in Nat
           /\ Cardinality(UsersOf(e)) = 0 <=> UsersOf(e) = {}
<1> SUFFICES ASSUME NEW e
             PROVE  /\ UsersOf(e) \subseteq Sleepers /\ IsFiniteSet(UsersOf(e))
                    /\ Cardinality(UsersOf(e)) \in Nat
                    /\ Cardinality(UsersOf(e)) = 0 <=> UsersOf(e) = {}
  OBVIOUS
<1>1. UsersOf(e) \subseteq Sleepers
  BY DEF UsersOf
<1>2. IsFiniteSet(UsersOf(e))
  BY <1>1, SynchAssumption, FS_Subset
<1> QED
  BY <1>1, <1>2, FS_CardinalityType, FS_EmptySet

\* A table with nobody in it.
LEMMA SynchInitInv == SynchInit => SynchInv
<1> SUFFICES ASSUME SynchInit PROVE SynchInv
  OBVIOUS
<1>1. \A e \in Entries : UsersOf(e) = {}
  BY SynchAssumption DEF SynchInit, UsersOf
<1>2. \A e \in Entries : waiters[e] = Cardinality(UsersOf(e))
  BY <1>1, FS_EmptySet DEF SynchInit
<1> QED
  BY <1>1, <1>2, SynchAssumption DEF SynchInit, SynchInv, SleepPlaces

\* A thread that is about to sleep finds an entry: those in use are fewer than
\* the threads, since it uses none itself.
LEMMA EntryLeft ==
    ASSUME SynchInv, NEW t \in Sleepers, spc[t] = "awake"
    PROVE  \E e \in Entries : waiters[e] = 0
<1> SUFFICES ASSUME \A e \in Entries : waiters[e] # 0 PROVE FALSE
  OBVIOUS
<1>1. \A e \in Entries : \E u \in Sleepers \ {t} : se[u] = e
  <2> SUFFICES ASSUME NEW e \in Entries PROVE \E u \in Sleepers \ {t} : se[u] = e
    OBVIOUS
  <2>1. UsersOf(e) # {}
    BY UsersFinite DEF SynchInv
  <2>2. se[t] # e
    BY SynchAssumption DEF SynchInv
  <2> QED
    BY <2>1, <2>2 DEF UsersOf
<1> DEFINE f == [e \in Entries |-> CHOOSE u \in Sleepers \ {t} : se[u] = e]
<1>2. \A e \in Entries : f[e] \in Sleepers \ {t} /\ se[f[e]] = e
  BY <1>1
<1> HIDE DEF f
<1>3. f \in Injection(Entries, Sleepers \ {t})
  <2>1. f \in [Entries -> Sleepers \ {t}]
    BY <1>2 DEF f
  <2>2. \A a, b \in Entries : f[a] = f[b] => a = b
    BY <1>2
  <2> QED
    BY <2>1, <2>2 DEF Injection, IsInjective
<1>4. IsFiniteSet(Sleepers \ {t}) /\ Cardinality(Sleepers \ {t}) = Cardinality(Sleepers) - 1
  BY SynchAssumption, FS_RemoveElement
<1>5. Cardinality(Entries) <= Cardinality(Sleepers \ {t})
  BY <1>3, <1>4, FS_Injection
<1>6. Cardinality(Entries) \in Nat /\ Cardinality(Sleepers) \in Nat
  BY SynchAssumption, FS_CardinalityType
<1> QED
  BY <1>4, <1>5, <1>6, SynchAssumption

\* _sleep takes the channel's entry, or a new one.
LEMMA SleepEntersInv ==
    ASSUME SynchInv, NEW t \in Sleepers, NEW c \in Chans, SleepEnters(t, c)
    PROVE  SynchInv'
<1>1. PICK e : e = EntryFor(c)
  OBVIOUS
<1>2. /\ spc[t] = "awake" /\ se[t] = Nil
      /\ waiters' = [waiters EXCEPT ![e] = @ + 1]
      /\ se_active' = [se_active EXCEPT ![c] = e]
      /\ se' = [se EXCEPT ![t] = e]
      /\ spc' = [spc EXCEPT ![t] = "entered"]
  BY <1>1 DEF SleepEnters, SynchInv
<1>3. e \in Entries /\ (\/ se_active[c] = e
                        \/ se_active[c] = Nil /\ UsersOf(e) = {})
  <2>1. CASE se_active[c] # Nil
    BY <1>1, <2>1 DEF EntryFor, SynchInv
  <2>2. CASE se_active[c] = Nil
    <3>1. e \in Entries /\ waiters[e] = 0
      BY <1>1, <1>2, <2>2, EntryLeft DEF EntryFor
    <3> QED
      BY <2>2, <3>1, UsersFinite DEF SynchInv
  <2> QED
    BY <2>1, <2>2
<1>4. e # Nil
  BY <1>3, SynchAssumption
<1>5. \A d \in Chans : d # c => se_active'[d] = se_active[d] /\ se_active[d] # e
  <2> SUFFICES ASSUME NEW d \in Chans, d # c PROVE se_active'[d] = se_active[d] /\ se_active[d] # e
    OBVIOUS
  <2>1. se_active'[d] = se_active[d]
    BY <1>2 DEF SynchInv
  <2>2. CASE se_active[c] = e
    BY <2>1, <2>2, <1>4 DEF SynchInv
  <2>3. CASE UsersOf(e) = {}
    BY <2>1, <2>3, <1>3 DEF SynchInv
  <2> QED
    BY <2>2, <2>3, <1>3
<1>6. se_active'[c] = e
  BY <1>2 DEF SynchInv
<1>7. \A u \in Sleepers : se'[u] = IF u = t THEN e ELSE se[u]
  BY <1>2 DEF SynchInv
<1>8. UsersOf(e)' = UsersOf(e) \cup {t} /\ t \notin UsersOf(e)
  BY <1>2, <1>4, <1>7 DEF UsersOf
<1>9. \A x \in Entries : x # e => UsersOf(x)' = UsersOf(x)
  BY <1>2, <1>7, SynchAssumption DEF UsersOf
<1>10. \A x \in Entries : waiters'[x] = Cardinality(UsersOf(x)')
  <2>1. Cardinality(UsersOf(e)') = Cardinality(UsersOf(e)) + 1
    BY <1>8, UsersFinite, FS_AddElement
  <2>2. waiters'[e] = waiters[e] + 1 /\ \A x \in Entries : x # e => waiters'[x] = waiters[x]
    BY <1>2, <1>3 DEF SynchInv
  <2> SUFFICES ASSUME NEW x \in Entries PROVE waiters'[x] = Cardinality(UsersOf(x)')
    OBVIOUS
  <2>3. CASE x = e
    BY <2>1, <2>2, <2>3 DEF SynchInv
  <2>4. CASE x # e
    BY <2>2, <2>4, <1>9 DEF SynchInv
  <2> QED
    BY <2>3, <2>4
<1>11. \A x \in Entries : UsersOf(x)' # {} <=> \E d \in Chans : se_active'[d] = x
  <2> SUFFICES ASSUME NEW x \in Entries
               PROVE  UsersOf(x)' # {} <=> \E d \in Chans : se_active'[d] = x
    OBVIOUS
  <2>1. CASE x = e
    BY <2>1, <1>6, <1>8
  <2>2. CASE x # e
    <3>1. UsersOf(x) # {} <=> \E d \in Chans : se_active[d] = x
      BY DEF SynchInv
    <3>2. \A d \in Chans : se_active'[d] = x <=> se_active[d] = x
      BY <2>2, <1>3, <1>5, <1>6, SynchAssumption
    <3> QED
      BY <2>2, <3>1, <3>2, <1>9
  <2> QED
    BY <2>1, <2>2
<1>12. \A a, b \in Chans : se_active'[a] = se_active'[b] /\ se_active'[a] # Nil => a = b
  BY <1>5, <1>6 DEF SynchInv
<1>13. /\ se_active' \in [Chans -> Entries \cup {Nil}]
       /\ se' \in [Sleepers -> Entries \cup {Nil}]
       /\ spc' \in [Sleepers -> SleepPlaces]
       /\ waiters' \in [Entries -> Nat]
  BY <1>2, <1>3 DEF SynchInv, SleepPlaces
<1>14. \A u \in Sleepers : spc'[u] = "awake" <=> se'[u] = Nil
  BY <1>2, <1>4, <1>7 DEF SynchInv
<1> QED
  BY <1>10, <1>11, <1>12, <1>13, <1>14 DEF SynchInv

\* The end of _sleep gives the entry up, and frees it if nobody else uses it.
LEMMA SleepLeavesInv ==
    ASSUME SynchInv, NEW t \in Sleepers, SleepLeaves(t)
    PROVE  SynchInv'
<1>1. PICK e : e = se[t]
  OBVIOUS
<1>2. /\ spc[t] = "back"
      /\ waiters' = [waiters EXCEPT ![e] = IF waiters[e] = 1 THEN 0 ELSE @ - 1]
      /\ se_active' = [c \in Chans |->
                          IF se_active[c] = e /\ waiters[e] = 1 THEN Nil ELSE se_active[c]]
      /\ se' = [se EXCEPT ![t] = Nil]
      /\ spc' = [spc EXCEPT ![t] = "awake"]
  BY <1>1 DEF SleepLeaves, LastOut
<1>3. e \in Entries /\ e # Nil
  BY <1>1, <1>2, SynchAssumption DEF SynchInv
<1>4. \A u \in Sleepers : se'[u] = IF u = t THEN Nil ELSE se[u]
  BY <1>2 DEF SynchInv
<1>5. UsersOf(e)' = UsersOf(e) \ {t} /\ t \in UsersOf(e)
  BY <1>1, <1>3, <1>4 DEF UsersOf
<1>6. \A x \in Entries : x # e => UsersOf(x)' = UsersOf(x)
  BY <1>1, <1>4, SynchAssumption DEF UsersOf
<1>7. /\ waiters[e] = Cardinality(UsersOf(e)) /\ waiters[e] \in Nat /\ waiters[e] # 0
      /\ Cardinality(UsersOf(e)') = waiters[e] - 1
  <2>1. waiters[e] = Cardinality(UsersOf(e)) /\ waiters[e] \in Nat
    BY <1>3 DEF SynchInv
  <2>2. Cardinality(UsersOf(e)') = Cardinality(UsersOf(e)) - 1
    BY <1>5, UsersFinite, FS_RemoveElement
  <2>3. UsersOf(e) # {}
    BY <1>5
  <2> QED
    BY <2>1, <2>2, <2>3, UsersFinite
<1>8. /\ waiters'[e] = waiters[e] - 1
      /\ \A x \in Entries : x # e => waiters'[x] = waiters[x]
  BY <1>2, <1>3, <1>7 DEF SynchInv
<1>9. UsersOf(e)' = {} <=> waiters[e] = 1
  <2>1. IsFiniteSet(UsersOf(e)')
    BY <1>5, UsersFinite, FS_Subset
  <2>2. Cardinality(UsersOf(e)') = 0 <=> UsersOf(e)' = {}
    BY <2>1, FS_EmptySet
  <2> QED
    BY <2>2, <1>7
<1>10. \A x \in Entries : waiters'[x] = Cardinality(UsersOf(x)')
  <2> SUFFICES ASSUME NEW x \in Entries PROVE waiters'[x] = Cardinality(UsersOf(x)')
    OBVIOUS
  <2>1. CASE x = e
    BY <2>1, <1>7, <1>8
  <2>2. CASE x # e
    BY <2>2, <1>6, <1>8 DEF SynchInv
  <2> QED
    BY <2>1, <2>2
<1>11. \A x \in Entries : UsersOf(x)' # {} <=> \E d \in Chans : se_active'[d] = x
  <2> SUFFICES ASSUME NEW x \in Entries
               PROVE  UsersOf(x)' # {} <=> \E d \in Chans : se_active'[d] = x
    OBVIOUS
  <2>1. UsersOf(x) # {} <=> \E d \in Chans : se_active[d] = x
    BY DEF SynchInv
  <2>2. CASE x = e
    <3>1. CASE waiters[e] = 1
      BY <2>2, <3>1, <1>2, <1>3, <1>9
    <3>2. CASE waiters[e] # 1
      <4>1. PICK d \in Chans : se_active[d] = e
        BY <2>1, <2>2, <1>5
      <4>2. se_active'[d] = e
        BY <4>1, <3>2, <1>2
      <4> QED
        BY <2>2, <3>2, <4>2, <1>9
    <3> QED
      BY <3>1, <3>2
  <2>3. CASE x # e
    <3>1. \A d \in Chans : se_active'[d] = x <=> se_active[d] = x
      BY <2>3, <1>2, SynchAssumption
    <3> QED
      BY <2>1, <2>3, <3>1, <1>6
  <2> QED
    BY <2>2, <2>3
<1>12. \A a, b \in Chans : se_active'[a] = se_active'[b] /\ se_active'[a] # Nil => a = b
  BY <1>2 DEF SynchInv
<1>13. waiters' \in [Entries -> Nat]
  BY <1>2, <1>3, <1>7 DEF SynchInv
<1>14. /\ se_active' \in [Chans -> Entries \cup {Nil}]
       /\ se' \in [Sleepers -> Entries \cup {Nil}]
       /\ spc' \in [Sleepers -> SleepPlaces]
  BY <1>2 DEF SynchInv, SleepPlaces
<1>15. \A u \in Sleepers : spc'[u] = "awake" <=> se'[u] = Nil
  BY <1>2, <1>4 DEF SynchInv
<1> QED
  BY <1>10, <1>11, <1>12, <1>13, <1>14, <1>15 DEF SynchInv

\* Any other step of a sleep, and a wakeup, only moves threads that sleep from
\* one place to another.
LEMMA SleepMovesInv ==
    ASSUME SynchInv, UNCHANGED <<se_active, waiters, se>>,
           spc' \in [Sleepers -> SleepPlaces],
           \A t \in Sleepers : spc'[t] = "awake" <=> spc[t] = "awake"
    PROVE  SynchInv'
<1>1. \A e : UsersOf(e)' = UsersOf(e)
  BY DEF UsersOf
<1> QED
  BY <1>1 DEF SynchInv

\* wakeup moves nobody who is awake and nobody to awake.
LEMMA WakeupInv ==
    ASSUME SynchInv, NEW c, UNCHANGED <<se_active, waiters, se>>, spc' = Wakeup(c)
    PROVE  SynchInv'
<1>1. spc' \in [Sleepers -> SleepPlaces]
  BY DEF SynchInv, Wakeup, SleepPlaces
<1>2. \A t \in Sleepers : spc'[t] = "awake" <=> spc[t] = "awake"
  BY DEF Wakeup
<1> QED
  BY <1>1, <1>2, SleepMovesInv

\* Callers are busy with handlers.
LEMMA NextOpInv == OpInv /\ [Next]_vars => OpInv'
<1> SUFFICES ASSUME OpInv, [Next]_vars PROVE OpInv'
  OBVIOUS
<1>1. CASE UNCHANGED <<pc, op>>
  BY <1>1 DEF OpInv
<1>2. ASSUME NEW p \in Sleepers, NEW h \in Handlers, NEW x \in Places,
             pc' = [pc EXCEPT ![p] = x], op' = [op EXCEPT ![p] = h]
      PROVE  OpInv'
  BY <1>2 DEF OpInv
<1>3. ASSUME NEW p \in Sleepers, Returns(p) PROVE OpInv'
  BY <1>3 DEF OpInv, Returns, GoTo, Places
<1>4. ASSUME NEW p \in Sleepers, NEW x \in Places, pc' = [pc EXCEPT ![p] = x], op' = op,
             op[p] \in Handlers \/ x \notin {"add", "create", "install", "remove"}
      PROVE  OpInv'
  BY <1>4 DEF OpInv
<1>5. ASSUME NEW p \in Sleepers, Begins(p) PROVE OpInv'
  BY <1>5, <1>2 DEF Begins, AddHandler, Sched, RemoveHandler, GoTo, Places
<1>6. ASSUME NEW p \in Sleepers, Continues(p) PROVE OpInv'
  <2>1. CASE AddUnlocks(p) \/ IthreadCreate(p) \/ AddInstalls(p)
    <3>1. op[p] \in Handlers
      BY <2>1 DEF AddUnlocks, AtAddLoop, IthreadCreate, AddInstalls, OpInv
    <3> QED
      BY <2>1, <3>1, <1>4 DEF AddUnlocks, IthreadCreate, AddInstalls, GoTo, Places
  <2>2. CASE AddReturns(p) \/ SchedSignals(p) \/ RemoveFrees(p)
    BY <2>2, <1>3 DEF AddReturns, SchedSignals, RemoveFrees
  <2>3. CASE SchedNeeds(p)
    BY <2>3, <1>4 DEF SchedNeeds, GoTo, Places
  <2>4. CASE AddSleeps(p) \/ RemoveSleeps(p) \/ Sleeping(p)
    BY <2>4, <1>1 DEF AddSleeps, RemoveSleeps, Sleeping, callers
  <2> QED
    BY <1>6, <2>1, <2>2, <2>3, <2>4 DEF Continues
<1>7. CASE IthreadNext \/ Spurious \/ UNCHANGED vars
  BY <1>7, <1>1 DEF IthreadNext, Spurious, ISpurious, IStart, ICheck, IExec, IReap, IRun, ILock,
                    IWoken, callers, vars
<1> QED
  BY <1>5, <1>6, <1>7 DEF Next

\* The steps of software interrupts that sleep or wake.
LEMMA NextSynchInv == SynchInv /\ OpInv /\ [Next]_vars => SynchInv'
<1> SUFFICES ASSUME SynchInv, OpInv, [Next]_vars PROVE SynchInv'
  OBVIOUS
<1>1. CASE UNCHANGED <<se_active, waiters, se, spc>>
  BY <1>1, SleepMovesInv DEF SynchInv
<1>2. ASSUME NEW p \in Sleepers, Begins(p) PROVE SynchInv'
  BY <1>2, <1>1 DEF Begins, AddHandler, Sched, RemoveHandler, synchvars
<1>3. ASSUME NEW p \in Sleepers, NEW x \in SleepPlaces \ {"awake"}, spc[p] # "awake",
             spc' = [spc EXCEPT ![p] = x], UNCHANGED <<se_active, waiters, se>>
      PROVE  SynchInv'
  <2>1. spc' \in [Sleepers -> SleepPlaces]
    BY <1>3 DEF SynchInv
  <2>2. \A t \in Sleepers : spc'[t] = "awake" <=> spc[t] = "awake"
    BY <1>3 DEF SynchInv
  <2> QED
    BY <1>3, <2>1, <2>2, SleepMovesInv
<1>4. ASSUME NEW p \in Sleepers, Continues(p) PROVE SynchInv'
  <2>1. CASE AddSleeps(p)
    BY <2>1, SleepEntersInv, IthreadAssumption DEF AddSleeps
  <2>2. CASE RemoveSleeps(p)
    <3>1. op[p] \in Chans
      BY <2>2, IthreadAssumption DEF RemoveSleeps, AtRemoveLoop, OpInv
    <3> QED
      BY <2>2, <3>1, SleepEntersInv DEF RemoveSleeps
  <2>3. CASE AddInstalls(p)
    BY <2>3, WakeupInv DEF AddInstalls, AddersWoken
  <2>4. CASE Sleeping(p)
    <3>1. CASE CvWaits(p)
      BY <3>1, <1>3 DEF CvWaits, SleepPlaces
    <3>2. CASE Relocks(p)
      BY <3>2, <1>3 DEF Relocks, SleepPlaces
    <3>3. CASE SleepLeaves(p)
      BY <3>3, SleepLeavesInv
    <3> QED
      BY <2>4, <3>1, <3>2, <3>3 DEF Sleeping
  <2>5. CASE AddUnlocks(p) \/ IthreadCreate(p) \/ AddReturns(p) \/ SchedNeeds(p)
             \/ SchedSignals(p) \/ RemoveFrees(p)
    BY <2>5, <1>1 DEF AddUnlocks, IthreadCreate, AddReturns, SchedNeeds, SchedSignals,
                      RemoveFrees, synchvars
  <2> QED
    BY <1>4, <2>1, <2>2, <2>3, <2>4, <2>5 DEF Continues
<1>5. CASE IReap
  BY <1>5, WakeupInv DEF IReap, RemoverWoken
<1>6. CASE \E p \in Sleepers : SpuriousWakeup(p)
  BY <1>6, <1>3 DEF SpuriousWakeup, SleepPlaces
<1>7. CASE IStart \/ ICheck \/ IExec \/ IRun \/ ILock \/ IWoken \/ ISpurious \/ UNCHANGED vars
  BY <1>7, <1>1 DEF IStart, ICheck, IExec, IRun, ILock, IWoken, ISpurious, vars, synchvars
<1> QED
  BY <1>2, <1>4, <1>5, <1>6, <1>7 DEF Next, IthreadNext, Spurious

\* No thread waits on a condition variable that another one has destroyed, and
\* no sleep entry outlives its users: an entry's count is the number of threads
\* that point to it, and se_lookup finds it under one channel while there are any.
THEOREM SynchEntriesInUse == Spec => []EntriesInUse
<1>1. Init => SynchInv /\ OpInv
  BY SynchInitInv DEF Init, OpInv, Places
<1>2. Spec => []SynchInv
  BY <1>1, NextOpInv, NextSynchInv, PTL DEF Spec
<1>3. SynchInv => EntriesInUse
  <2> SUFFICES ASSUME SynchInv, NEW e \in Entries
               PROVE  /\ waiters[e] = Cardinality(UsersOf(e))
                      /\ Cardinality({c \in Chans : se_active[c] = e})
                           = IF UsersOf(e) = {} THEN 0 ELSE 1
    BY DEF EntriesInUse
  <2> DEFINE C == {c \in Chans : se_active[c] = e}
  <2>1. waiters[e] = Cardinality(UsersOf(e)) /\ e # Nil
    BY SynchAssumption DEF SynchInv
  <2>2. CASE UsersOf(e) = {}
    <3>1. C = {}
      BY <2>2 DEF SynchInv
    <3> QED
      BY <2>1, <2>2, <3>1, FS_EmptySet
  <2>3. CASE UsersOf(e) # {}
    <3>1. PICK c \in Chans : se_active[c] = e
      BY <2>3 DEF SynchInv
    <3>2. C = {c}
      BY <2>1, <3>1 DEF SynchInv
    <3> QED
      BY <2>1, <2>3, <3>2, FS_Singleton
  <2> QED
    BY <2>2, <2>3
<1> QED
  BY <1>2, <1>3, PTL

-----------------------------------------------------------------------------
(* Handlers, their memory and the interrupt thread's cursors *)

\* The handler is on the event's list.
OnList(h) == Has(ie_handlers, h)

\* In swi_add and in swi_remove, with a handler that no one else has hold of.
Adding(p) == pc[p] \in {"add", "create", "install"}
Busy(p) == Adding(p) \/ pc[p] = "remove"

\* The list has no handler twice; swi_add and swi_remove never have hold of the
\* same handler, nor of one that may be scheduled; what is marked for death is
\* still on the list, and what is being removed and not so marked is off it,
\* unless it was removed while IWAIT was set.
ListInv ==
  /\ ie_handlers \in Seq(Handlers)
  /\ Unrepeated(ie_handlers)
  /\ \A h \in Handlers : OnList(h) => mem[h] = "live" \/ (h \in asleep /\ mem[h] # "none")
  /\ \A h \in cookie : mem[h] = "live" /\ ih_dead[h] = FALSE /\ OnList(h)
  /\ \A h \in Handlers : ih_dead[h] = TRUE => mem[h] = "live" /\ OnList(h)
  /\ \A p \in Sleepers : Busy(p) => op[p] \in Handlers /\ mem[op[p]] = "live" /\ op[p] \notin cookie
  /\ \A p \in Sleepers : Adding(p) => ih_dead[op[p]] = FALSE /\ OnList(op[p])
  /\ \A p \in Sleepers :
       pc[p] = "remove" /\ ih_dead[op[p]] = FALSE => ~OnList(op[p]) \/ op[p] \in asleep
  /\ \A p, q \in Sleepers : Busy(p) /\ Busy(q) /\ op[p] = op[q] => p = q

\* The interrupt thread's cursors are on the list, and the handler that it is
\* about to take off stays marked for death meanwhile.
CursorInv ==
  /\ ipc \in {"exec", "reap", "run"} /\ cur # Nil => OnList(cur)
  /\ ipc \in {"reap", "run"} => cur # Nil /\ nxt # cur /\ (nxt # Nil => OnList(nxt))
  /\ ipc = "reap" => ih_dead[cur] = TRUE
  /\ ipc = "crash" => asleep # {}

HandlerInv == TypeOK /\ ListInv /\ CursorInv

\* The handler after one on the list is on the list, and another one.
LEMMA AfterList ==
    ASSUME NEW S, NEW s \in Seq(S), NEW x, Has(s, x), Unrepeated(s), Nil \notin S
    PROVE  /\ PlaceOf(s, x) \in 1 .. Len(s) /\ s[PlaceOf(s, x)] = x
           /\ After(s, x) \in S \cup {Nil} /\ After(s, x) # x
           /\ After(s, x) # Nil => Has(s, After(s, x))
<1>1. PlaceOf(s, x) \in 1 .. Len(s) /\ s[PlaceOf(s, x)] = x
  BY DEF Has, PlaceOf
<1>2. PICK k \in 1 .. Len(s) : k = PlaceOf(s, x) /\ s[k] = x
  BY <1>1
<1>3. Len(s) \in Nat /\ \A i \in 1 .. Len(s) : s[i] \in S
  BY LenProperties, ElementOfSeq
<1>4. CASE k = Len(s)
  BY <1>1, <1>2, <1>3, <1>4 DEF After
<1>5. CASE k # Len(s)
  <2>1. k + 1 \in 1 .. Len(s) /\ k + 1 # k /\ After(s, x) = s[k + 1]
    BY <1>2, <1>3, <1>5 DEF After
  <2> QED
    BY <2>1, <1>1, <1>2, <1>3 DEF Has, Unrepeated
<1> QED
  BY <1>4, <1>5

\* Nothing is a handler that is none.
LEMMA NilNoHandler == Nil \notin Handlers
BY SynchAssumption, IthreadAssumption

\* At first there is no handler.
LEMMA InitHandlerInv == Init => HandlerInv
<1> SUFFICES ASSUME Init PROVE HandlerInv
  OBVIOUS
<1>1. ie_handlers = <<>> /\ ie_handlers \in Seq(Handlers) /\ Len(ie_handlers) = 0
  BY DEF Init
<1>2. \A h : ~OnList(h)
  BY <1>1 DEF OnList, Has
<1>3. TypeOK
  BY DEF Init, SynchInit, TypeOK, SleepPlaces, IPlaces, Places
<1>4. Unrepeated(ie_handlers)
  BY <1>1 DEF Unrepeated
<1>5. \A p \in Sleepers : ~Busy(p) /\ ~Adding(p) /\ pc[p] # "remove"
  BY DEF Init, Busy, Adding
<1>6. ListInv
  BY <1>1, <1>2, <1>4, <1>5 DEF ListInv, Init
<1>7. CursorInv
  BY DEF CursorInv, Init
<1> QED
  BY <1>3, <1>6, <1>7 DEF HandlerInv

\* A step that leaves the handlers and the list alone; a caller may go on, or
\* stop being busy, but not begin with a handler.
LEMMA ListStays ==
    ASSUME ListInv, UNCHANGED <<ie_handlers, mem, cookie, ih_dead, asleep>>,
           \A p \in Sleepers : /\ Adding(p)' => Adding(p) /\ op'[p] = op[p]
                               /\ pc'[p] = "remove" => pc[p] = "remove" /\ op'[p] = op[p]
    PROVE  ListInv'
<1> USE DEF OnList
<1>1. \A h : Has(ie_handlers', h) <=> OnList(h)
  OBVIOUS
<1>2. \A p \in Sleepers : Busy(p)' => Busy(p) /\ op'[p] = op[p]
  BY DEF Busy
<1> QED
  BY <1>1, <1>2 DEF ListInv

\* A step that leaves the list and the interrupt thread alone, or takes the
\* thread to a place where its cursors are not used.
LEMMA CursorStays ==
    ASSUME CursorInv, UNCHANGED <<ie_handlers, ih_dead, asleep>>,
           \/ UNCHANGED <<ipc, cur, nxt>>
           \/ ipc' \notin {"exec", "reap", "run", "crash"}
    PROVE  CursorInv'
<1> USE DEF OnList
<1>1. \A h : Has(ie_handlers', h) <=> OnList(h)
  OBVIOUS
<1> QED
  BY <1>1 DEF CursorInv

\* intr_event_add_handler puts a new handler on the list.
LEMMA AddHandlerInv ==
    ASSUME HandlerInv, NEW p \in Sleepers, NEW h \in Handlers, AddHandler(p, h)
    PROVE  ListInv' /\ CursorInv'
<1> USE DEF OnList
<1>1. /\ pc[p] = "idle" /\ mem[h] = "none"
      /\ mem' = [mem EXCEPT ![h] = "live"]
      /\ pc' = [pc EXCEPT ![p] = "add"] /\ op' = [op EXCEPT ![p] = h]
      /\ UNCHANGED <<cookie, ih_dead, asleep, ipc, cur, nxt>>
  BY DEF AddHandler, GoTo, ithread
<1>2. PICK k \in 1 .. Len(ie_handlers) + 1 : ie_handlers' = InsertAt(ie_handlers, k, h)
  BY DEF AddHandler
<1>3. ~OnList(h)
  BY <1>1 DEF HandlerInv, ListInv
<1>4. /\ ie_handlers' \in Seq(Handlers) /\ Unrepeated(ie_handlers)'
      /\ \A x : Has(ie_handlers', x) <=> OnList(x) \/ x = h
  BY <1>2, <1>3, InsertList DEF HandlerInv, ListInv, OnList
<1>5. mem'[h] = "live" /\ \A x \in Handlers : x # h => mem'[x] = mem[x]
  BY <1>1 DEF HandlerInv, TypeOK
<1>6. /\ pc'[p] = "add" /\ op'[p] = h
      /\ \A q \in Sleepers : q # p => pc'[q] = pc[q] /\ op'[q] = op[q]
  BY <1>1 DEF HandlerInv, TypeOK
<1>7. Busy(p)' /\ Adding(p)' /\ \A q \in Sleepers : q # p => (Busy(q)' <=> Busy(q)) /\ (Adding(q)' <=> Adding(q))
  BY <1>6 DEF Busy, Adding
<1>8. h \notin cookie /\ ih_dead[h] = FALSE /\ \A q \in Sleepers : Busy(q) => op[q] # h
  BY <1>1 DEF HandlerInv, ListInv, TypeOK
<1>9. ListInv'
  <2> USE DEF HandlerInv, ListInv
  <2>1. \A x \in Handlers : Has(ie_handlers', x) => mem'[x] = "live" \/ (x \in asleep' /\ mem'[x] # "none")
    BY <1>1, <1>4, <1>5
  <2>2. \A x \in cookie' : mem'[x] = "live" /\ ih_dead'[x] = FALSE /\ Has(ie_handlers', x)
    BY <1>1, <1>4, <1>5, <1>8 DEF TypeOK
  <2>3. \A x \in Handlers : ih_dead'[x] = TRUE => mem'[x] = "live" /\ Has(ie_handlers', x)
    BY <1>1, <1>4, <1>5
  <2>4. \A q \in Sleepers : Busy(q)' => op'[q] \in Handlers /\ mem'[op'[q]] = "live"
                                        /\ op'[q] \notin cookie'
    BY <1>1, <1>5, <1>6, <1>7, <1>8
  <2>5. \A q \in Sleepers : Adding(q)' => ih_dead'[op'[q]] = FALSE /\ Has(ie_handlers', op'[q])
    BY <1>1, <1>4, <1>6, <1>7, <1>8
  <2>6. \A q \in Sleepers : pc'[q] = "remove" /\ ih_dead'[op'[q]] = FALSE
                              => ~Has(ie_handlers', op'[q]) \/ op'[q] \in asleep'
    <3> SUFFICES ASSUME NEW q \in Sleepers, pc'[q] = "remove", ih_dead'[op'[q]] = FALSE
                 PROVE  ~Has(ie_handlers', op'[q]) \/ op'[q] \in asleep'
      OBVIOUS
    <3>1. q # p /\ pc[q] = "remove" /\ op'[q] = op[q] /\ ih_dead[op[q]] = FALSE
      BY <1>1, <1>6
    <3>2. op[q] # h
      BY <3>1, <1>8 DEF Busy
    <3> QED
      BY <3>1, <3>2, <1>1, <1>4
  <2>7. \A q, r \in Sleepers : Busy(q)' /\ Busy(r)' /\ op'[q] = op'[r] => q = r
    BY <1>6, <1>7, <1>8
  <2> QED
    BY <1>4, <2>1, <2>2, <2>3, <2>4, <2>5, <2>6, <2>7
<1>10. CursorInv'
  BY <1>1, <1>4 DEF HandlerInv, CursorInv
<1> QED
  BY <1>9, <1>10

\* intr_event_add_handler hands the handler to its caller.
LEMMA AddReturnsInv ==
    ASSUME HandlerInv, NEW p \in Sleepers, AddReturns(p)
    PROVE  ListInv' /\ CursorInv'
<1> USE DEF OnList
<1>1. /\ pc[p] = "add" /\ cookie' = cookie \cup {op[p]}
      /\ pc' = [pc EXCEPT ![p] = "idle"] /\ op' = [op EXCEPT ![p] = Nil]
      /\ UNCHANGED <<ie_handlers, mem, ih_dead, asleep, ipc, cur, nxt>>
  BY DEF AddReturns, AtAddLoop, CookieOf, Returns, GoTo, ithread
<1>2. /\ pc'[p] = "idle"
      /\ \A q \in Sleepers : q # p => pc'[q] = pc[q] /\ op'[q] = op[q]
  BY <1>1 DEF HandlerInv, TypeOK
<1>3. \A q \in Sleepers : /\ Busy(q)' => q # p /\ Busy(q) /\ op'[q] = op[q]
                          /\ Adding(q)' => q # p /\ Adding(q) /\ op'[q] = op[q]
                          /\ pc'[q] = "remove" => q # p /\ pc[q] = "remove" /\ op'[q] = op[q]
  BY <1>2 DEF Busy, Adding
<1>4. Adding(p) /\ Busy(p)
  BY <1>1 DEF Busy, Adding
<1>5. \A x : Has(ie_handlers', x) <=> OnList(x)
  BY <1>1
<1>6. ListInv'
  <2> USE DEF HandlerInv, ListInv
  <2>1. \A x \in cookie' : mem'[x] = "live" /\ ih_dead'[x] = FALSE /\ Has(ie_handlers', x)
    BY <1>1, <1>4, <1>5
  <2>2. \A q \in Sleepers : Busy(q)' => op'[q] \in Handlers /\ mem'[op'[q]] = "live"
                                        /\ op'[q] \notin cookie'
    BY <1>1, <1>3, <1>4
  <2>3. \A q, r \in Sleepers : Busy(q)' /\ Busy(r)' /\ op'[q] = op'[r] => q = r
    BY <1>3
  <2>4. \A q \in Sleepers : Adding(q)' => ih_dead'[op'[q]] = FALSE /\ Has(ie_handlers', op'[q])
    BY <1>1, <1>3, <1>5
  <2>5. \A q \in Sleepers : pc'[q] = "remove" /\ ih_dead'[op'[q]] = FALSE
                              => ~Has(ie_handlers', op'[q]) \/ op'[q] \in asleep'
    BY <1>1, <1>3, <1>5
  <2> QED
    BY <1>1, <1>5, <2>1, <2>2, <2>3, <2>4, <2>5
<1>7. CursorInv'
  BY <1>1, CursorStays DEF HandlerInv
<1> QED
  BY <1>6, <1>7

\* intr_event_remove_handler marks the handler, unless IWAIT is set.
LEMMA RemoveHandlerInv ==
    ASSUME HandlerInv, NEW p \in Sleepers, NEW h \in Handlers, RemoveHandler(p, h)
    PROVE  ListInv' /\ CursorInv'
<1> USE DEF OnList
<1>1. /\ pc[p] = "idle" /\ h \in cookie /\ cookie' = cookie \ {h}
      /\ pc' = [pc EXCEPT ![p] = "remove"] /\ op' = [op EXCEPT ![p] = h]
      /\ UNCHANGED <<ie_handlers, mem, ipc, cur, nxt>>
      /\ \/ asleep' = asleep \cup {h} /\ ih_dead' = ih_dead
         \/ asleep' = asleep /\ ih_dead' = [ih_dead EXCEPT ![h] = TRUE]
  BY DEF RemoveHandler, GoTo
<1>2. /\ pc'[p] = "remove" /\ op'[p] = h
      /\ \A q \in Sleepers : q # p => pc'[q] = pc[q] /\ op'[q] = op[q]
  BY <1>1 DEF HandlerInv, TypeOK
<1>3. /\ \A q \in Sleepers : q # p => (Busy(q)' <=> Busy(q)) /\ (Adding(q)' <=> Adding(q))
      /\ ~Adding(p)'
  BY <1>2 DEF Busy, Adding
<1>4. \A x : Has(ie_handlers', x) <=> OnList(x)
  BY <1>1
<1>5. mem[h] = "live" /\ ih_dead[h] = FALSE /\ OnList(h) /\ \A q \in Sleepers : Busy(q) => op[q] # h
  BY <1>1 DEF HandlerInv, ListInv
<1>6. /\ \A x \in Handlers : x # h => ih_dead'[x] = ih_dead[x]
      /\ asleep \subseteq asleep'
      /\ ih_dead'[h] = TRUE \/ h \in asleep'
      /\ \A x \in Handlers : ih_dead[x] = TRUE => ih_dead'[x] = TRUE
  BY <1>1, <1>5 DEF HandlerInv, TypeOK
<1>7. ListInv'
  <2> USE DEF HandlerInv, ListInv
  <2>1. \A x \in cookie' : mem'[x] = "live" /\ ih_dead'[x] = FALSE /\ Has(ie_handlers', x)
    BY <1>1, <1>4, <1>6 DEF TypeOK
  <2>2. \A q \in Sleepers : Busy(q)' => op'[q] \in Handlers /\ mem'[op'[q]] = "live"
                                        /\ op'[q] \notin cookie'
    BY <1>1, <1>2, <1>3, <1>5
  <2>3. \A q, r \in Sleepers : Busy(q)' /\ Busy(r)' /\ op'[q] = op'[r] => q = r
    BY <1>2, <1>3, <1>5
  <2>4. \A q \in Sleepers : Adding(q)' => ih_dead'[op'[q]] = FALSE /\ Has(ie_handlers', op'[q])
    <3> SUFFICES ASSUME NEW q \in Sleepers, Adding(q)'
                 PROVE  ih_dead'[op'[q]] = FALSE /\ Has(ie_handlers', op'[q])
      OBVIOUS
    <3>1. q # p /\ Adding(q) /\ op'[q] = op[q] /\ Busy(q)
      BY <1>2, <1>3 DEF Busy
    <3> QED
      BY <3>1, <1>4, <1>5, <1>6
  <2>5. \A q \in Sleepers : pc'[q] = "remove" /\ ih_dead'[op'[q]] = FALSE
                              => ~Has(ie_handlers', op'[q]) \/ op'[q] \in asleep'
    <3> SUFFICES ASSUME NEW q \in Sleepers, pc'[q] = "remove", ih_dead'[op'[q]] = FALSE
                 PROVE  ~Has(ie_handlers', op'[q]) \/ op'[q] \in asleep'
      OBVIOUS
    <3>1. CASE q = p
      BY <3>1, <1>2, <1>6
    <3>2. CASE q # p
      <4>1. pc[q] = "remove" /\ op'[q] = op[q] /\ Busy(q)
        BY <3>2, <1>2 DEF Busy
      <4>2. op[q] \in Handlers /\ op[q] # h /\ ih_dead[op[q]] = FALSE
        BY <4>1, <1>5, <1>6
      <4> QED
        BY <4>1, <4>2, <1>4, <1>6
    <3> QED
      BY <3>1, <3>2
  <2>6. \A x \in Handlers : Has(ie_handlers', x) => mem'[x] = "live" \/ (x \in asleep' /\ mem'[x] # "none")
    BY <1>1, <1>4, <1>6
  <2>7. \A x \in Handlers : ih_dead'[x] = TRUE => mem'[x] = "live" /\ Has(ie_handlers', x)
    BY <1>1, <1>4, <1>5, <1>6
  <2> QED
    BY <1>1, <2>1, <2>2, <2>3, <2>4, <2>5, <2>6, <2>7
<1>8. CursorInv'
  <2>1. cur \in Handlers \/ cur = Nil
    BY DEF HandlerInv, TypeOK
  <2> QED
    BY <1>1, <1>4, <1>6, <2>1 DEF HandlerInv, CursorInv
<1> QED
  BY <1>7, <1>8

\* intr_event_remove_handler frees a handler that is off the list, or one that
\* was removed while IWAIT was set.
LEMMA RemoveFreesInv ==
    ASSUME HandlerInv, NEW p \in Sleepers, RemoveFrees(p)
    PROVE  ListInv' /\ CursorInv'
<1> USE DEF OnList
<1>1. PICK h : h = op[p]
  OBVIOUS
<1>2. /\ pc[p] = "remove" /\ ~ih_dead[h] /\ mem' = [mem EXCEPT ![h] = "freed"]
      /\ pc' = [pc EXCEPT ![p] = "idle"] /\ op' = [op EXCEPT ![p] = Nil]
      /\ UNCHANGED <<ie_handlers, cookie, ih_dead, asleep, ipc, cur, nxt>>
  BY <1>1 DEF RemoveFrees, AtRemoveLoop, Removed, Returns, GoTo, ithread
<1>3. /\ pc'[p] = "idle"
      /\ \A q \in Sleepers : q # p => pc'[q] = pc[q] /\ op'[q] = op[q]
  BY <1>2 DEF HandlerInv, TypeOK
<1>4. \A q \in Sleepers : /\ Busy(q)' => q # p /\ Busy(q) /\ op'[q] = op[q]
                          /\ Adding(q)' => q # p /\ Adding(q) /\ op'[q] = op[q]
                          /\ pc'[q] = "remove" => q # p /\ pc[q] = "remove" /\ op'[q] = op[q]
  BY <1>3 DEF Busy, Adding
<1>5. \A x : Has(ie_handlers', x) <=> OnList(x)
  BY <1>2
<1>6. Busy(p)
  BY <1>2 DEF Busy
<1>7. h \in Handlers /\ h \notin cookie /\ ih_dead[h] = FALSE /\ (~OnList(h) \/ h \in asleep)
  <2>1. h \in Handlers /\ h \notin cookie
    BY <1>1, <1>6 DEF HandlerInv, ListInv
  <2>2. ih_dead[h] = FALSE
    BY <2>1, <1>2 DEF HandlerInv, TypeOK
  <2> QED
    BY <2>1, <2>2, <1>1, <1>2 DEF HandlerInv, ListInv
<1>8. mem'[h] = "freed" /\ \A x \in Handlers : x # h => mem'[x] = mem[x]
  BY <1>2, <1>7 DEF HandlerInv, TypeOK
<1>9. ListInv'
  <2> USE DEF HandlerInv, ListInv
  <2>1. \A x \in Handlers : Has(ie_handlers', x) => mem'[x] = "live" \/ (x \in asleep' /\ mem'[x] # "none")
    BY <1>2, <1>5, <1>7, <1>8
  <2>2. \A x \in cookie' : mem'[x] = "live" /\ ih_dead'[x] = FALSE /\ Has(ie_handlers', x)
    BY <1>2, <1>5, <1>7, <1>8 DEF TypeOK
  <2>3. \A x \in Handlers : ih_dead'[x] = TRUE => mem'[x] = "live" /\ Has(ie_handlers', x)
    BY <1>2, <1>5, <1>7, <1>8
  <2>4. \A q \in Sleepers : Busy(q)' => op'[q] \in Handlers /\ mem'[op'[q]] = "live"
                                        /\ op'[q] \notin cookie'
    <3> SUFFICES ASSUME NEW q \in Sleepers, Busy(q)'
                 PROVE  op'[q] \in Handlers /\ mem'[op'[q]] = "live" /\ op'[q] \notin cookie'
      OBVIOUS
    <3>1. q # p /\ Busy(q) /\ op'[q] = op[q]
      BY <1>4
    <3>2. op[q] # h
      BY <3>1, <1>1, <1>6
    <3> QED
      BY <3>1, <3>2, <1>2, <1>8
  <2>5. \A q, r \in Sleepers : Busy(q)' /\ Busy(r)' /\ op'[q] = op'[r] => q = r
    BY <1>4
  <2>6. \A q \in Sleepers : Adding(q)' => ih_dead'[op'[q]] = FALSE /\ Has(ie_handlers', op'[q])
    BY <1>2, <1>4, <1>5
  <2>7. \A q \in Sleepers : pc'[q] = "remove" /\ ih_dead'[op'[q]] = FALSE
                              => ~Has(ie_handlers', op'[q]) \/ op'[q] \in asleep'
    BY <1>2, <1>4, <1>5
  <2> QED
    BY <1>2, <2>1, <2>2, <2>3, <2>4, <2>5, <2>6, <2>7
<1>10. CursorInv'
  BY <1>2, CursorStays DEF HandlerInv
<1> QED
  BY <1>9, <1>10

\* intr_event_execute_handlers takes a handler that is marked off the list.
LEMMA ReapInv ==
    ASSUME HandlerInv, IReap
    PROVE  ListInv' /\ CursorInv' /\ cur' \in Handlers \cup {Nil}
<1> USE DEF OnList
<1>1. /\ ipc = "reap" /\ ie_handlers' = Without(ie_handlers, cur)
      /\ ih_dead' = [ih_dead EXCEPT ![cur] = FALSE]
      /\ cur' = nxt /\ nxt' = Nil /\ ipc' = "exec"
      /\ UNCHANGED <<mem, cookie, pc, op, asleep>>
  BY DEF IReap, callers
<1>2. /\ cur \in Handlers /\ OnList(cur) /\ ih_dead[cur] = TRUE /\ nxt # cur
      /\ nxt # Nil => OnList(nxt)
  BY <1>1 DEF HandlerInv, CursorInv, TypeOK
<1>3. /\ ie_handlers' \in Seq(Handlers) /\ Unrepeated(ie_handlers)'
      /\ \A x : Has(ie_handlers', x) <=> OnList(x) /\ x # cur
  BY <1>1, <1>2, WithoutList DEF HandlerInv, ListInv, OnList
<1>4. ih_dead'[cur] = FALSE /\ \A x \in Handlers : x # cur => ih_dead'[x] = ih_dead[x]
  BY <1>1, <1>2 DEF HandlerInv, TypeOK
<1>5. \A q \in Sleepers : (Busy(q)' <=> Busy(q)) /\ (Adding(q)' <=> Adding(q))
  BY <1>1 DEF Busy, Adding
<1>6. cur \notin cookie /\ \A q \in Sleepers : Adding(q) => op[q] # cur
  BY <1>2 DEF HandlerInv, ListInv
<1>7. ListInv'
  <2> USE DEF HandlerInv, ListInv
  <2>1. \A x \in Handlers : Has(ie_handlers', x) => mem'[x] = "live" \/ (x \in asleep' /\ mem'[x] # "none")
    BY <1>1, <1>3
  <2>2. \A x \in cookie' : mem'[x] = "live" /\ ih_dead'[x] = FALSE /\ Has(ie_handlers', x)
    BY <1>1, <1>3, <1>4, <1>6 DEF TypeOK
  <2>3. \A x \in Handlers : ih_dead'[x] = TRUE => mem'[x] = "live" /\ Has(ie_handlers', x)
    BY <1>1, <1>3, <1>4
  <2>4. \A q \in Sleepers : Busy(q)' => op'[q] \in Handlers /\ mem'[op'[q]] = "live"
                                        /\ op'[q] \notin cookie'
    BY <1>1, <1>5
  <2>5. \A q, r \in Sleepers : Busy(q)' /\ Busy(r)' /\ op'[q] = op'[r] => q = r
    BY <1>1, <1>5
  <2>6. \A q \in Sleepers : Adding(q)' => ih_dead'[op'[q]] = FALSE /\ Has(ie_handlers', op'[q])
    <3> SUFFICES ASSUME NEW q \in Sleepers, Adding(q)'
                 PROVE  ih_dead'[op'[q]] = FALSE /\ Has(ie_handlers', op'[q])
      OBVIOUS
    <3>1. Adding(q) /\ Busy(q) /\ op'[q] = op[q] /\ op[q] # cur
      BY <1>1, <1>5, <1>6 DEF Busy
    <3> QED
      BY <3>1, <1>3, <1>4
  <2>7. \A q \in Sleepers : pc'[q] = "remove" /\ ih_dead'[op'[q]] = FALSE
                              => ~Has(ie_handlers', op'[q]) \/ op'[q] \in asleep'
    <3> SUFFICES ASSUME NEW q \in Sleepers, pc'[q] = "remove", ih_dead'[op'[q]] = FALSE
                 PROVE  ~Has(ie_handlers', op'[q]) \/ op'[q] \in asleep'
      OBVIOUS
    <3>1. pc[q] = "remove" /\ Busy(q) /\ op'[q] = op[q]
      BY <1>1 DEF Busy
    <3>2. CASE op[q] = cur
      BY <3>1, <3>2, <1>3
    <3>3. CASE op[q] # cur
      BY <3>1, <3>3, <1>1, <1>3, <1>4
    <3> QED
      BY <3>2, <3>3
  <2> QED
    BY <1>3, <2>1, <2>2, <2>3, <2>4, <2>5, <2>6, <2>7
<1>8. CursorInv'
  BY <1>1, <1>2, <1>3 DEF CursorInv
<1> QED
  BY <1>1, <1>7, <1>8 DEF HandlerInv, TypeOK

\* One round of intr_event_execute_handlers follows the list.
LEMMA ExecInv ==
    ASSUME HandlerInv, IExec
    PROVE  CursorInv' /\ cur' \in Handlers \cup {Nil} /\ nxt' \in Handlers \cup {Nil}
<1> USE DEF OnList
<1>1. ipc = "exec" /\ UNCHANGED <<ie_handlers, ih_dead, asleep, mem>>
  BY DEF IExec, callers
<1>2. cur \in Handlers \cup {Nil} /\ nxt \in Handlers \cup {Nil}
  BY DEF HandlerInv, TypeOK
<1>3. CASE cur = Nil
  BY <1>1, <1>2, <1>3 DEF IExec, CursorInv
<1>4. CASE cur # Nil
  <2>1. Has(ie_handlers, cur) /\ cur \in Handlers
    BY <1>1, <1>2, <1>4 DEF HandlerInv, CursorInv
  <2>2. PICK a : a = After(ie_handlers, cur)
    OBVIOUS
  <2>3. /\ a \in Handlers \cup {Nil} /\ a # cur /\ (a # Nil => Has(ie_handlers, a))
    BY <2>1, <2>2, NilNoHandler, AfterList DEF HandlerInv, ListInv
  <2>4. CASE mem[cur] # "live"
    <3>1. cur \in asleep
      BY <2>1, <2>4 DEF HandlerInv, ListInv
    <3>2. ipc' = "crash" /\ UNCHANGED <<cur, nxt>>
      BY <2>4, <1>4 DEF IExec
    <3> QED
      BY <3>1, <3>2, <1>1, <1>2 DEF CursorInv
  <2>5. CASE mem[cur] = "live" /\ ih_dead[cur]
    <3>1. ipc' = "reap" /\ nxt' = a /\ cur' = cur
      BY <2>2, <2>5, <1>4 DEF IExec
    <3>2. ih_dead[cur] = TRUE
      BY <2>1, <2>5 DEF HandlerInv, TypeOK
    <3> QED
      BY <2>1, <2>3, <3>1, <3>2, <1>1, <1>4 DEF CursorInv
  <2>6. CASE mem[cur] = "live" /\ ~ih_dead[cur] /\ ih_need[cur]
    <3>1. ipc' = "run" /\ nxt' = a /\ cur' = cur
      BY <2>2, <2>6, <1>4 DEF IExec
    <3> QED
      BY <2>1, <2>3, <3>1, <1>1, <1>4 DEF CursorInv
  <2>7. CASE mem[cur] = "live" /\ ~ih_dead[cur] /\ ~ih_need[cur]
    <3>1. ipc' = ipc /\ cur' = a /\ nxt' = nxt
      BY <2>2, <2>7, <1>4 DEF IExec
    <3> QED
      BY <2>3, <3>1, <1>1, <1>2 DEF CursorInv
  <2> QED
    BY <2>4, <2>5, <2>6, <2>7
<1> QED
  BY <1>3, <1>4

\* The thread begins at the head of the list that it sees.
LEMMA CheckInv ==
    ASSUME HandlerInv, ICheck
    PROVE  CursorInv' /\ cur' \in Handlers \cup {Nil}
<1> USE DEF OnList
<1>1. ipc = "check" /\ UNCHANGED <<ie_handlers, ih_dead, asleep, nxt>>
      /\ (\/ cur' = First(HandlersSeen) /\ ipc' = "exec"
          \/ cur' = cur /\ ipc' = "lock")
  BY DEF ICheck, event, callers
<1>2. CASE cur' = First(HandlersSeen) /\ ipc' = "exec"
  <2>1. cur' = Nil \/ (ie_handlers # <<>> /\ cur' = Head(ie_handlers))
    BY <1>2 DEF First, HandlersSeen
  <2>2. CASE cur' = Nil
    BY <1>1, <1>2, <2>2 DEF CursorInv
  <2>3. CASE ie_handlers # <<>> /\ cur' = Head(ie_handlers)
    <3>1. ie_handlers \in Seq(Handlers)
      BY DEF HandlerInv, ListInv
    <3>2. 1 \in 1 .. Len(ie_handlers) /\ cur' = ie_handlers[1] /\ cur' \in Handlers
      BY <2>3, <3>1, LenProperties, EmptySeq, HeadTailProperties
    <3>3. Has(ie_handlers, cur')
      BY <3>2 DEF Has
    <3> QED
      BY <3>2, <3>3, <1>1, <1>2 DEF CursorInv
  <2> QED
    BY <2>1, <2>2, <2>3
<1>3. CASE cur' = cur /\ ipc' = "lock"
  BY <1>1, <1>3 DEF CursorInv, HandlerInv, TypeOK
<1> QED
  BY <1>1, <1>2, <1>3

\* After a handler has run the thread goes on with the one it remembered.
LEMMA RunInv ==
    ASSUME HandlerInv, IRun
    PROVE  CursorInv' /\ cur' \in Handlers \cup {Nil}
<1> USE DEF OnList
<1>1. ipc = "run" /\ cur' = nxt /\ nxt' = Nil /\ ipc' = "exec" /\ UNCHANGED <<ie_handlers, ih_dead, asleep>>
  BY DEF IRun, event, callers
<1> QED
  BY <1>1 DEF HandlerInv, CursorInv, TypeOK

\* The types, given what each step does to the sleepers, callers and cursors.
LEMMA NextTypeOK ==
    ASSUME TypeOK, OpInv, SynchInv', OpInv', [Next]_vars,
           cur' \in Handlers \cup {Nil}, nxt' \in Handlers \cup {Nil}
    PROVE  TypeOK'
<1> USE DEF TypeOK, OpInv, SynchInv
<1>1. spc' \in [Sleepers -> SleepPlaces] /\ pc' \in [Sleepers -> Places]
      /\ op' \in [Sleepers -> Handlers \cup {Nil}]
  OBVIOUS
<1>2. CASE UNCHANGED <<mtx, event>> /\ it_event' = it_event /\ seen' \in {"none", "own", "event"}
           /\ it_need' \in BOOLEAN /\ iwait' \in BOOLEAN /\ ipc' \in IPlaces
  BY <1>1, <1>2 DEF event
<1>3. ASSUME mtx' \in Sleepers \cup {Nil}, UNCHANGED <<event, ithread>>
      PROVE  TypeOK'
  BY <1>1, <1>3 DEF event, ithread
<1>4. ASSUME NEW p \in Sleepers, NEW h \in Handlers, AddHandler(p, h) PROVE TypeOK'
  BY <1>1, <1>4 DEF AddHandler, ithread
<1>5. ASSUME NEW p \in Sleepers, NEW h \in Handlers, Sched(p, h) PROVE TypeOK'
  BY <1>1, <1>5 DEF Sched, ithread, synchvars
<1>6. ASSUME NEW p \in Sleepers, NEW h \in Handlers, RemoveHandler(p, h) PROVE TypeOK'
  <2>1. ih_dead' \in [Handlers -> BOOLEAN] /\ it_need' \in BOOLEAN /\ cookie' \subseteq Handlers
    BY <1>6 DEF RemoveHandler
  <2> QED
    BY <1>1, <1>6, <2>1 DEF RemoveHandler
<1>7. ASSUME NEW p \in Sleepers, AddUnlocks(p) PROVE TypeOK'
  BY <1>1, <1>7 DEF AddUnlocks, AddingNow, ithread
<1>8. ASSUME NEW p \in Sleepers, IthreadCreate(p) PROVE TypeOK'
  BY <1>1, <1>8 DEF IthreadCreate, event, synchvars, IPlaces
<1>9. ASSUME NEW p \in Sleepers, AddInstalls(p) PROVE TypeOK'
  BY <1>1, <1>9 DEF AddInstalls
<1>10. ASSUME NEW p \in Sleepers, AddReturns(p) PROVE TypeOK'
  <2>1. op[p] \in Handlers
    BY <1>10 DEF AddReturns, AtAddLoop
  <2> QED
    BY <1>1, <1>10, <2>1 DEF AddReturns, CookieOf, ithread
<1>11. ASSUME NEW p \in Sleepers, SchedNeeds(p) PROVE TypeOK'
  BY <1>2, <1>11 DEF SchedNeeds, synchvars
<1>12. ASSUME NEW p \in Sleepers, SchedSignals(p) PROVE TypeOK'
  BY <1>2, <1>12 DEF SchedSignals, Signalled, synchvars, IPlaces
<1>13. ASSUME NEW p \in Sleepers, RemoveFrees(p) PROVE TypeOK'
  <2>1. op[p] \in Handlers
    BY <1>13 DEF RemoveFrees, AtRemoveLoop
  <2>2. mem' \in [Handlers -> {"none", "live", "freed"}]
    BY <1>13, <2>1 DEF RemoveFrees
  <2> QED
    BY <1>1, <1>13, <2>2 DEF RemoveFrees, ithread
<1>14. ASSUME NEW p \in Sleepers, AddSleeps(p) \/ RemoveSleeps(p) \/ Sleeping(p) PROVE TypeOK'
  BY <1>3, <1>14 DEF AddSleeps, RemoveSleeps, Sleeping, SleepEnters, CvWaits, Relocks, SleepLeaves
<1>15. CASE IExec
  <2>1. ipc' \in IPlaces
    BY <1>15 DEF IExec, IPlaces
  <2>2. ih_need' \in [Handlers -> BOOLEAN]
    BY <1>15 DEF IExec
  <2> QED
    BY <1>1, <1>15, <2>1, <2>2 DEF IExec, synchvars
<1>16. CASE IReap
  <2>1. ih_dead' \in [Handlers -> BOOLEAN]
    BY <1>16 DEF IReap
  <2> QED
    BY <1>1, <1>16, <2>1 DEF IReap, IPlaces
<1>17. CASE IStart \/ ICheck \/ IRun \/ ILock \/ IWoken \/ ISpurious
  <2>1. ipc' \in IPlaces
    BY <1>17 DEF IStart, ICheck, IRun, ILock, IWoken, ISpurious, IPlaces
  <2>2. it_need' \in BOOLEAN /\ iwait' \in BOOLEAN
    BY <1>17 DEF IStart, ICheck, IRun, ILock, IWoken, ISpurious
  <2>3. seen' \in {"none", "own", "event"} /\ it_event' = it_event /\ UNCHANGED <<mtx, event>>
    BY <1>17 DEF IStart, ICheck, IRun, ILock, IWoken, ISpurious, synchvars
  <2> QED
    BY <1>2, <2>1, <2>2, <2>3
<1>18. ASSUME NEW p \in Sleepers, SpuriousWakeup(p) /\ UNCHANGED <<event, ithread, callers>> PROVE TypeOK'
  BY <1>3, <1>18 DEF SpuriousWakeup
<1>19. CASE UNCHANGED vars
  BY <1>3, <1>19 DEF vars, synchvars
<1> QED
  BY <1>4, <1>5, <1>6, <1>7, <1>8, <1>9, <1>10, <1>11, <1>12, <1>13, <1>14, <1>15, <1>16, <1>17,
     <1>18, <1>19 DEF Next, Begins, Continues, IthreadNext, Spurious

\* Every step preserves the invariant of the handlers.
LEMMA NextHandlerInv == HandlerInv /\ SynchInv /\ OpInv /\ [Next]_vars => HandlerInv'
<1> SUFFICES ASSUME HandlerInv, SynchInv, OpInv, [Next]_vars PROVE HandlerInv'
  OBVIOUS
<1>1. SynchInv' /\ OpInv'
  BY NextSynchInv, NextOpInv
<1>2. ASSUME ListInv', CursorInv', cur' \in Handlers \cup {Nil}, nxt' \in Handlers \cup {Nil}
      PROVE  HandlerInv'
  BY <1>1, <1>2, NextTypeOK DEF HandlerInv
<1>3. ASSUME ListInv', CursorInv', UNCHANGED <<cur, nxt>> PROVE HandlerInv'
  BY <1>2, <1>3 DEF HandlerInv, TypeOK
<1>4. ASSUME UNCHANGED <<ie_handlers, mem, cookie, ih_dead, asleep, pc, op>> PROVE ListInv'
  BY <1>4, ListStays DEF HandlerInv, Adding
<1>5. CASE UNCHANGED <<event, ithread, callers>>
  <2>1. UNCHANGED <<ie_handlers, mem, cookie, ih_dead, asleep, pc, op, ipc, cur, nxt>>
    BY <1>5 DEF event, ithread, callers
  <2>2. CursorInv'
    BY <2>1, CursorStays DEF HandlerInv
  <2> QED
    BY <2>1, <2>2, <1>3, <1>4
<1>6. ASSUME NEW p \in Sleepers, NEW h \in Handlers, AddHandler(p, h) PROVE HandlerInv'
  BY <1>3, <1>6, AddHandlerInv DEF AddHandler, ithread
<1>7. ASSUME NEW p \in Sleepers, NEW h \in Handlers, RemoveHandler(p, h) PROVE HandlerInv'
  BY <1>3, <1>7, RemoveHandlerInv DEF RemoveHandler
<1>8. ASSUME NEW p \in Sleepers, AddReturns(p) PROVE HandlerInv'
  BY <1>3, <1>8, AddReturnsInv DEF AddReturns, ithread
<1>9. ASSUME NEW p \in Sleepers, RemoveFrees(p) PROVE HandlerInv'
  BY <1>3, <1>9, RemoveFreesInv DEF RemoveFrees, ithread
<1>10. ASSUME NEW p \in Sleepers,
              \/ (\E h \in Handlers : Sched(p, h)) \/ SchedNeeds(p) \/ SchedSignals(p)
              \/ AddUnlocks(p) \/ IthreadCreate(p) \/ AddInstalls(p)
       PROVE  HandlerInv'
  <2>1. UNCHANGED <<ie_handlers, mem, cookie, ih_dead, asleep, cur, nxt>>
    BY <1>10 DEF Sched, SchedNeeds, SchedSignals, AddUnlocks, IthreadCreate, AddInstalls, event, ithread
  <2>2. \A q \in Sleepers : q # p => pc'[q] = pc[q] /\ op'[q] = op[q]
    BY <1>10 DEF Sched, SchedNeeds, SchedSignals, AddUnlocks, IthreadCreate, AddInstalls, Returns,
                 GoTo, OpInv
  <2>3. \/ pc'[p] \in {"sched", "signal", "idle"}
        \/ pc'[p] \in {"add", "create", "install"} /\ Adding(p) /\ op' = op
    BY <1>10 DEF Sched, SchedNeeds, SchedSignals, AddUnlocks, AtAddLoop, IthreadCreate, AddInstalls,
                 Returns, GoTo, OpInv, Adding
  <2>4. ListInv'
    BY <2>1, <2>2, <2>3, ListStays DEF HandlerInv, Adding
  <2>5. \/ ipc' = ipc
        \/ ipc' \in {"start", "woken"}
    BY <1>10 DEF Sched, SchedNeeds, SchedSignals, Signalled, AddUnlocks, IthreadCreate, AddInstalls,
                 ithread
  <2>6. CursorInv'
    BY <2>1, <2>5, CursorStays DEF HandlerInv
  <2> QED
    BY <2>1, <2>4, <2>6, <1>3
<1>11. CASE IReap
  <2>1. nxt' = Nil
    BY <1>11 DEF IReap
  <2> QED
    BY <1>2, <1>11, <2>1, ReapInv
<1>12. CASE IExec
  <2>1. ListInv'
    BY <1>4, <1>12 DEF IExec, callers
  <2> QED
    BY <1>2, <1>12, <2>1, ExecInv
<1>13. CASE ICheck
  <2>1. ListInv' /\ nxt' = nxt
    BY <1>4, <1>13 DEF ICheck, event, callers
  <2> QED
    BY <1>2, <1>13, <2>1, CheckInv DEF HandlerInv, TypeOK
<1>14. CASE IRun
  <2>1. ListInv' /\ nxt' = Nil
    BY <1>4, <1>14 DEF IRun, event, callers
  <2> QED
    BY <1>2, <1>14, <2>1, RunInv
<1>15. CASE IStart \/ ILock \/ IWoken \/ ISpurious
  <2>1. /\ UNCHANGED <<ie_handlers, mem, cookie, ih_dead, asleep, pc, op, cur, nxt>>
        /\ ipc' \in {"check", "wait", "woken"}
    BY <1>15 DEF IStart, ILock, IWoken, ISpurious, event, callers
  <2>2. ListInv' /\ CursorInv'
    BY <2>1, <1>4, CursorStays DEF HandlerInv
  <2> QED
    BY <2>1, <2>2, <1>3
<1>16. CASE \/ \E p \in Sleepers : AddSleeps(p) \/ RemoveSleeps(p) \/ Sleeping(p)
            \/ \E p \in Sleepers : SpuriousWakeup(p) /\ UNCHANGED <<event, ithread, callers>>
            \/ UNCHANGED vars
  BY <1>5, <1>16 DEF AddSleeps, RemoveSleeps, Sleeping, vars
<1> QED
  BY <1>6, <1>7, <1>8, <1>9, <1>10, <1>11, <1>12, <1>13, <1>14, <1>15, <1>16
     DEF Next, Begins, Continues, IthreadNext, Spurious

\* swi_remove frees nothing that the interrupt thread can still reach, unless it
\* was called while IWAIT was set, however the callers and the thread interleave.
THEOREM IthreadFreedIsOffList == Spec => []FreedIsOffList
<1>1. Init => SynchInv /\ OpInv
  BY SynchInitInv DEF Init, OpInv, Places
<1>2. Spec => []HandlerInv
  BY <1>1, InitHandlerInv, NextOpInv, NextSynchInv, NextHandlerInv, PTL DEF Spec
<1>3. HandlerInv => FreedIsOffList
  <2> SUFFICES ASSUME HandlerInv PROVE FreedIsOffList
    OBVIOUS
  <2>1. ASSUME NEW k \in DOMAIN ie_handlers
        PROVE  mem[ie_handlers[k]] = "live" \/ ie_handlers[k] \in asleep
    <3>1. k \in 1 .. Len(ie_handlers) /\ ie_handlers[k] \in Handlers
      BY LenProperties, ElementOfSeq DEF HandlerInv, ListInv
    <3>2. OnList(ie_handlers[k])
      BY <3>1 DEF OnList, Has
    <3> QED
      BY <3>1, <3>2 DEF HandlerInv, ListInv
  <2>2. ASSUME ipc \in {"exec", "reap", "run"}, cur # Nil PROVE mem[cur] = "live" \/ cur \in asleep
    BY <2>2 DEF HandlerInv, ListInv, CursorInv, TypeOK
  <2>3. TypeOK /\ (ipc = "crash" => asleep # {})
    BY DEF HandlerInv, CursorInv
  <2> QED
    BY <2>1, <2>2, <2>3 DEF FreedIsOffList
<1> QED
  BY <1>2, <1>3, PTL
=============================================================================

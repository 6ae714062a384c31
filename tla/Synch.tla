------------------------------- MODULE Synch --------------------------------
(***************************************************************************)
(* msleep and wakeup as uinet_kern_synch.c builds them from condition      *)
(* variables: a table of sleep entries, one for each channel that somebody *)
(* sleeps on, each with a condition variable and a count of the threads    *)
(* that use it.  The table is guarded by synch_lock, whose critical        *)
(* sections take no other lock and are single steps here; the sleeper's    *)
(* own mutex, one for all sleepers, is mtx.                                *)
(*                                                                         *)
(* The module has the steps of a sleep; the modules that extend it say who *)
(* sleeps and who wakes whom.                                              *)
(***************************************************************************)
EXTENDS Naturals, FiniteSets

CONSTANTS
  Sleepers, \* threads that may call msleep
  Chans,    \* channels
  Entries,  \* memory for struct sleep_entry
  Nil       \* NULL, nobody

ASSUME SynchAssumption ==
  /\ Nil \notin Sleepers \cup Chans \cup Entries
  /\ IsFiniteSet(Sleepers) /\ IsFiniteSet(Entries)
  /\ Cardinality(Entries) >= Cardinality(Sleepers)

VARIABLES
  se_active, \* the entry of each channel, Nil if it has none
  waiters,   \* the count in each entry, 0 when it is not allocated
  se,        \* the entry that each sleeper's local variable points to
  spc,       \* where each sleeper is
  mtx        \* who holds the mutex that the sleepers pass, or Nil

synchvars == <<se_active, waiters, se, spc, mtx>>

\* Outside; has its entry and still the mutex; in cv_wait; woken and waiting
\* for the mutex; has the mutex again and is about to leave its entry.
SleepPlaces == {"awake", "entered", "waiting", "woken", "back"}

SynchInit ==
  /\ se_active = [c \in Chans |-> Nil]
  /\ waiters = [e \in Entries |-> 0]
  /\ se = [t \in Sleepers |-> Nil]
  /\ spc = [t \in Sleepers |-> "awake"]
  /\ mtx = Nil

\* se_lookup and, where there is no entry, se_alloc.
EntryFor(c) ==
  IF se_active[c] # Nil THEN se_active[c] ELSE CHOOSE e \in Entries : waiters[e] = 0

\* _sleep up to cv_wait.
SleepEnters(t, c) ==
  /\ spc[t] = "awake" /\ mtx = t
  /\ LET e == EntryFor(c) IN
       /\ waiters' = [waiters EXCEPT ![e] = @ + 1]
       /\ se_active' = [se_active EXCEPT ![c] = e]
       /\ se' = [se EXCEPT ![t] = e]
  /\ spc' = [spc EXCEPT ![t] = "entered"]
  /\ UNCHANGED mtx

\* cv_wait gives up the mutex and waits, in one step.
CvWaits(t) ==
  /\ spc[t] = "entered"
  /\ spc' = [spc EXCEPT ![t] = "waiting"]
  /\ mtx' = Nil
  /\ UNCHANGED <<se_active, waiters, se>>

\* Where the sleepers are after wakeup(c), which is a cv_broadcast.
Wakeup(c) ==
  [t \in Sleepers |->
     IF spc[t] = "waiting" /\ se[t] = se_active[c] THEN "woken" ELSE spc[t]]

\* pthread_cond_wait may return by itself.
SpuriousWakeup(t) ==
  /\ spc[t] = "waiting"
  /\ spc' = [spc EXCEPT ![t] = "woken"]
  /\ UNCHANGED <<se_active, waiters, se, mtx>>

\* cv_wait returns with the mutex.
Relocks(t) ==
  /\ spc[t] = "woken" /\ mtx = Nil
  /\ spc' = [spc EXCEPT ![t] = "back"]
  /\ mtx' = t
  /\ UNCHANGED <<se_active, waiters, se>>

\* Mutant: the entry goes with the first sleeper that leaves.
LastOutFirst(e) == TRUE

\* se_free: the entry goes with its last sleeper.
LastOut(e) == waiters[e] = 1

\* The end of _sleep.
SleepLeaves(t) ==
  /\ spc[t] = "back"
  /\ LET e == se[t] IN
       /\ waiters' = [waiters EXCEPT ![e] = IF LastOut(e) THEN 0 ELSE @ - 1]
       /\ se_active' = [c \in Chans |->
                          IF se_active[c] = e /\ LastOut(e) THEN Nil ELSE se_active[c]]
  /\ se' = [se EXCEPT ![t] = Nil]
  /\ spc' = [spc EXCEPT ![t] = "awake"]
  /\ UNCHANGED mtx

----------------------------------------------------------------------------
(* Properties *)

UsersOf(e) == {t \in Sleepers : se[t] = e}

\* An entry lives as long as somebody sleeps on it: its count is the number of
\* threads that point to it, it is then in the table of one channel, and no
\* thread waits on a condition variable that another one has destroyed.
EntriesInUse == \A e \in Entries :
  /\ waiters[e] = Cardinality(UsersOf(e))
  /\ Cardinality({c \in Chans : se_active[c] = e}) = IF UsersOf(e) = {} THEN 0 ELSE 1
=============================================================================

--------------------------- MODULE UdSelectProofs ---------------------------
(***************************************************************************)
(* What is proved of UdSelect for every number of descriptors: the count   *)
(* that ud_select returns is that of the bits in its result sets, and a    *)
(* call that times out has not overlooked a descriptor that was ready.     *)
(***************************************************************************)
EXTENDS UdSelect, FiniteSetTheorems, TLAPS

-----------------------------------------------------------------------------
(* The inductive invariant *)

\* How far the result sets reach: the read half of the loop body is one
\* descriptor ahead of the write half.
ReadDone == IF pc \in {"write", "wtest"} THEN i + 1 ELSE i

\* Only descriptors that the scan has passed are in the result sets (a thread
\* that crashed scans no more).
ResultsBehindScan == pc # "crash" =>
    /\ \A f \in res_read : f < ReadDone
    /\ \A f \in res_write : f < i

\* Where the scan is: within the loop body the descriptor is a legal one, and
\* the thread sleeps only after a whole scan that found nothing.
ScanPlace ==
    /\ pc \in {"rtest", "write", "wtest"} => i < NFds
    /\ pc = "sleep" => retval = 0

\* The inductive invariant behind the count.
CountInv == CountMatchesSets /\ ResultsBehindScan /\ ScanPlace

\* What was ready ever since the scan began is ready now, and is in the result
\* sets if the scan has passed it.
SteadyFound ==
    /\ steady \subseteq ReadyNow
    /\ \A f \in Fd : <<"r", f>> \in steady /\ f < ReadDone => f \in res_read
    /\ \A f \in Fd : <<"w", f>> \in steady /\ f < i => f \in res_write

-----------------------------------------------------------------------------
(* Facts about the operators *)

\* The descriptors below nfds are a finite set of nfds elements, and a result
\* set has at most as many.
LEMMA ResultSetSize ==
    ASSUME NEW S \in SUBSET Fd
    PROVE  /\ IsFiniteSet(S)
           /\ Cardinality(S) \in Nat
           /\ Cardinality(S) <= NFds
<1>1. IsFiniteSet(Fd) /\ Cardinality(Fd) = NFds
  BY FS_Interval, UdSelectAssumption DEF Fd
<1> QED
  BY <1>1, FS_Subset, FS_CardinalityType

\* Setting a bit that was clear adds one to the size of a result set.
LEMMA SetOneBit ==
    ASSUME NEW S \in SUBSET Fd, NEW f \in Fd, f \notin S
    PROVE  Cardinality(S \cup {f}) = Cardinality(S) + 1
BY ResultSetSize, FS_AddElement

\* A result set of size 0 is empty.
LEMMA NoBitSet ==
    ASSUME NEW S \in SUBSET Fd, Cardinality(S) = 0
    PROVE  S = {}
BY ResultSetSize, FS_EmptySet

\* What it means for a descriptor to be ready now.
LEMMA ReadyNowMembers ==
    /\ \A f : <<"r", f>> \in ReadyNow <=> f \in readfds \cap bound /\ soreadable(f) > 0
    /\ \A f : <<"w", f>> \in ReadyNow <=> f \in writefds \cap bound /\ sowritable(f) > 0
BY DEF ReadyNow

\* What the scan looks for names legal descriptors.
LEMMA ReadyNowType ==
    ASSUME TypeOK
    PROVE  ReadyNow \subseteq {"r", "w"} \X Fd
BY DEF TypeOK, ReadyNow

\* The same after a step.
LEMMA ReadyNowTypeNext ==
    ASSUME TypeOK'
    PROVE  ReadyNow' \subseteq {"r", "w"} \X Fd
BY DEF TypeOK, ReadyNow

-----------------------------------------------------------------------------
(* The count *)

\* A call begins and ends with empty result sets.
LEMMA InitCount == Init => CountInv
<1> SUFFICES ASSUME Init PROVE CountInv
  OBVIOUS
<1>1. TypeOK
  <2>1. /\ i \in 0 .. NFds /\ retval \in 0 .. 2 * NFds /\ ret \in -1 .. 2 * NFds
    BY UdSelectAssumption DEF Init
  <2> QED
    BY <2>1 DEF Init, TypeOK
<1>2. Cardinality({}) = 0
  BY FS_EmptySet
<1> QED
  BY <1>1, <1>2 DEF Init, CountInv, CountMatchesSets, ResultsBehindScan, ScanPlace, ReadDone

\* The scan has just begun, or no call is under way: the result sets are empty
\* and so is the count.
LEMMA FreshCount ==
    ASSUME TypeOK', res_read' = {}, res_write' = {}, retval' = 0,
           pc' \in {"idle", "read"}
    PROVE  CountInv'
<1>1. Cardinality({}) = 0
  BY FS_EmptySet
<1> QED
  BY <1>1 DEF CountInv, CountMatchesSets, ResultsBehindScan, ScanPlace, ReadDone

\* Every way out of ud_select leaves the invariant true.
LEMMA ReturnCount ==
    ASSUME CountInv, NEW v \in -1 .. 2 * NFds, Return(v), UNCHANGED sockVars,
           readfds' \in (SUBSET Fd) \cup {NullSet},
           writefds' \in (SUBSET Fd) \cup {NullSet}, timeout' = timeout
    PROVE  CountInv'
<1>1. TypeOK'
  <2>1. /\ i' \in 0 .. NFds /\ retval' \in 0 .. 2 * NFds /\ ret' \in -1 .. 2 * NFds
    BY UdSelectAssumption DEF Return
  <2> QED
    BY <2>1 DEF CountInv, CountMatchesSets, TypeOK, Return, sockVars
<1> QED
  BY <1>1, FreshCount DEF Return

\* A scan that starts again does so with empty result sets.
LEMMA RestartCount ==
    ASSUME CountInv, Restart, retval = 0, UNCHANGED <<sockVars, argVars>>,
           restarted' \in BOOLEAN
    PROVE  CountInv'
<1>1. res_read = {} /\ res_write = {}
  <2>1. Cardinality(res_read) = 0 /\ Cardinality(res_write) = 0
    BY ResultSetSize DEF CountInv, CountMatchesSets, TypeOK
  <2> QED
    BY <2>1, NoBitSet DEF CountInv, CountMatchesSets, TypeOK
<1>2. TypeOK'
  BY ReadyNowType, UdSelectAssumption
     DEF CountInv, CountMatchesSets, TypeOK, Restart, sockVars, argVars
<1> QED
  BY <1>1, <1>2, FreshCount DEF Restart

\* Looking a descriptor up changes no count.
LEMMA ScanReadCount ==
    ASSUME CountInv, ScanRead
    PROVE  CountInv'
<1>1. CASE i \in readfds /\ i \notin bound
  BY <1>1, ReturnCount, UdSelectAssumption
     DEF ScanRead, CountInv, CountMatchesSets, TypeOK, argVars
<1>2. CASE ~(i \in readfds /\ i \notin bound)
  <2>1. /\ i < NFds /\ pc = "read" /\ pc' \in {"rtest", "write"}
        /\ UNCHANGED <<sockVars, argVars, i, res_read, res_write, retval, restarted,
                       ret, steady>>
    BY <1>2 DEF ScanRead, ScanGoesOn
  <2>2. i \in Int /\ \A f \in Fd : f \in Int
    BY DEF CountInv, CountMatchesSets, TypeOK, Fd
  <2>3. TypeOK'
    BY <2>1 DEF CountInv, CountMatchesSets, TypeOK, sockVars, argVars
  <2>4. ResultsBehindScan'
    BY <2>1, <2>2 DEF CountInv, CountMatchesSets, TypeOK, ResultsBehindScan, ReadDone
  <2> QED
    BY <2>1, <2>3, <2>4 DEF CountInv, CountMatchesSets, ScanPlace
<1> QED
  BY <1>1, <1>2

\* A test of a freed socket that crashes leaves the count as it is.
LEMMA CrashCount ==
    ASSUME CountInv, TestCrashes, UNCHANGED <<sockVars, argVars, restarted, ret, steady>>
    PROVE  CountInv'
<1>1. TypeOK'
  BY DEF CountInv, CountMatchesSets, TypeOK, TestCrashes, sockVars, argVars
<1> QED
  BY <1>1 DEF CountInv, CountMatchesSets, ResultsBehindScan, ScanPlace, TestCrashes

\* Both tests of the loop body count the bit they set.
LEMMA TestReadCount ==
    ASSUME CountInv, TestRead
    PROVE  CountInv'
<1>1. CASE TestCrashes
  BY <1>1, CrashCount DEF TestRead
<1>2. CASE ~TestCrashes
  <2>1. /\ i \in Fd /\ i' = i /\ pc = "rtest" /\ pc' = "write"
        /\ UNCHANGED <<sockVars, argVars, res_write, restarted, ret, steady>>
    BY <1>2, UdSelectAssumption
       DEF TestRead, CountInv, CountMatchesSets, ScanPlace, TypeOK, Fd
  <2>2. \/ UNCHANGED <<res_read, retval>>
        \/ res_read' = res_read \cup {i} /\ retval' = retval + 1
    BY <1>2 DEF TestRead
  <2>3. i \notin res_read
    BY <2>1 DEF CountInv, ResultsBehindScan, ReadDone, CountMatchesSets, TypeOK
  <2>4. res_read' \in SUBSET Fd
    BY <2>1, <2>2 DEF CountInv, CountMatchesSets, TypeOK
  <2>5. retval' = Cardinality(res_read') + Cardinality(res_write')
    <3>1. res_read \in SUBSET Fd /\ res_write' = res_write
      BY <2>1 DEF CountInv, CountMatchesSets, TypeOK
    <3>2. retval = Cardinality(res_read) + Cardinality(res_write)
      BY DEF CountInv, CountMatchesSets
    <3>3. Cardinality(res_read) \in Nat /\ Cardinality(res_write) \in Nat
      BY ResultSetSize DEF CountInv, CountMatchesSets, TypeOK
    <3>4. CASE UNCHANGED <<res_read, retval>>
      BY <3>4, <3>1, <3>2
    <3>5. CASE res_read' = res_read \cup {i} /\ retval' = retval + 1
      <4>1. Cardinality(res_read') = Cardinality(res_read) + 1
        BY <3>5, <3>1, <2>1, <2>3, SetOneBit
      <4> QED
        BY <4>1, <3>1, <3>2, <3>3, <3>5
    <3> QED
      BY <2>2, <3>4, <3>5
  <2>6. retval' \in 0 .. 2 * NFds
    <3>1. res_write' \in SUBSET Fd
      BY <2>1 DEF CountInv, CountMatchesSets, TypeOK
    <3> QED
      BY <2>4, <2>5, <3>1, ResultSetSize, UdSelectAssumption
  <2>7. TypeOK'
    BY <2>1, <2>4, <2>6
       DEF CountInv, CountMatchesSets, TypeOK, sockVars, argVars
  <2>8. ResultsBehindScan'
    BY <2>1, <2>2 DEF CountInv, CountMatchesSets, TypeOK, ResultsBehindScan, ReadDone, Fd
  <2>9. ScanPlace'
    BY <2>1, UdSelectAssumption DEF ScanPlace, Fd
  <2> QED
    BY <2>5, <2>7, <2>8, <2>9 DEF CountInv, CountMatchesSets
<1> QED
  BY <1>1, <1>2

\* The look-up of the write half moves the scan on if there is nothing to test.
LEMMA ScanWriteCount ==
    ASSUME CountInv, ScanWrite
    PROVE  CountInv'
<1>1. CASE i \in writefds /\ i \notin bound
  BY <1>1, ReturnCount, UdSelectAssumption
     DEF ScanWrite, CountInv, CountMatchesSets, TypeOK, argVars
<1>2. CASE ~(i \in writefds /\ i \notin bound)
  <2>1. /\ i < NFds /\ pc = "write"
        /\ \/ pc' = "wtest" /\ i' = i
           \/ pc' = "read" /\ i' = i + 1
        /\ UNCHANGED <<sockVars, argVars, res_read, res_write, retval, restarted,
                       ret, steady>>
    BY <1>2 DEF ScanWrite, NextFd, CountInv, ScanPlace
  <2>2. i \in 0 .. NFds /\ \A f \in Fd : f \in Int
    BY DEF CountInv, CountMatchesSets, TypeOK, Fd
  <2>3. i' \in 0 .. NFds
    BY <2>1, <2>2, UdSelectAssumption
  <2>4. TypeOK'
    BY <2>1, <2>3 DEF CountInv, CountMatchesSets, TypeOK, sockVars, argVars
  <2>5. /\ \A f \in res_read : f < i + 1
        /\ \A f \in res_write : f < i
    BY <2>1 DEF CountInv, ResultsBehindScan, ReadDone
  <2>6. ResultsBehindScan'
    BY <2>1, <2>2, <2>5 DEF CountInv, CountMatchesSets, TypeOK, ResultsBehindScan, ReadDone
  <2> QED
    BY <2>1, <2>4, <2>6 DEF CountInv, CountMatchesSets, ScanPlace
<1> QED
  BY <1>1, <1>2

\* The test of the write half moves the scan on.
LEMMA TestWriteCount ==
    ASSUME CountInv, TestWrite
    PROVE  CountInv'
<1>1. CASE TestCrashes
  BY <1>1, CrashCount DEF TestWrite
<1>2. CASE ~TestCrashes
  <2>1. /\ i \in Fd /\ i' = i + 1 /\ pc = "wtest" /\ pc' = "read"
        /\ UNCHANGED <<sockVars, argVars, res_read, restarted, ret, steady>>
    BY <1>2, UdSelectAssumption
       DEF TestWrite, NextFd, CountInv, CountMatchesSets, ScanPlace, TypeOK, Fd
  <2>2. \/ UNCHANGED <<res_write, retval>>
        \/ res_write' = res_write \cup {i} /\ retval' = retval + 1
    BY <1>2 DEF TestWrite
  <2>3. i \notin res_write
    BY <2>1 DEF CountInv, ResultsBehindScan, CountMatchesSets, TypeOK, Fd
  <2>4. res_write' \in SUBSET Fd
    BY <2>1, <2>2 DEF CountInv, CountMatchesSets, TypeOK
  <2>5. retval' = Cardinality(res_read') + Cardinality(res_write')
    <3>1. res_write \in SUBSET Fd /\ res_read' = res_read
      BY <2>1 DEF CountInv, CountMatchesSets, TypeOK
    <3>2. retval = Cardinality(res_read) + Cardinality(res_write)
      BY DEF CountInv, CountMatchesSets
    <3>3. Cardinality(res_read) \in Nat /\ Cardinality(res_write) \in Nat
      BY ResultSetSize DEF CountInv, CountMatchesSets, TypeOK
    <3>4. CASE UNCHANGED <<res_write, retval>>
      BY <3>4, <3>1, <3>2
    <3>5. CASE res_write' = res_write \cup {i} /\ retval' = retval + 1
      <4>1. Cardinality(res_write') = Cardinality(res_write) + 1
        BY <3>5, <3>1, <2>1, <2>3, SetOneBit
      <4> QED
        BY <4>1, <3>1, <3>2, <3>3, <3>5
    <3> QED
      BY <2>2, <3>4, <3>5
  <2>6. retval' \in 0 .. 2 * NFds
    <3>1. res_read' \in SUBSET Fd
      BY <2>1 DEF CountInv, CountMatchesSets, TypeOK
    <3> QED
      BY <2>4, <2>5, <3>1, ResultSetSize, UdSelectAssumption
  <2>7. TypeOK'
    <3>1. i' \in 0 .. NFds
      BY <2>1, UdSelectAssumption DEF Fd
    <3> QED
      BY <2>1, <2>4, <2>6, <3>1
         DEF CountInv, CountMatchesSets, TypeOK, sockVars, argVars
  <2>8. ResultsBehindScan'
    <3>1. \A f \in res_read : f < i + 1
      BY <2>1 DEF CountInv, ResultsBehindScan, ReadDone
    <3>2. \A f \in res_write' : f < i + 1
      BY <2>1, <2>2 DEF CountInv, CountMatchesSets, TypeOK, ResultsBehindScan, Fd
    <3> QED
      BY <2>1, <3>1, <3>2 DEF ResultsBehindScan, ReadDone
  <2>9. ScanPlace'
    BY <2>1 DEF ScanPlace
  <2> QED
    BY <2>5, <2>7, <2>8, <2>9 DEF CountInv, CountMatchesSets
<1> QED
  BY <1>1, <1>2

\* The stack changes sockets, not the scan.
LEMMA SocketChangesCount ==
    ASSUME CountInv, SocketChanges
    PROVE  CountInv'
<1>1. UNCHANGED <<argVars, pc, i, res_read, res_write, retval, restarted, ret>>
  BY DEF SocketChanges
<1>2. bound' \subseteq Fd
  BY DEF SocketChanges, CountInv, CountMatchesSets, TypeOK
<1>3. /\ rcv' \in [Fd -> BOOLEAN] /\ cantrcv' \in [Fd -> BOOLEAN]
      /\ snd' \in [Fd -> BOOLEAN] /\ cantsnd' \in [Fd -> BOOLEAN]
  BY DEF SocketChanges, CountInv, CountMatchesSets, TypeOK
<1>4. steady' \subseteq {"r", "w"} \X Fd
  BY DEF SocketChanges, CountInv, CountMatchesSets, TypeOK
<1>5. TypeOK'
  BY <1>1, <1>2, <1>3, <1>4 DEF CountInv, CountMatchesSets, TypeOK, argVars
<1> QED
  BY <1>1, <1>5
     DEF CountInv, CountMatchesSets, ResultsBehindScan, ScanPlace, ReadDone

\* Every step keeps the invariant.
LEMMA NextCount == CountInv /\ [Next]_vars => CountInv'
<1> SUFFICES ASSUME CountInv, [Next]_vars PROVE CountInv'
  OBVIOUS
<1>1. CASE Call
  <2>1. /\ readfds' \in (SUBSET Fd) \cup {NullSet} /\ writefds' \in (SUBSET Fd) \cup {NullSet}
        /\ bound' \subseteq Fd
    BY <1>1 DEF Call, CountInv, CountMatchesSets, TypeOK, sockVars
  <2>2. steady' \subseteq {"r", "w"} \X Fd
    BY <1>1, <2>1 DEF Call, ReadyNow
  <2>3. TypeOK'
    <3>1. /\ i' \in 0 .. NFds /\ retval' \in 0 .. 2 * NFds /\ ret' \in -1 .. 2 * NFds
      BY <1>1, UdSelectAssumption DEF Call
    <3> QED
      BY <1>1, <2>1, <2>2, <3>1
       DEF Call, CountInv, CountMatchesSets, TypeOK, sockVars
  <2> QED
    BY <1>1, <2>3, FreshCount DEF Call
<1>2. CASE Scan
  BY <1>2, ScanReadCount, TestReadCount, ScanWriteCount, TestWriteCount DEF Scan
<1>4. CASE Rescan
  BY <1>4, RestartCount DEF Rescan, MustRescan, CountInv, CountMatchesSets, TypeOK
<1>5. CASE Sleep
  BY <1>5 DEF Sleep, MustSleep, CountInv, CountMatchesSets, TypeOK, sockVars, argVars,
              ResultsBehindScan, ScanPlace, ReadDone
<1>6. CASE Awake
  <2>1. CASE restarted' = TRUE /\ Restart
    BY <1>6, <2>1, RestartCount DEF Awake, CountInv, ScanPlace
  <2>2. CASE Return(-1)
    BY <1>6, <2>2, ReturnCount, UdSelectAssumption
       DEF Awake, CountInv, CountMatchesSets, TypeOK, argVars
  <2> QED
    BY <1>6, <2>1, <2>2 DEF Awake
<1>7. CASE Finish
  <2>1. CASE retval > 0 /\ NullSet \in {readfds, writefds}
    BY <1>7, <2>1 DEF Finish, CountInv, CountMatchesSets, TypeOK, sockVars, argVars,
                      ResultsBehindScan, ScanPlace, ReadDone
  <2>2. CASE ~(retval > 0 /\ NullSet \in {readfds, writefds})
    <3>1. /\ Return(retval) /\ UNCHANGED <<sockVars, timeout>>
          /\ readfds' = IF retval > 0 THEN res_read ELSE readfds
          /\ writefds' = IF retval > 0 THEN res_write ELSE writefds
      BY <1>7, <2>2 DEF Finish
    <3>2. /\ readfds' \in (SUBSET Fd) \cup {NullSet} /\ writefds' \in (SUBSET Fd) \cup {NullSet}
          /\ retval \in -1 .. 2 * NFds
      BY <3>1, UdSelectAssumption DEF CountInv, CountMatchesSets, TypeOK
    <3> QED
      BY <3>1, <3>2, ReturnCount
  <2> QED
    BY <2>1, <2>2
<1>8. CASE SocketChanges
  BY <1>8, SocketChangesCount
<1>9. CASE UNCHANGED vars
  BY <1>9 DEF vars, sockVars, argVars, CountInv, CountMatchesSets, TypeOK,
              ResultsBehindScan, ScanPlace, ReadDone
<1> QED
  BY <1>1, <1>2, <1>4, <1>5, <1>6, <1>7, <1>8, <1>9 DEF Next, Select

\* ud_select returns the number of bits in its result sets, for every nfds and
\* however often the scan was restarted.
THEOREM SelectCountMatchesSets == Spec => []CountMatchesSets
<1>1. CountInv => CountMatchesSets
  BY DEF CountInv
<1> QED
  BY InitCount, NextCount, <1>1, PTL DEF Spec

-----------------------------------------------------------------------------
(* No descriptor is overlooked *)

\* The invariant that the action property needs.
LEMMA NextSteady == CountInv /\ SteadyFound /\ [Next]_vars => SteadyFound'
<1> SUFFICES ASSUME CountInv, SteadyFound, [Next]_vars PROVE SteadyFound'
  OBVIOUS
<1>a. /\ i \in 0 .. NFds
      /\ pc \in {"rtest", "write", "wtest"} => i \in Fd
      /\ \A f \in Fd : f \in Int /\ f >= 0
  BY UdSelectAssumption DEF CountInv, CountMatchesSets, ScanPlace, TypeOK, Fd
<1>b. ASSUME steady' = {} PROVE SteadyFound'
  BY <1>b DEF SteadyFound
<1>1. CASE Call
  BY <1>1, <1>a DEF Call, SteadyFound, ReadDone
<1>2. CASE ScanRead
  <2>1. CASE i \in readfds /\ i \notin bound
    BY <1>2, <2>1, <1>b DEF ScanRead, Return
  <2>2. CASE ~(i \in readfds /\ i \notin bound)
    <3>1. /\ pc = "read" /\ pc' = IF i \in readfds THEN "rtest" ELSE "write"
          /\ UNCHANGED <<i, res_read, res_write, steady, sockVars, argVars>>
      BY <1>2, <2>2 DEF ScanRead
    <3>2. ReadyNow' = ReadyNow
      BY <3>1 DEF ReadyNow, soreadable, sowritable, sockVars, argVars
    <3>3. CASE i \in readfds
      BY <3>1, <3>2, <3>3 DEF SteadyFound, ReadDone
    <3>4. CASE i \notin readfds
      <4>1. <<"r", i>> \notin steady
        BY <3>4, ReadyNowMembers DEF SteadyFound
      <4>2. \A f \in Fd : <<"r", f>> \in steady /\ f < i + 1 => f < i
        BY <4>1, <1>a
      <4> QED
        BY <3>1, <3>2, <3>4, <4>2 DEF SteadyFound, ReadDone
    <3> QED
      BY <3>3, <3>4
  <2> QED
    BY <2>1, <2>2
<1>d. ASSUME TestCrashes, UNCHANGED <<sockVars, argVars, steady>> PROVE SteadyFound'
  <2>1. ReadyNow' = ReadyNow
    BY <1>d DEF ReadyNow, soreadable, sowritable, sockVars, argVars
  <2> QED
    BY <1>d, <2>1, <1>a DEF TestCrashes, SteadyFound, ReadDone
<1>3. CASE TestRead
  <2>1. CASE TestCrashes
    BY <1>3, <2>1, <1>d DEF TestRead
  <2>2. CASE ~TestCrashes
    <3>1. /\ i' = i /\ pc = "rtest" /\ pc' = "write" /\ res_write' = res_write
          /\ steady' = steady /\ UNCHANGED <<sockVars, argVars>>
      BY <1>3, <2>2 DEF TestRead
    <3>2. ReadyNow' = ReadyNow
      BY <3>1 DEF ReadyNow, soreadable, sowritable, sockVars, argVars
    <3>3. \A f \in Fd : <<"r", f>> \in steady /\ f < i + 1 => f \in res_read'
      <4> SUFFICES ASSUME NEW f \in Fd, <<"r", f>> \in steady, f < i + 1
                   PROVE  f \in res_read'
        OBVIOUS
      <4>1. CASE f < i
        <5>1. f \in res_read
          BY <4>1, <3>1 DEF SteadyFound, ReadDone
        <5> QED
          BY <5>1, <1>3, <2>2 DEF TestRead
      <4>2. CASE f = i
        <5>1. f \in bound /\ soreadable(f) > 0
          BY ReadyNowMembers DEF SteadyFound
        <5>2. ~MayAnswer(soreadable(i) <= 0)
          BY <4>2, <5>1 DEF MayAnswer, soreadable
        <5> QED
          BY <4>2, <5>2, <1>3, <2>2 DEF TestRead
      <4> QED
        BY <4>1, <4>2, <1>a
    <3> QED
      BY <3>1, <3>2, <3>3 DEF SteadyFound, ReadDone
  <2> QED
    BY <2>1, <2>2
<1>e. CASE ScanWrite
  <2>1. CASE i \in writefds /\ i \notin bound
    BY <1>e, <2>1, <1>b DEF ScanWrite, Return
  <2>2. CASE ~(i \in writefds /\ i \notin bound)
    <3>1. /\ pc = "write"
          /\ UNCHANGED <<res_read, res_write, steady, sockVars, argVars>>
          /\ \/ i \in writefds /\ pc' = "wtest" /\ i' = i
             \/ i \notin writefds /\ pc' = "read" /\ i' = i + 1
      BY <1>e, <2>2 DEF ScanWrite, NextFd
    <3>2. ReadyNow' = ReadyNow
      BY <3>1 DEF ReadyNow, soreadable, sowritable, sockVars, argVars
    <3>3. CASE i \in writefds
      BY <3>1, <3>2, <3>3 DEF SteadyFound, ReadDone
    <3>4. CASE i \notin writefds
      <4>1. <<"w", i>> \notin steady
        BY <3>4, ReadyNowMembers DEF SteadyFound
      <4>2. \A f \in Fd : <<"w", f>> \in steady /\ f < i + 1 => f < i
        BY <4>1, <1>a
      <4> QED
        BY <3>1, <3>2, <3>4, <4>2 DEF SteadyFound, ReadDone
    <3> QED
      BY <3>3, <3>4
  <2> QED
    BY <2>1, <2>2
<1>f. CASE TestWrite
  <2>1. CASE TestCrashes
    BY <1>f, <2>1, <1>d DEF TestWrite
  <2>2. CASE ~TestCrashes
    <3>1. /\ i' = i + 1 /\ pc = "wtest" /\ pc' = "read" /\ res_read' = res_read
          /\ steady' = steady /\ UNCHANGED <<sockVars, argVars>>
      BY <1>f, <2>2 DEF TestWrite, NextFd
    <3>2. ReadyNow' = ReadyNow
      BY <3>1 DEF ReadyNow, soreadable, sowritable, sockVars, argVars
    <3>3. \A f \in Fd : <<"w", f>> \in steady /\ f < i + 1 => f \in res_write'
      <4> SUFFICES ASSUME NEW f \in Fd, <<"w", f>> \in steady, f < i + 1
                   PROVE  f \in res_write'
        OBVIOUS
      <4>1. CASE f < i
        <5>1. f \in res_write
          BY <4>1, <3>1 DEF SteadyFound
        <5> QED
          BY <5>1, <1>f, <2>2 DEF TestWrite
      <4>2. CASE f = i
        <5>1. f \in bound /\ sowritable(f) > 0
          BY ReadyNowMembers DEF SteadyFound
        <5>2. ~MayAnswer(sowritable(i) <= 0)
          BY <4>2, <5>1 DEF MayAnswer, sowritable
        <5> QED
          BY <4>2, <5>2, <1>f, <2>2 DEF TestWrite
      <4> QED
        BY <4>1, <4>2, <1>a
    <3>4. \A f \in Fd : <<"r", f>> \in steady /\ f < i + 1 => f \in res_read
      BY <3>1 DEF SteadyFound, ReadDone
    <3> QED
      BY <3>1, <3>2, <3>3, <3>4 DEF SteadyFound, ReadDone
  <2> QED
    BY <2>1, <2>2
<1>c. ASSUME Restart, UNCHANGED <<sockVars, argVars>> PROVE SteadyFound'
  <2>1. ReadyNow' = ReadyNow
    BY <1>c DEF ReadyNow, soreadable, sowritable, sockVars, argVars
  <2> QED
    BY <2>1, <1>c, <1>a DEF Restart, SteadyFound, ReadDone
<1>4. CASE Rescan
  BY <1>4, <1>c DEF Rescan
<1>5. CASE Sleep
  <2>1. ReadyNow' = ReadyNow
    BY <1>5 DEF Sleep, ReadyNow, soreadable, sowritable, sockVars, argVars
  <2> QED
    BY <2>1, <1>5 DEF Sleep, SteadyFound, ReadDone
<1>6. CASE Awake
  BY <1>6, <1>b, <1>c DEF Awake, Return
<1>7. CASE Finish
  <2>1. CASE retval > 0 /\ NullSet \in {readfds, writefds}
    <3>1. ReadyNow' = ReadyNow
      BY <1>7, <2>1 DEF Finish, ReadyNow, soreadable, sowritable, sockVars, argVars
    <3> QED
      BY <3>1, <1>7, <2>1 DEF Finish, SteadyFound, ReadDone
  <2>2. CASE ~(retval > 0 /\ NullSet \in {readfds, writefds})
    BY <1>7, <2>2, <1>b DEF Finish, Return
  <2> QED
    BY <2>1, <2>2
<1>8. CASE SocketChanges
  <2>1. /\ steady' = steady \cap ReadyNow'
        /\ UNCHANGED <<pc, i, res_read, res_write>>
    BY <1>8 DEF SocketChanges
  <2> QED
    BY <2>1 DEF SteadyFound, ReadDone
<1>9. CASE UNCHANGED vars
  <2>1. ReadyNow' = ReadyNow
    BY <1>9 DEF vars, ReadyNow, soreadable, sowritable, sockVars, argVars
  <2> QED
    BY <2>1, <1>9 DEF vars, SteadyFound, ReadDone
<1> QED
  BY <1>1, <1>2, <1>3, <1>e, <1>f, <1>4, <1>5, <1>6, <1>7, <1>8, <1>9
     DEF Next, Select, Scan

\* A step that ends the call with 0 is the end of a whole scan that set no bit.
LEMMA TimeoutStep ==
    ASSUME CountInv, SteadyFound, Next, pc = "read", pc' = "idle", ret' = 0
    PROVE  steady = {}
<1>1. Finish /\ Return(retval) /\ retval = 0 /\ i = NFds
  BY DEF Next, Select, Scan, Call, ScanRead, TestRead, ScanWrite, TestWrite, TestCrashes,
         Rescan, Restart, Sleep, Awake, Finish, Return, SocketChanges
<1>2. res_read = {} /\ res_write = {}
  <2>1. Cardinality(res_read) = 0 /\ Cardinality(res_write) = 0
    BY <1>1, ResultSetSize DEF CountInv, CountMatchesSets, TypeOK
  <2> QED
    BY <2>1, NoBitSet DEF CountInv, CountMatchesSets, TypeOK
<1>3. \A f \in Fd : f < NFds
  BY UdSelectAssumption DEF Fd
<1>4. \A f \in Fd : <<"r", f>> \notin steady /\ <<"w", f>> \notin steady
  BY <1>1, <1>2, <1>3 DEF SteadyFound, ReadDone
<1>5. steady \subseteq {"r", "w"} \X Fd
  BY DEF CountInv, CountMatchesSets, TypeOK
<1>6. ASSUME NEW x \in steady PROVE FALSE
  <2>1. PICK w \in {"r", "w"}, f \in Fd : x = <<w, f>>
    BY <1>5
  <2> QED
    BY <1>4, <2>1
<1> QED
  BY <1>6

\* ud_select times out only if no requested descriptor was ready from the start
\* of its last scan on, whatever the stack does to the sockets meanwhile.
THEOREM SelectTimeoutMissesNothing == Spec => TimeoutMissesNothing
<1>1. Init => SteadyFound
  BY DEF Init, SteadyFound
<1>2. CountInv /\ SteadyFound /\ [Next]_vars
        => [pc = "read" /\ pc' = "idle" /\ ret' = 0 => steady = {}]_vars
  BY TimeoutStep
<1> QED
  BY InitCount, NextCount, NextSteady, <1>1, <1>2, PTL DEF Spec, TimeoutMissesNothing
=============================================================================

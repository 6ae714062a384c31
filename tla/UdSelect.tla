------------------------------ MODULE UdSelect ------------------------------
(***************************************************************************)
(* ud_select: one application thread polls a set of sockets while the      *)
(* network stack and other threads change them under the scan.  Looking a  *)
(* descriptor up (ud_fd_get_sock) and testing its socket are two steps:    *)
(* the test (uinet_soreadable, uinet_sowritable) takes the socket buffer's *)
(* lock, but nothing holds between the look-up and the test, nor between   *)
(* two tests.                                                              *)
(***************************************************************************)
EXTENDS Integers, FiniteSets

CONSTANTS
    NFds,      \* the nfds argument; descriptors are 0 .. NFds - 1
    Listener   \* the descriptors that listen for connections

ASSUME UdSelectAssumption == NFds \in Nat /\ Listener \subseteq 0 .. NFds - 1

Fd == 0 .. NFds - 1
NullSet == {-1}       \* stands for a NULL fd_set pointer

VARIABLES
    bound,               \* descriptors whose slot of the table holds a socket
    rcv, cantrcv,        \* so_rcv has data (so_qlen > 0); no more will come
    snd, cantsnd,        \* so_snd has space; nothing more may be sent
    readfds, writefds,   \* the caller's sets
    timeout,             \* "null", "zero" or "some"
    pc, i, res_read, res_write, retval, restarted,
    ret,                 \* what the last call returned, 0 during a call
    steady               \* <<what, fd>> requested and ready since the scan began

sockVars == <<bound, rcv, cantrcv, snd, cantsnd>>
argVars  == <<readfds, writefds, timeout>>
vars == <<sockVars, argVars, pc, i, res_read, res_write, retval, restarted,
          ret, steady>>

-----------------------------------------------------------------------------
(* The stack's view of a socket *)

\* Mutant: data that came before the end of the stream is no longer announced.
soreadable_eof_first(f) == IF cantrcv[f] THEN -1 ELSE IF rcv[f] THEN 1 ELSE 0

\* Data first; then -1 for an error or the end of the stream; a listening socket
\* counts connections.
soreadable(f) ==
    IF f \in Listener
    THEN IF cantrcv[f] THEN -1 ELSE IF rcv[f] THEN 1 ELSE 0
    ELSE IF rcv[f] THEN 1 ELSE IF cantrcv[f] THEN -1 ELSE 0

sowritable(f) ==
    IF f \in Listener THEN 0
    ELSE IF cantsnd[f] THEN -1 ELSE IF snd[f] THEN 1 ELSE 0

\* What the scan would find at this moment.
ReadyNow == {<<"r", f>> : f \in {g \in readfds \cap bound : soreadable(g) > 0}}
       \cup {<<"w", f>> : f \in {g \in writefds \cap bound : sowritable(g) > 0}}

\* Data, connections and acknowledgements arrive, the application consumes or
\* sends, the peer closes or resets, another thread closes the descriptor.
SocketChanges ==
    /\ \E f \in Fd :
        \/ /\ rcv[f] \/ ~cantrcv[f]
           /\ rcv' = [rcv EXCEPT ![f] = ~@]
           /\ UNCHANGED <<cantrcv, snd, cantsnd, bound>>
        \/ /\ f \notin Listener
           /\ snd' = [snd EXCEPT ![f] = ~@]
           /\ UNCHANGED <<rcv, cantrcv, cantsnd, bound>>
        \/ /\ cantrcv' = [cantrcv EXCEPT ![f] = TRUE]
           /\ UNCHANGED <<rcv, snd, cantsnd, bound>>
        \/ /\ f \notin Listener
           /\ cantrcv' = [cantrcv EXCEPT ![f] = TRUE]
           /\ cantsnd' = [cantsnd EXCEPT ![f] = TRUE]
           /\ UNCHANGED <<rcv, snd, bound>>
        \/ bound' = bound \ {f} /\ UNCHANGED <<rcv, cantrcv, snd, cantsnd>>
    /\ UNCHANGED <<argVars, pc, i, res_read, res_write, retval, restarted, ret>>
    /\ steady' = steady \cap ReadyNow'

-----------------------------------------------------------------------------
(* ud_select *)

Init ==
    /\ bound = Fd
    /\ rcv = [f \in Fd |-> FALSE] /\ cantrcv = [f \in Fd |-> FALSE]
    /\ snd = [f \in Fd |-> FALSE] /\ cantsnd = [f \in Fd |-> FALSE]
    /\ readfds = NullSet /\ writefds = NullSet /\ timeout = "zero"
    /\ pc = "idle"
    /\ i = 0 /\ res_read = {} /\ res_write = {} /\ retval = 0 /\ restarted = FALSE
    /\ ret = 0 /\ steady = {}

Call ==
    /\ pc = "idle"
    /\ readfds' \in (SUBSET Fd) \cup {NullSet}
    /\ writefds' \in (SUBSET Fd) \cup {NullSet}
    /\ timeout' \in {"null", "zero", "some"}
    /\ pc' = "read" /\ i' = 0
    /\ res_read' = {} /\ res_write' = {}
    /\ retval' = 0 /\ restarted' = FALSE
    /\ ret' = 0
    /\ UNCHANGED sockVars
    /\ steady' = ReadyNow'

\* The call ends, and its local variables with it.
Return(value) ==
    /\ ret' = value
    /\ pc' = "idle"
    /\ i' = 0 /\ res_read' = {} /\ res_write' = {}
    /\ retval' = 0 /\ restarted' = FALSE
    /\ steady' = {}

ScanGoesOn(n) == n < NFds

\* The read half of the loop body: the descriptor is looked up ...
ScanRead ==
    /\ pc = "read" /\ ScanGoesOn(i)
    /\ IF i \in readfds /\ i \notin bound
       THEN Return(-1)
       ELSE /\ pc' = IF i \in readfds THEN "rtest" ELSE "write"
            /\ UNCHANGED <<i, res_read, res_write, retval, restarted, ret, steady>>
    /\ UNCHANGED <<sockVars, argVars>>

\* A test answers for the socket, unless another thread has closed it since the
\* look-up: the pointer is then to freed memory, and the answer is anything.
MayAnswer(claim) == i \in bound => claim

\* ... or the test does not come back.
TestCrashes ==
    /\ i \notin bound
    /\ pc' = "crash"
    /\ UNCHANGED <<i, res_read, res_write, retval>>

\* ... and its socket is tested.
TestRead ==
    /\ pc = "rtest"
    /\ \/ /\ MayAnswer(soreadable(i) > 0)
          /\ res_read' = res_read \cup {i} /\ retval' = retval + 1
          /\ pc' = "write" /\ UNCHANGED <<i, res_write>>
       \/ /\ MayAnswer(soreadable(i) <= 0)
          /\ pc' = "write" /\ UNCHANGED <<i, res_read, res_write, retval>>
       \/ TestCrashes
    /\ UNCHANGED <<sockVars, argVars, restarted, ret, steady>>

\* Mutant: the last descriptor is left out.
NextFdSkippingLast(n) == IF n + 2 = NFds THEN NFds ELSE n + 1

NextFd(n) == n + 1

\* The write half likewise, and the step to the next descriptor.
ScanWrite ==
    /\ pc = "write"
    /\ IF i \in writefds /\ i \notin bound
       THEN Return(-1)
       ELSE /\ IF i \in writefds
               THEN pc' = "wtest" /\ UNCHANGED i
               ELSE pc' = "read" /\ i' = NextFd(i)
            /\ UNCHANGED <<res_read, res_write, retval, restarted, ret, steady>>
    /\ UNCHANGED <<sockVars, argVars>>

TestWrite ==
    /\ pc = "wtest"
    /\ \/ /\ MayAnswer(sowritable(i) > 0)
          /\ res_write' = res_write \cup {i} /\ retval' = retval + 1
          /\ pc' = "read" /\ i' = NextFd(i) /\ UNCHANGED res_read
       \/ /\ MayAnswer(sowritable(i) <= 0)
          /\ pc' = "read" /\ i' = NextFd(i) /\ UNCHANGED <<res_read, res_write, retval>>
       \/ TestCrashes
    /\ UNCHANGED <<sockVars, argVars, restarted, ret, steady>>

\* goto RESTART
Restart ==
    /\ i' = 0 /\ pc' = "read"
    /\ steady' = ReadyNow
    /\ UNCHANGED <<res_read, res_write, retval, ret>>

\* Mutant: the scan is repeated although it found something.
MustRescanAlways == timeout = "null"

MustRescan == retval = 0 /\ timeout = "null"

\* No timeout was given and nothing is ready: scan again at once.
Rescan ==
    /\ pc = "read" /\ i = NFds
    /\ MustRescan
    /\ Restart
    /\ UNCHANGED <<sockVars, argVars, restarted>>

\* The first scan found nothing and there is time to wait.
MustSleep == ~restarted /\ retval = 0 /\ timeout = "some"

Sleep ==
    /\ pc = "read" /\ i = NFds
    /\ MustSleep
    /\ pc' = "sleep"
    /\ UNCHANGED <<sockVars, argVars, i, res_read, res_write, retval, restarted,
                   ret, steady>>

\* clock_nanosleep returns: the interval has passed, or a signal came and the
\* call fails.  The interval is not the caller's: the timeval is handed over as a
\* timespec, and its microseconds are slept as nanoseconds.  The model keeps no
\* time, and no property depends on the length.
Awake ==
    /\ pc = "sleep"
    /\ (restarted' = TRUE /\ Restart) \/ Return(-1)
    /\ UNCHANGED <<sockVars, argVars>>

\* The two memcpy calls: both sets are written, so neither pointer may be NULL.
Finish ==
    /\ pc = "read" /\ i = NFds
    /\ ~MustRescan /\ ~MustSleep
    /\ IF retval > 0 /\ NullSet \in {readfds, writefds}
       THEN /\ pc' = "crash"
            /\ UNCHANGED <<argVars, i, res_read, res_write, retval, restarted,
                           ret, steady>>
       ELSE /\ Return(retval)
            /\ readfds' = IF retval > 0 THEN res_read ELSE readfds
            /\ writefds' = IF retval > 0 THEN res_write ELSE writefds
            /\ UNCHANGED timeout
    /\ UNCHANGED sockVars

Scan == ScanRead \/ TestRead \/ ScanWrite \/ TestWrite

Select == Scan \/ Rescan \/ Sleep \/ Awake \/ Finish

Next == pc # "crash" /\ (Call \/ Select \/ SocketChanges)

\* The calling thread keeps running, and clock_nanosleep returns.
Spec == Init /\ [][Next]_vars /\ WF_vars(pc # "crash" /\ Select)

-----------------------------------------------------------------------------
(* Properties *)

\* All variables have their types.
TypeOK ==
    /\ bound \subseteq Fd
    /\ {rcv, cantrcv, snd, cantsnd} \subseteq [Fd -> BOOLEAN]
    /\ {readfds, writefds} \subseteq (SUBSET Fd) \cup {NullSet}
    /\ timeout \in {"null", "zero", "some"}
    /\ pc \in {"idle", "read", "rtest", "write", "wtest", "sleep", "crash"}
    /\ i \in 0 .. NFds
    /\ {res_read, res_write} \subseteq SUBSET Fd
    /\ retval \in 0 .. 2 * NFds /\ ret \in -1 .. 2 * NFds
    /\ restarted \in BOOLEAN
    /\ steady \subseteq {"r", "w"} \X Fd

\* The count is that of the bits in the result sets, however often the scan was
\* restarted (retval and the result sets are not cleared at RESTART), and the
\* loop variable stays within the sets.
CountMatchesSets == TypeOK /\ retval = Cardinality(res_read) + Cardinality(res_write)

\* ud_select times out only if no requested descriptor was ready from the start
\* of the last scan on: sockets that change during the scan cannot hide one that
\* does not.
TimeoutMissesNothing ==
    [][pc = "read" /\ pc' = "idle" /\ ret' = 0 => steady = {}]_vars

InScan == pc \in {"read", "rtest", "write", "wtest"}

\* A call does not poll forever, also when the timeout is NULL, once a connected
\* socket it looks at has data and keeps it (even if the peer then closes), or
\* has been closed by another thread.  A crash ends the call too: through a NULL
\* set that is written, or through the pointer to a socket that was closed
\* between its look-up and its test.
ReadyEndsSelect ==
    \A f \in Fd \ Listener :
        InScan /\ f \in readfds
            ~> \/ pc \in {"idle", "crash"}
               \/ f \in bound /\ ~rcv[f]

\* What ud_select.h promises for a descriptor in READFDS: the end of the stream
\* is readiness (a read would not block), so the call ends.
EndOfStreamEndsSelect ==
    \A f \in Fd : InScan /\ f \in readfds /\ cantrcv[f]
                    ~> pc \in {"idle", "crash"}
=============================================================================

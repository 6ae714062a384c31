------------------------------ MODULE UdSocket ------------------------------
(***************************************************************************)
(* The POSIX-like descriptor layer of libudsock: the table of ud_file.c    *)
(* and the calls that create, use and close descriptors (ud_socket,        *)
(* ud_accept, ud_close, and the data calls, which all begin with           *)
(* ud_fd_get_sock).                                                        *)
(*                                                                         *)
(* The table takes no lock, so every access to a slot is a step of its own.*)
(* The application gives each descriptor to one thread at a time, as the   *)
(* echo server does: one thread accepts, one worker per connection uses    *)
(* the descriptor and closes it.  A caller takes any result that is not    *)
(* negative for a descriptor, as all callers in the repository do.         *)
(***************************************************************************)
EXTENDS Integers, FiniteSets

CONSTANTS
    Thread,     \* application threads
    Allocator,  \* the threads that call ud_socket and ud_accept
    Sock,       \* struct uinet_socket addresses (reused after uinet_soclose)
    Null,       \* the NULL pointer
    MaxFd,      \* UD_SOCKET_DESC_MAX
    Errno       \* the BSD errors uinet_socreate and uinet_soaccept may return

ASSUME UdSocketAssumption ==
    /\ Allocator \subseteq Thread
    /\ Null \notin Sock
    /\ MaxFd \in Nat \ {0}
    /\ Errno \subseteq 1 .. MaxFd

VARIABLES
    fds,      \* fds_table->fds
    open,     \* the sockets that exist
    handles,  \* descriptors the application holds and no thread is using
    pc,       \* where each thread is
    i,        \* ud_fd_get_free's index
    so,       \* the socket pointer a call works with
    cur       \* the handle a call was given

vars == <<fds, open, handles, pc, i, so, cur>>

\* Slot MaxFd is the word behind the array.  The table ends inside the last
\* page of its mapping, so that word can be read and written.
Slot == 0 .. MaxFd

\* What the application was given: the number returned, and the socket the call
\* made for it (Null when the number is an error code).
Handle == [fd : Slot, so : Sock \cup {Null}]
NoHandle == [fd |-> 0, so |-> Null]

\* ud_fd_create_shm clears the table.
Init ==
    /\ fds = [n \in Slot |-> Null]
    /\ open = {}
    /\ handles = {}
    /\ pc = [t \in Thread |-> "idle"]
    /\ i = [t \in Thread |-> 0]
    /\ so = [t \in Thread |-> Null]
    /\ cur = [t \in Thread |-> NoHandle]

-----------------------------------------------------------------------------
(* ud_socket, ud_accept *)

\* uinet_socreate and uinet_soaccept hand out a socket that is not in use; the
\* descriptor search begins.  The application has the handles in `given' back.
NewSocket(t, given) ==
    \E s \in Sock \ open :
        /\ open' = open \cup {s}
        /\ so' = [so EXCEPT ![t] = s]
        /\ i' = [i EXCEPT ![t] = 1]
        /\ pc' = [pc EXCEPT ![t] = "get_free"]
        /\ handles' = handles \cup given

\* The errno value itself is the result.
ErrorResult(e) == e

\* The stack fails.
ReturnError(t, given) ==
    \E e \in Errno :
        /\ handles' = handles \cup given \cup {[fd |-> ErrorResult(e), so |-> Null]}
        /\ pc' = [pc EXCEPT ![t] = "idle"]
        /\ so' = [so EXCEPT ![t] = Null]
        /\ UNCHANGED <<open, i>>

UdSocketCall(t) ==
    /\ t \in Allocator
    /\ pc[t] = "idle"
    /\ NewSocket(t, {}) \/ ReturnError(t, {})
    /\ UNCHANGED <<fds, cur>>

\* Mutant: the search stops at the first slot in use.
SlotTakenInverted(n) == n < MaxFd /\ fds[n] = Null

\* The loop condition and the test in the loop of ud_fd_get_free.
SlotTaken(n) == n < MaxFd /\ fds[n] # Null

GetFree(t) ==
    /\ pc[t] = "get_free"
    /\ IF SlotTaken(i[t])
       THEN i' = [i EXCEPT ![t] = @ + 1] /\ UNCHANGED pc
       ELSE pc' = [pc EXCEPT ![t] = "set_sock"] /\ UNCHANGED i
    /\ UNCHANGED <<fds, open, handles, so, cur>>

\* ud_fd_set_sock: the index found is never -1.
SetSock(t) ==
    /\ pc[t] = "set_sock"
    /\ fds' = [fds EXCEPT ![i[t]] = so[t]]
    /\ handles' = handles \cup {[fd |-> i[t], so |-> so[t]]}
    /\ so' = [so EXCEPT ![t] = Null]
    /\ pc' = [pc EXCEPT ![t] = "idle"]
    /\ UNCHANGED <<open, i, cur>>

-----------------------------------------------------------------------------
(* Calls on a descriptor *)

\* ud_fd_get_sock
SockOf(n) == fds[n]

\* The first step of every call: the thread now works with the pointer, whatever
\* happens to the slot.
GetSock(t, h, next) ==
    /\ pc[t] = "idle"
    /\ h \in handles
    /\ handles' = handles \ {h}
    /\ cur' = [cur EXCEPT ![t] = h]
    /\ so' = [so EXCEPT ![t] = SockOf(h.fd)]
    /\ pc' = [pc EXCEPT ![t] = next]
    /\ UNCHANGED <<fds, open, i>>

\* ud_accept: the look-up.  A descriptor without a socket returns -1 and changes
\* nothing.
UdAccept(t) ==
    /\ t \in Allocator
    /\ \E h \in handles : SockOf(h.fd) # Null /\ GetSock(t, h, "accept")

\* uinet_soaccept, which may block as long as it likes: a connection, an error,
\* or the end of the process if the pointer is no socket any more.
SoAccept(t) ==
    /\ pc[t] = "accept"
    /\ IF so[t] \in open
       THEN NewSocket(t, {cur[t]}) \/ ReturnError(t, {cur[t]})
       ELSE /\ pc' = [pc EXCEPT ![t] = "crash"]
            /\ handles' = handles \cup {cur[t]}
            /\ so' = [so EXCEPT ![t] = Null]
            /\ UNCHANGED <<open, i>>
    /\ cur' = [cur EXCEPT ![t] = NoHandle]
    /\ UNCHANGED fds

\* ud_recvfrom, ud_connect, ud_listen, ud_fcntl, ...: a slot without a socket is
\* EBADF, and nothing changes.
UdUse(t) == \E h \in handles : SockOf(h.fd) # Null /\ GetSock(t, h, "use")

\* ud_send and ud_sendto do not look whether there is a socket.
UdSend(t) == \E h \in handles : GetSock(t, h, "use")

\* The stack's part of the call; the thread may then use the descriptor again.
\* A pointer that is not a socket ends the process.
UseDone(t) ==
    /\ pc[t] = "use"
    /\ pc' = [pc EXCEPT ![t] = IF so[t] \in open THEN "idle" ELSE "crash"]
    /\ handles' = handles \cup {cur[t]}
    /\ so' = [so EXCEPT ![t] = Null]
    /\ cur' = [cur EXCEPT ![t] = NoHandle]
    /\ UNCHANGED <<fds, open, i>>

\* Mutant: the socket is closed while the table still names it.
CloseStepsReversed == <<"soclose", "fd_free">>

\* The order of ud_close's two effects.
CloseSteps == <<"fd_free", "soclose">>

\* Mutant: the socket itself is never closed.
AfterCloseStepForgetting(step) == "idle"

\* What a closing thread does after one of the two steps.
AfterCloseStep(step) == IF step = CloseSteps[1] THEN CloseSteps[2] ELSE "idle"

UdClose(t) == \E h \in handles : GetSock(t, h, CloseSteps[1])

Cleared(n) == [fds EXCEPT ![n] = Null]

FdFree(t) ==
    /\ pc[t] = "fd_free"
    /\ fds' = Cleared(cur[t].fd)
    /\ pc' = [pc EXCEPT ![t] = AfterCloseStep("fd_free")]
    /\ UNCHANGED <<open, handles, i, so, cur>>

\* uinet_soclose dereferences its argument: NULL or a pointer to a socket that
\* is gone ends the process.
SoClose(t) ==
    /\ pc[t] = "soclose"
    /\ open' = open \ {so[t]}
    /\ pc' = [pc EXCEPT ![t] = IF so[t] \in open
                               THEN AfterCloseStep("soclose") ELSE "crash"]
    /\ so' = [so EXCEPT ![t] = Null]
    /\ UNCHANGED <<fds, handles, i, cur>>

Alive == \A t \in Thread : pc[t] # "crash"

Next == Alive /\ \E t \in Thread :
    \/ UdSocketCall(t) \/ UdAccept(t) \/ SoAccept(t) \/ GetFree(t) \/ SetSock(t)
    \/ UdUse(t) \/ UdSend(t) \/ UseDone(t)
    \/ UdClose(t) \/ FdFree(t) \/ SoClose(t)

Spec == Init /\ [][Next]_vars

-----------------------------------------------------------------------------
(* Properties *)

\* All variables have their types.
TypeOK ==
    /\ fds \in [Slot -> Sock \cup {Null}]
    /\ open \subseteq Sock
    /\ handles \subseteq Handle
    /\ pc \in [Thread -> {"idle", "get_free", "set_sock", "accept", "use", "fd_free",
                          "soclose", "crash"}]
    /\ i \in [Thread -> Slot]
    /\ so \in [Thread -> Sock \cup {Null}]
    /\ cur \in [Thread -> Handle]

\* The table never names a socket that uinet_soclose has released, and no
\* socket under two descriptors: ud_close clears the slot before it closes.
SlotsNameOpenSockets ==
    /\ \A n \in Slot : fds[n] # Null => fds[n] \in open
    /\ \A m, n \in Slot : m # n /\ fds[m] # Null => fds[m] # fds[n]

\* Every descriptor the application was given for a socket still names that
\* socket, so no two of them are the same number, while other threads allocate,
\* use and close descriptors without any lock (ud_fd_set_sock, ud_close).
DescriptorsNameTheirSockets ==
    /\ \A h \in handles : h.so # Null => fds[h.fd] = h.so /\ h.so \in open
    /\ \A h, k \in handles : h.fd = k.fd => h = k

\* A pointer read from the table is still a live socket when the stack is called
\* with it, for accepts, uses and closes; only an error number taken for a descriptor
\* leads to anything else.
OperandsAreOpen ==
    \A t \in Thread :
        pc[t] \in {"accept", "use", "soclose"} /\ cur[t].so # Null => so[t] \in open

\* Neither the table nor a call under way points to a socket that is gone, in
\* states of the right type.
PointersAreOpen == TypeOK /\ SlotsNameOpenSockets /\ OperandsAreOpen

\* Every socket of the stack can be closed by someone: it has a descriptor, or a
\* call that is about to give it one or to close it.
NoSocketLeaks ==
    \A s \in open : \/ \E n \in Slot : fds[n] = s
                    \/ \E t \in Thread : so[t] = s
=============================================================================

--------------------------- MODULE UdSocketProofs ---------------------------
(***************************************************************************)
(* What is proved of UdSocket for any number of threads, of threads that   *)
(* create sockets, and of sockets: the table without a lock confuses or    *)
(* loses a socket in three ways only.  Two threads found the same free     *)
(* slot, a search ran off the end of the table, or an error number that    *)
(* was taken for a descriptor is the number of one in use.  In behaviours  *)
(* where none of these happens every descriptor is right.  (The run that   *)
(* expects a violation shows the first of them.)                           *)
(***************************************************************************)
EXTENDS UdSocket, TLAPS

-----------------------------------------------------------------------------
(* The conditions, and the inductive invariant *)

\* No two threads are about to store into the same slot (ud_fd_set_sock).
NoSlotFoundTwice ==
    \A t, u \in Thread : t # u /\ pc[t] = "set_sock" /\ pc[u] = "set_sock" => i[t] # i[u]

\* Every search that has ended found a slot of the table (ud_fd_get_free).
EverySearchFinds == \A t \in Thread : pc[t] = "set_sock" => i[t] < MaxFd

\* No error number that the application takes for a descriptor, or that
\* ud_close is about to free, is the number of a descriptor in use.
ErrorsNameNothing ==
    /\ \A h \in handles : h.so = Null => fds[h.fd] = Null
    /\ \A t \in Thread : pc[t] = "fd_free" /\ cur[t].so = Null => fds[cur[t].fd] = Null

Orderly == NoSlotFoundTwice /\ EverySearchFinds /\ ErrorsNameNothing

\* The threads that hold the pointer of a descriptor which the table names.
Using(t) == pc[t] \in {"accept", "use", "fd_free"} /\ cur[t].so # Null
\* The threads that own a socket no descriptor names: it has none yet, or none
\* any more.
Making(t) == pc[t] \in {"get_free", "set_sock"}
Closing(t) == pc[t] = "soclose" /\ cur[t].so # Null

\* The slots in use hold different sockets that exist.
TableOK ==
    /\ \A n \in Slot : fds[n] # Null => fds[n] \in open
    /\ \A m, n \in Slot : m # n /\ fds[m] # Null => fds[m] # fds[n]

\* A handle names its socket, unless it is an error number.
HandlesOK == \A h \in handles : h.so # Null => fds[h.fd] = h.so

\* A descriptor in use by a thread names its socket, belongs to that thread
\* alone, and an error number taken for a descriptor leads to NULL.
UsersOK ==
    /\ \A t \in Thread : Using(t) =>
         fds[cur[t].fd] = cur[t].so /\ so[t] = cur[t].so /\ cur[t] \notin handles
    /\ \A t, u \in Thread : t # u /\ Using(t) /\ Using(u) => cur[t] # cur[u]
    /\ \A t \in Thread : pc[t] \in {"accept", "use", "fd_free", "soclose"} /\ cur[t].so = Null =>
         so[t] = Null
    /\ \A t \in Thread : pc[t] \in {"idle", "crash"} => so[t] = Null

\* A socket without a descriptor belongs to one thread.
OwnersOK ==
    /\ \A t \in Thread : Making(t) \/ Closing(t) =>
         so[t] \in open /\ \A n \in Slot : fds[n] # so[t]
    /\ \A t, u \in Thread : t # u /\ (Making(t) \/ Closing(t)) /\ (Making(u) \/ Closing(u))
                              => so[t] # so[u]

\* The slot that a search found stays free.
SearchOK == \A t \in Thread : pc[t] = "set_sock" /\ i[t] < MaxFd => fds[i[t]] = Null

\* The inductive invariant.
SockInv ==
    /\ TypeOK /\ TableOK /\ HandlesOK /\ UsersOK /\ OwnersOK /\ SearchOK /\ NoSocketLeaks

-----------------------------------------------------------------------------
(* Facts about the operators *)

\* What the type invariant says of the parts of a handle.
LEMMA HandleParts ==
    ASSUME TypeOK
    PROVE  /\ \A h \in handles : h.fd \in Slot /\ h.so \in Sock \cup {Null}
           /\ \A t \in Thread : cur[t].fd \in Slot /\ cur[t].so \in Sock \cup {Null}
           /\ \A h \in Handle : h = [fd |-> h.fd, so |-> h.so]
           /\ handles \subseteq Handle /\ \A t \in Thread : cur[t] \in Handle
BY DEF TypeOK, Handle

\* A step that stores nothing in the table and ends no search leaves the slots
\* that searches have found as they were.
LEMMA SearchFrame ==
    ASSUME TypeOK, SearchOK, i' = i,
           \A n \in Slot : fds[n] = Null => fds'[n] = Null,
           \A t \in Thread : pc'[t] = "set_sock" => pc[t] = "set_sock"
    PROVE  SearchOK'
BY DEF SearchOK, TypeOK

-----------------------------------------------------------------------------
(* ud_socket, ud_accept *)

\* A new socket is in no slot and belongs to the thread that asked for it.  The
\* call may have come from ud_accept, whose descriptor goes back to the
\* application.
LEMMA NewSocketStep ==
    ASSUME SockInv, NEW t \in Thread, NEW h \in handles \cup {cur[t]},
           \/ pc[t] = "idle" /\ NewSocket(t, {}) /\ cur' = cur
           \/ /\ pc[t] = "accept" /\ h = cur[t] /\ NewSocket(t, {h})
              /\ cur' = [cur EXCEPT ![t] = NoHandle],
           fds' = fds
    PROVE  SockInv'
<1>g. PICK g : g = IF pc[t] = "accept" THEN {h} ELSE {}
  OBVIOUS
<1>1. PICK s \in Sock \ open :
        /\ open' = open \cup {s}
        /\ so' = [so EXCEPT ![t] = s]
        /\ i' = [i EXCEPT ![t] = 1]
        /\ pc' = [pc EXCEPT ![t] = "get_free"]
        /\ handles' = handles \cup g
  BY <1>g DEF NewSocket
<1>2. s # Null /\ pc[t] \in {"idle", "accept"}
  BY UdSocketAssumption
<1>3. /\ pc'[t] = "get_free" /\ so'[t] = s
      /\ \A u \in Thread \ {t} : /\ pc'[u] = pc[u] /\ so'[u] = so[u] /\ i'[u] = i[u]
                                 /\ cur'[u] = cur[u]
  BY <1>1 DEF SockInv, TypeOK
<1>4. \A n \in Slot : fds[n] # s
  BY <1>1, <1>2 DEF SockInv, TableOK
<1>5. TypeOK'
  <2>1. 1 \in Slot /\ NoHandle \in Handle
    BY UdSocketAssumption DEF Slot, NoHandle, Handle
  <2>2. g \subseteq Handle
    BY <1>g DEF SockInv, TypeOK
  <2>3. cur' \in [Thread -> Handle]
    BY <2>1 DEF SockInv, TypeOK
  <2> QED
    BY <1>1, <1>2, <2>1, <2>2, <2>3 DEF SockInv, TypeOK
<1>6. \A k \in g : k = cur[t] /\ pc[t] = "accept" /\ (k.so # Null => Using(t))
  BY <1>g DEF Using
<1>7. TableOK' /\ HandlesOK'
  BY <1>1, <1>6 DEF SockInv, TableOK, HandlesOK, UsersOK
<1>8. \A u \in Thread \ {t} : /\ Using(u)' <=> Using(u)
                              /\ Making(u)' <=> Making(u)
                              /\ Closing(u)' <=> Closing(u)
  BY <1>3 DEF Using, Making, Closing
<1>9. UsersOK'
  <2>1. \A u \in Thread : Using(u)' => u # t /\ Using(u)
    BY <1>3, <1>8 DEF Using
  <2>2. \A u \in Thread \ {t} : Using(u) => cur[u] \notin g
    BY <1>6 DEF SockInv, UsersOK, Using
  <2>3. \A u \in Thread : Using(u)' =>
          fds'[cur'[u].fd] = cur'[u].so /\ so'[u] = cur'[u].so /\ cur'[u] \notin handles'
    BY <2>1, <2>2, <1>1, <1>3 DEF SockInv, UsersOK
  <2>4. \A u, v \in Thread : u # v /\ Using(u)' /\ Using(v)' => cur'[u] # cur'[v]
    BY <2>1, <1>3 DEF SockInv, UsersOK
  <2>5. \A u \in Thread : pc'[u] \in {"accept", "use", "fd_free", "soclose"} /\ cur'[u].so = Null =>
          so'[u] = Null
    BY <1>3 DEF SockInv, UsersOK
  <2>6. \A u \in Thread : pc'[u] \in {"idle", "crash"} => so'[u] = Null
    BY <1>3 DEF SockInv, UsersOK
  <2> QED
    BY <2>3, <2>4, <2>5, <2>6 DEF UsersOK
<1>10. OwnersOK'
  <2>1. \A u \in Thread \ {t} : Making(u) \/ Closing(u) => so[u] \in open /\ so[u] # s
    BY <1>1 DEF SockInv, OwnersOK
  <2> QED
    BY <1>1, <1>3, <1>4, <1>8, <2>1 DEF SockInv, OwnersOK
<1>11. SearchOK'
  BY <1>3 DEF SockInv, SearchOK
<1>12. NoSocketLeaks'
  <2> SUFFICES ASSUME NEW x \in open'
               PROVE  (\E n \in Slot : fds'[n] = x) \/ (\E u \in Thread : so'[u] = x)
    BY DEF NoSocketLeaks
  <2>1. CASE x = s
    BY <2>1, <1>3
  <2>2. CASE x \in open
    <3>1. (\E n \in Slot : fds[n] = x) \/ (\E u \in Thread : so[u] = x)
      BY <2>2 DEF SockInv, NoSocketLeaks
    <3>2. x # Null
      BY <2>2, UdSocketAssumption DEF SockInv, TypeOK
    <3>3. so[t] = x => \E n \in Slot : fds[n] = x
      <4> SUFFICES ASSUME so[t] = x PROVE \E n \in Slot : fds[n] = x
        OBVIOUS
      <4>1. Using(t)
        BY <3>2, <1>2 DEF Using, SockInv, UsersOK
      <4>2. fds[cur[t].fd] = x /\ cur[t].fd \in Slot
        BY <4>1, HandleParts DEF SockInv, UsersOK
      <4> QED
        BY <4>2
    <3> QED
      BY <3>1, <3>3, <1>3
  <2> QED
    BY <2>1, <2>2, <1>1
<1> QED
  BY <1>5, <1>7, <1>9, <1>10, <1>11, <1>12 DEF SockInv

\* An error number becomes a handle without a socket.
LEMMA SocketErrorStep ==
    ASSUME SockInv, NEW t \in Thread, pc[t] = "idle", ReturnError(t, {}), UNCHANGED <<fds, cur>>
    PROVE  SockInv'
<1>1. PICK e \in Errno : /\ handles' = handles \cup {[fd |-> e, so |-> Null]}
                         /\ pc' = [pc EXCEPT ![t] = "idle"] /\ so' = [so EXCEPT ![t] = Null]
                         /\ UNCHANGED <<open, i>>
  BY DEF ReturnError, ErrorResult
<1>2. pc' = pc /\ so' = so
  BY <1>1 DEF SockInv, TypeOK, UsersOK
<1>3. TypeOK'
  <2>1. [fd |-> e, so |-> Null] \in Handle
    BY UdSocketAssumption DEF Handle, Slot
  <2> QED
    BY <1>1, <1>2, <2>1 DEF SockInv, TypeOK
<1>4. TableOK' /\ HandlesOK'
  BY <1>1 DEF SockInv, TableOK, HandlesOK
<1>5. UsersOK'
  BY <1>1, <1>2 DEF SockInv, UsersOK, Using
<1>6. OwnersOK' /\ NoSocketLeaks'
  BY <1>1, <1>2 DEF SockInv, OwnersOK, Making, Closing, NoSocketLeaks
<1>7. SearchOK'
  BY <1>1, <1>2 DEF SockInv, SearchOK
<1> QED
  BY <1>3, <1>4, <1>5, <1>6, <1>7 DEF SockInv

\* The search moves on from a slot that is taken, or stops at one that is free
\* or behind the table.
LEMMA GetFreeStep ==
    ASSUME SockInv, NEW t \in Thread, GetFree(t)
    PROVE  SockInv'
<1>1. pc[t] = "get_free" /\ UNCHANGED <<fds, open, handles, so, cur>> /\ i[t] \in Slot
  BY DEF GetFree, SockInv, TypeOK
<1>2. \A u \in Thread \ {t} : pc'[u] = pc[u] /\ i'[u] = i[u]
  BY DEF GetFree, SockInv, TypeOK
<1>3. \/ /\ i[t] < MaxFd /\ pc' = pc /\ i' = [i EXCEPT ![t] = i[t] + 1]
      \/ /\ i[t] < MaxFd => fds[i[t]] = Null
         /\ i' = i /\ pc' = [pc EXCEPT ![t] = "set_sock"] /\ pc'[t] = "set_sock"
  BY DEF GetFree, SlotTaken, SockInv, TypeOK
<1>4. pc'[t] \in {"get_free", "set_sock"}
  BY <1>1, <1>3
<1>5. TypeOK'
  <2>1. i[t] < MaxFd => i[t] + 1 \in Slot
    BY <1>1, UdSocketAssumption DEF Slot
  <2> QED
    BY <1>1, <1>3, <2>1 DEF SockInv, TypeOK
<1>6. TableOK' /\ HandlesOK' /\ NoSocketLeaks'
  BY <1>1 DEF SockInv, TableOK, HandlesOK, NoSocketLeaks
<1>7. UsersOK'
  BY <1>1, <1>2, <1>4 DEF SockInv, UsersOK, Using
<1>8. OwnersOK'
  <2>1. \A u \in Thread : (Making(u)' <=> Making(u)) /\ (Closing(u)' <=> Closing(u))
    BY <1>1, <1>2, <1>4 DEF Making, Closing
  <2> QED
    BY <1>1, <2>1 DEF SockInv, OwnersOK
<1>9. SearchOK'
  <2> SUFFICES ASSUME NEW u \in Thread, pc'[u] = "set_sock", i'[u] < MaxFd PROVE fds'[i'[u]] = Null
    BY DEF SearchOK
  <2>1. CASE u # t
    BY <2>1, <1>1, <1>2 DEF SockInv, SearchOK
  <2>2. CASE u = t
    BY <2>2, <1>1, <1>3
  <2> QED
    BY <2>1, <2>2
<1> QED
  BY <1>5, <1>6, <1>7, <1>8, <1>9 DEF SockInv

\* The socket goes into the slot found, which is still free.
LEMMA SetSockStep ==
    ASSUME Orderly, SockInv, NEW t \in Thread, SetSock(t)
    PROVE  SockInv'
<1>n. PICK n : n = i[t]
  OBVIOUS
<1>s. PICK s : s = so[t]
  OBVIOUS
<1>h. PICK h : h = [fd |-> n, so |-> s]
  OBVIOUS
<1>1. /\ pc[t] = "set_sock"
      /\ fds' = [fds EXCEPT ![n] = s]
      /\ handles' = handles \cup {h}
      /\ so' = [so EXCEPT ![t] = Null]
      /\ pc' = [pc EXCEPT ![t] = "idle"]
      /\ UNCHANGED <<open, i, cur>>
  BY <1>n, <1>s, <1>h DEF SetSock
<1>2. Making(t) /\ fds[n] = Null
  BY <1>1, <1>n DEF Making, SockInv, SearchOK, Orderly, EverySearchFinds
<1>3. n \in Slot
  BY <1>n DEF SockInv, TypeOK
<1>4. s \in open /\ s \in Sock /\ s # Null /\ \A m \in Slot : fds[m] # s
  BY <1>2, <1>s, UdSocketAssumption DEF SockInv, OwnersOK, TypeOK
<1>5. /\ pc'[t] = "idle" /\ so'[t] = Null
      /\ \A u \in Thread \ {t} : pc'[u] = pc[u] /\ so'[u] = so[u]
      /\ fds'[n] = s /\ \A m \in Slot \ {n} : fds'[m] = fds[m]
      /\ h.fd = n /\ h.so = s
  BY <1>1, <1>3, <1>h DEF SockInv, TypeOK
<1>6. \A u \in Thread \ {t} : pc[u] = "set_sock" => i[u] # n
  BY <1>1, <1>n DEF Orderly, NoSlotFoundTwice
<1>7. TypeOK'
  BY <1>1, <1>3, <1>4, <1>h DEF SockInv, TypeOK, Handle
<1>8. TableOK'
  BY <1>1, <1>3, <1>4, <1>5 DEF SockInv, TableOK
<1>9. HandlesOK'
  <2> SUFFICES ASSUME NEW k \in handles \cup {h}
               PROVE  k.so # Null => fds'[k.fd] = k.so
    BY <1>1 DEF HandlesOK
  <2>1. CASE k = h
    BY <2>1, <1>4, <1>5
  <2>2. CASE k \in handles
    <3>1. k.fd \in Slot
      BY <2>2, HandleParts DEF SockInv
    <3>2. k.so # Null => fds[k.fd] = k.so
      BY <2>2 DEF SockInv, HandlesOK
    <3> QED
      BY <3>1, <3>2, <1>2, <1>5
  <2> QED
    BY <2>1, <2>2
<1>10. UsersOK'
  <2>1. \A u \in Thread : Using(u)' => u # t /\ Using(u)
    BY <1>1, <1>5 DEF Using
  <2>2. \A u \in Thread : Using(u) => fds[cur[u].fd] # Null /\ cur[u].fd \in Slot /\ cur[u] # h
    BY <1>2, <1>5, HandleParts DEF SockInv, UsersOK, Using
  <2>3. \A u \in Thread : Using(u)' =>
          fds'[cur[u].fd] = cur[u].so /\ so'[u] = cur[u].so /\ cur[u] \notin handles'
    BY <2>1, <2>2, <1>1, <1>2, <1>5 DEF SockInv, UsersOK
  <2>4. \A u, v \in Thread : u # v /\ Using(u)' /\ Using(v)' => cur[u] # cur[v]
    BY <2>1 DEF SockInv, UsersOK
  <2>5. \A u \in Thread : pc'[u] \in {"accept", "use", "fd_free", "soclose"} /\ cur[u].so = Null =>
          so'[u] = Null
    BY <1>5 DEF SockInv, UsersOK
  <2>6. \A u \in Thread : pc'[u] \in {"idle", "crash"} => so'[u] = Null
    BY <1>5 DEF SockInv, UsersOK
  <2> QED
    BY <1>1, <2>3, <2>4, <2>5, <2>6 DEF UsersOK
<1>11. OwnersOK'
  <2>1. \A u \in Thread : Making(u)' \/ Closing(u)' => u # t /\ (Making(u) \/ Closing(u))
    BY <1>1, <1>5 DEF Making, Closing
  <2>2. \A u \in Thread \ {t} : Making(u) \/ Closing(u) => so[u] # s
    BY <1>2, <1>s DEF SockInv, OwnersOK
  <2> QED
    BY <2>1, <2>2, <1>1, <1>3, <1>5 DEF SockInv, OwnersOK
<1>12. SearchOK'
  <2> SUFFICES ASSUME NEW u \in Thread, pc'[u] = "set_sock", i'[u] < MaxFd PROVE fds'[i'[u]] = Null
    BY DEF SearchOK
  <2>1. u # t /\ pc[u] = "set_sock" /\ i'[u] = i[u]
    BY <1>1, <1>5
  <2>2. i[u] \in Slot /\ i[u] # n /\ fds[i[u]] = Null
    BY <2>1, <1>6 DEF SockInv, TypeOK, SearchOK
  <2> QED
    BY <2>1, <2>2, <1>5
<1>13. NoSocketLeaks'
  <2> SUFFICES ASSUME NEW x \in open
               PROVE  (\E m \in Slot : fds'[m] = x) \/ (\E u \in Thread : so'[u] = x)
    BY <1>1 DEF NoSocketLeaks
  <2>1. (\E m \in Slot : fds[m] = x) \/ (\E u \in Thread : so[u] = x)
    BY DEF SockInv, NoSocketLeaks
  <2>2. x # Null
    BY UdSocketAssumption DEF SockInv, TypeOK
  <2> QED
    BY <2>1, <2>2, <1>2, <1>3, <1>5, <1>s
<1> QED
  BY <1>7, <1>8, <1>9, <1>10, <1>11, <1>12, <1>13 DEF SockInv

-----------------------------------------------------------------------------
(* Calls on a descriptor *)

\* The descriptor of a call is taken from the application for the time of the
\* call, and leads to its socket or, if it is an error number, to NULL.
LEMMA GetSockStep ==
    ASSUME Orderly, SockInv, NEW t \in Thread, NEW h \in handles,
           NEW next \in {"accept", "use", "fd_free"}, GetSock(t, h, next)
    PROVE  SockInv'
<1>p. PICK p : p = fds[h.fd]
  OBVIOUS
<1>1. /\ pc[t] = "idle"
      /\ handles' = handles \ {h}
      /\ cur' = [cur EXCEPT ![t] = h]
      /\ so' = [so EXCEPT ![t] = p]
      /\ pc' = [pc EXCEPT ![t] = next]
      /\ UNCHANGED <<fds, open, i>>
  BY <1>p DEF GetSock, SockOf
<1>2. h.fd \in Slot /\ h \in Handle /\ p \in Sock \cup {Null}
  BY <1>p, HandleParts DEF SockInv, TypeOK
<1>3. /\ pc'[t] = next /\ so'[t] = p /\ cur'[t] = h
      /\ \A u \in Thread \ {t} : pc'[u] = pc[u] /\ so'[u] = so[u] /\ cur'[u] = cur[u]
  BY <1>1 DEF SockInv, TypeOK
<1>4. p = h.so
  BY <1>p DEF SockInv, HandlesOK, Orderly, ErrorsNameNothing
<1>5. \A u \in Thread \ {t} : /\ Using(u)' <=> Using(u)
                              /\ Making(u)' <=> Making(u)
                              /\ Closing(u)' <=> Closing(u)
  BY <1>3 DEF Using, Making, Closing
<1>6. ~Making(t)' /\ ~Closing(t)' /\ (Using(t)' <=> h.so # Null)
  BY <1>3 DEF Using, Making, Closing
<1>7. TypeOK'
  BY <1>1, <1>2 DEF SockInv, TypeOK
<1>8. TableOK' /\ HandlesOK'
  BY <1>1 DEF SockInv, TableOK, HandlesOK
<1>9. UsersOK'
  <2>1. \A u \in Thread : Using(u)' =>
          fds[cur'[u].fd] = cur'[u].so /\ so'[u] = cur'[u].so /\ cur'[u] \notin handles'
    <3> SUFFICES ASSUME NEW u \in Thread, Using(u)'
                 PROVE  /\ fds[cur'[u].fd] = cur'[u].so /\ so'[u] = cur'[u].so
                        /\ cur'[u] \notin handles'
      OBVIOUS
    <3>1. CASE u = t
      <4>1. cur'[u] = h /\ so'[u] = p /\ h \notin handles'
        BY <3>1, <1>1, <1>3
      <4> QED
        BY <4>1, <1>4, <1>p
    <3>2. CASE u # t
      BY <3>2, <1>1, <1>3, <1>5 DEF SockInv, UsersOK
    <3> QED
      BY <3>1, <3>2
  <2>2. \A u, v \in Thread : u # v /\ Using(u)' /\ Using(v)' => cur'[u] # cur'[v]
    <3>1. \A u \in Thread \ {t} : Using(u) => cur[u] # h
      BY DEF SockInv, UsersOK
    <3>2. \A u, v \in Thread : u # v /\ Using(u) /\ Using(v) => cur[u] # cur[v]
      BY DEF SockInv, UsersOK
    <3> QED
      BY <3>1, <3>2, <1>3, <1>5
  <2>3. \A u \in Thread : pc'[u] \in {"accept", "use", "fd_free", "soclose"} /\ cur'[u].so = Null =>
          so'[u] = Null
    BY <1>3, <1>4 DEF SockInv, UsersOK
  <2>4. \A u \in Thread : pc'[u] \in {"idle", "crash"} => so'[u] = Null
    BY <1>3 DEF SockInv, UsersOK
  <2> QED
    BY <1>1, <2>1, <2>2, <2>3, <2>4 DEF UsersOK
<1>10. OwnersOK'
  BY <1>1, <1>3, <1>5, <1>6 DEF SockInv, OwnersOK
<1>11. SearchOK'
  <2>1. \A u \in Thread : pc'[u] = "set_sock" => pc[u] = "set_sock"
    BY <1>3, <1>6
  <2> QED
    BY <1>1, <2>1, SearchFrame DEF SockInv
<1>12. NoSocketLeaks'
  <2> SUFFICES ASSUME NEW x \in open
               PROVE  (\E m \in Slot : fds[m] = x) \/ (\E u \in Thread : so'[u] = x)
    BY <1>1 DEF NoSocketLeaks
  <2>1. (\E m \in Slot : fds[m] = x) \/ (\E u \in Thread : so[u] = x)
    BY DEF SockInv, NoSocketLeaks
  <2>2. x # Null /\ so[t] = Null
    BY <1>1, UdSocketAssumption DEF SockInv, TypeOK, UsersOK
  <2> QED
    BY <2>1, <2>2, <1>3
<1> QED
  BY <1>7, <1>8, <1>9, <1>10, <1>11, <1>12 DEF SockInv

\* A call ends and the application has its descriptor again, with or without an
\* error number (more) that it takes for another one.
LEMMA GiveHandleBack ==
    ASSUME SockInv, NEW t \in Thread, NEW q \in {"idle", "crash"},
           NEW more \in SUBSET {[fd |-> e, so |-> Null] : e \in Errno},
           pc[t] \in {"accept", "use"},
           pc' = [pc EXCEPT ![t] = q],
           handles' = handles \cup {cur[t]} \cup more,
           so' = [so EXCEPT ![t] = Null],
           cur' = [cur EXCEPT ![t] = NoHandle],
           UNCHANGED <<fds, open, i>>
    PROVE  SockInv'
<1>h. PICK h : h = cur[t]
  OBVIOUS
<1>m. \A k \in more : k.so = Null /\ k \in Handle
  BY UdSocketAssumption DEF Handle, Slot
<1>1. /\ pc[t] \in {"accept", "use"}
      /\ pc' = [pc EXCEPT ![t] = q]
      /\ handles' = handles \cup {h} \cup more
      /\ so' = [so EXCEPT ![t] = Null]
      /\ cur' = [cur EXCEPT ![t] = NoHandle]
      /\ UNCHANGED <<fds, open, i>>
  BY <1>h
<1>2. h \in Handle /\ h.fd \in Slot /\ q \in {"idle", "crash"}
  BY <1>h, HandleParts DEF SockInv
<1>3. /\ pc'[t] = q /\ so'[t] = Null
      /\ \A u \in Thread \ {t} : pc'[u] = pc[u] /\ so'[u] = so[u] /\ cur'[u] = cur[u]
  BY <1>1 DEF SockInv, TypeOK
<1>4. IF h.so = Null THEN so[t] = Null
                     ELSE Using(t) /\ fds[h.fd] = h.so /\ so[t] = h.so
  BY <1>1, <1>h DEF SockInv, UsersOK, Using
<1>5. \A u \in Thread \ {t} : /\ Using(u)' <=> Using(u)
                              /\ Making(u)' <=> Making(u)
                              /\ Closing(u)' <=> Closing(u)
  BY <1>3 DEF Using, Making, Closing
<1>6. ~Making(t)' /\ ~Closing(t)' /\ ~Using(t)'
  BY <1>2, <1>3 DEF Using, Making, Closing
<1>7. TypeOK'
  <2>1. NoHandle \in Handle
    BY UdSocketAssumption DEF NoHandle, Handle, Slot
  <2> QED
    BY <1>1, <1>2, <1>m, <2>1 DEF SockInv, TypeOK
<1>8. TableOK' /\ HandlesOK'
  BY <1>1, <1>4, <1>m DEF SockInv, TableOK, HandlesOK
<1>9. UsersOK'
  <2>1. \A u \in Thread : Using(u)' =>
          fds[cur'[u].fd] = cur'[u].so /\ so'[u] = cur'[u].so /\ cur'[u] \notin handles'
    <3> SUFFICES ASSUME NEW u \in Thread \ {t}, Using(u)
                 PROVE  /\ fds[cur[u].fd] = cur[u].so /\ so[u] = cur[u].so
                        /\ cur[u] \notin handles \cup {h} \cup more
      BY <1>1, <1>3, <1>5, <1>6
    <3>1. fds[cur[u].fd] = cur[u].so /\ so[u] = cur[u].so /\ cur[u] \notin handles
      BY DEF SockInv, UsersOK
    <3>2. cur[u] # h
      <4>1. CASE h.so = Null
        BY <4>1 DEF Using
      <4>2. CASE h.so # Null
        BY <4>2, <1>4, <1>h DEF SockInv, UsersOK
      <4> QED
        BY <4>1, <4>2
    <3>3. cur[u] \notin more
      BY <1>m DEF Using
    <3> QED
      BY <3>1, <3>2, <3>3
  <2>2. \A u, v \in Thread : u # v /\ Using(u)' /\ Using(v)' => cur'[u] # cur'[v]
    BY <1>3, <1>5, <1>6 DEF SockInv, UsersOK
  <2>3. \A u \in Thread : pc'[u] \in {"accept", "use", "fd_free", "soclose"} /\ cur'[u].so = Null =>
          so'[u] = Null
    BY <1>2, <1>3 DEF SockInv, UsersOK
  <2>4. \A u \in Thread : pc'[u] \in {"idle", "crash"} => so'[u] = Null
    BY <1>3 DEF SockInv, UsersOK
  <2> QED
    BY <1>1, <2>1, <2>2, <2>3, <2>4 DEF UsersOK
<1>10. OwnersOK'
  BY <1>1, <1>3, <1>5, <1>6 DEF SockInv, OwnersOK
<1>11. SearchOK'
  <2>1. \A u \in Thread : pc'[u] = "set_sock" => pc[u] = "set_sock"
    BY <1>3, <1>6
  <2> QED
    BY <1>1, <2>1, SearchFrame DEF SockInv
<1>12. NoSocketLeaks'
  <2> SUFFICES ASSUME NEW x \in open
               PROVE  (\E m \in Slot : fds[m] = x) \/ (\E u \in Thread : so'[u] = x)
    BY <1>1 DEF NoSocketLeaks
  <2>1. (\E m \in Slot : fds[m] = x) \/ (\E u \in Thread : so[u] = x)
    BY DEF SockInv, NoSocketLeaks
  <2>2. x # Null
    BY UdSocketAssumption DEF SockInv, TypeOK
  <2>3. so[t] = x => fds[h.fd] = x
    BY <2>2, <1>4
  <2> QED
    BY <2>1, <2>3, <1>2, <1>3
<1> QED
  BY <1>7, <1>8, <1>9, <1>10, <1>11, <1>12 DEF SockInv

\* The stack's part of a call on a descriptor.
LEMMA UseDoneStep ==
    ASSUME SockInv, NEW t \in Thread, UseDone(t)
    PROVE  SockInv'
<1>1. PICK q \in {"idle", "crash"} : pc' = [pc EXCEPT ![t] = q]
  BY DEF UseDone
<1>2. PICK more \in SUBSET {[fd |-> e, so |-> Null] : e \in Errno} : more = {}
  OBVIOUS
<1>3. /\ pc[t] \in {"accept", "use"} /\ handles' = handles \cup {cur[t]} \cup more
      /\ so' = [so EXCEPT ![t] = Null] /\ cur' = [cur EXCEPT ![t] = NoHandle]
      /\ UNCHANGED <<fds, open, i>>
  BY <1>2 DEF UseDone
<1> QED
  BY <1>1, <1>3, GiveHandleBack

\* uinet_soaccept: a connection, an error, or the end of the process.
LEMMA SoAcceptStep ==
    ASSUME SockInv, NEW t \in Thread, SoAccept(t)
    PROVE  SockInv'
<1>1. pc[t] = "accept" /\ cur' = [cur EXCEPT ![t] = NoHandle] /\ fds' = fds
  BY DEF SoAccept
<1>2. CASE so[t] \in open /\ NewSocket(t, {cur[t]})
  BY <1>1, <1>2, NewSocketStep
<1>3. CASE so[t] \in open /\ ReturnError(t, {cur[t]})
  <2>1. PICK e \in Errno :
          /\ handles' = handles \cup {cur[t]} \cup {[fd |-> e, so |-> Null]}
          /\ pc' = [pc EXCEPT ![t] = "idle"] /\ so' = [so EXCEPT ![t] = Null]
          /\ UNCHANGED <<open, i>>
    BY <1>3 DEF ReturnError, ErrorResult
  <2> QED
    BY <1>1, <2>1, GiveHandleBack
<1>4. CASE so[t] \notin open
  <2>0. PICK more \in SUBSET {[fd |-> e, so |-> Null] : e \in Errno} : more = {}
    OBVIOUS
  <2>1. /\ handles' = handles \cup {cur[t]} \cup more
        /\ pc' = [pc EXCEPT ![t] = "crash"] /\ so' = [so EXCEPT ![t] = Null]
        /\ UNCHANGED <<open, i>>
    BY <1>4, <2>0 DEF SoAccept
  <2> QED
    BY <1>1, <2>1, GiveHandleBack
<1> QED
  BY <1>2, <1>3, <1>4 DEF SoAccept

\* The slot is cleared; the socket then belongs to the closing thread alone.
LEMMA FdFreeStep ==
    ASSUME Orderly, SockInv, NEW t \in Thread, FdFree(t)
    PROVE  SockInv'
<1>h. PICK h : h = cur[t]
  OBVIOUS
<1>1. /\ pc[t] = "fd_free"
      /\ fds' = [fds EXCEPT ![h.fd] = Null]
      /\ pc' = [pc EXCEPT ![t] = "soclose"]
      /\ UNCHANGED <<open, handles, i, so, cur>>
  BY <1>h DEF FdFree, Cleared, AfterCloseStep, CloseSteps
<1>2. h \in Handle /\ h.fd \in Slot
  BY <1>h, HandleParts DEF SockInv
<1>3. /\ pc'[t] = "soclose"
      /\ \A u \in Thread \ {t} : pc'[u] = pc[u]
      /\ fds'[h.fd] = Null /\ \A m \in Slot \ {h.fd} : fds'[m] = fds[m]
  BY <1>1, <1>2 DEF SockInv, TypeOK
<1>4. IF h.so = Null THEN so[t] = Null /\ fds[h.fd] = Null
                     ELSE Using(t) /\ fds[h.fd] = h.so /\ so[t] = h.so
  BY <1>1, <1>h DEF SockInv, UsersOK, Using, Orderly, ErrorsNameNothing
<1>5. \A u \in Thread \ {t} : /\ Using(u)' <=> Using(u)
                              /\ Making(u)' <=> Making(u)
                              /\ Closing(u)' <=> Closing(u)
  BY <1>1, <1>3 DEF Using, Making, Closing
<1>6. ~Making(t)' /\ ~Using(t)' /\ (Closing(t)' <=> h.so # Null)
  BY <1>1, <1>3, <1>h DEF Using, Making, Closing
<1>7. TypeOK'
  BY <1>1, <1>2 DEF SockInv, TypeOK
<1>8. TableOK'
  BY <1>1, <1>3 DEF SockInv, TableOK
<1>9. HandlesOK'
  <2> SUFFICES ASSUME NEW k \in handles
               PROVE  k.so # Null => fds'[k.fd] = k.so
    BY <1>1 DEF HandlesOK
  <2>1. k.so # Null => fds[k.fd] = k.so
    BY DEF SockInv, HandlesOK
  <2>2. k \in Handle /\ k.fd \in Slot
    BY HandleParts DEF SockInv
  <2>3. k.so # Null => k.fd # h.fd
    <3> SUFFICES ASSUME k.so # Null, k.fd = h.fd PROVE FALSE
      OBVIOUS
    <3>1. fds[h.fd] = k.so
      BY <2>1
    <3>2. h.so = k.so /\ Using(t)
      BY <3>1, <1>4
    <3>3. k = h
      BY <3>2, <2>2, <1>2, HandleParts DEF SockInv
    <3> QED
      BY <3>2, <3>3, <1>h DEF SockInv, UsersOK
  <2> QED
    BY <2>1, <2>2, <2>3, <1>3
<1>10. UsersOK'
  <2>1. \A u \in Thread : Using(u)' =>
          fds'[cur[u].fd] = cur[u].so /\ so[u] = cur[u].so /\ cur[u] \notin handles
    <3> SUFFICES ASSUME NEW u \in Thread \ {t}, Using(u)
                 PROVE  /\ fds'[cur[u].fd] = cur[u].so /\ so[u] = cur[u].so
                        /\ cur[u] \notin handles
      BY <1>5, <1>6
    <3>1. fds[cur[u].fd] = cur[u].so /\ so[u] = cur[u].so /\ cur[u] \notin handles
          /\ cur[u].so # Null
      BY DEF SockInv, UsersOK, Using
    <3>2. cur[u] \in Handle /\ cur[u].fd \in Slot
      BY HandleParts DEF SockInv
    <3>3. cur[u].fd # h.fd
      <4> SUFFICES ASSUME cur[u].fd = h.fd PROVE FALSE
        OBVIOUS
      <4>1. h.so = cur[u].so /\ Using(t)
        BY <3>1, <1>4
      <4>2. cur[u] = h
        BY <4>1, <3>2, <1>2, HandleParts DEF SockInv
      <4> QED
        BY <4>1, <4>2, <1>h DEF SockInv, UsersOK
    <3> QED
      BY <3>1, <3>2, <3>3, <1>3
  <2>2. \A u, v \in Thread : u # v /\ Using(u)' /\ Using(v)' => cur[u] # cur[v]
    BY <1>5, <1>6 DEF SockInv, UsersOK
  <2>3. \A u \in Thread : pc'[u] \in {"accept", "use", "fd_free", "soclose"} /\ cur[u].so = Null =>
          so[u] = Null
    BY <1>1, <1>3 DEF SockInv, UsersOK
  <2>4. \A u \in Thread : pc'[u] \in {"idle", "crash"} => so[u] = Null
    BY <1>3 DEF SockInv, UsersOK
  <2> QED
    BY <1>1, <2>1, <2>2, <2>3, <2>4 DEF UsersOK
<1>11. OwnersOK'
  <2>1. \A u \in Thread \ {t} : Making(u) \/ Closing(u) =>
          so[u] \in open /\ (\A n \in Slot : fds[n] # so[u]) /\ so[u] # Null
    BY UdSocketAssumption DEF SockInv, OwnersOK, TypeOK
  <2>2. h.so # Null => so[t] \in open /\ so[t] # Null /\ \A n \in Slot : fds'[n] # so[t]
    BY <1>2, <1>3, <1>4 DEF SockInv, TableOK
  <2>3. \A u \in Thread \ {t} : Making(u) \/ Closing(u) =>
          so[u] # so[t] /\ \A n \in Slot : fds'[n] # so[u]
    BY <2>1, <1>2, <1>3, <1>4
  <2>4. \A u \in Thread : Making(u)' \/ Closing(u)' =>
          so[u] \in open /\ \A n \in Slot : fds'[n] # so[u]
    BY <2>1, <2>2, <2>3, <1>5, <1>6
  <2>5. \A u, v \in Thread : u # v /\ (Making(u)' \/ Closing(u)') /\ (Making(v)' \/ Closing(v)')
                               => so[u] # so[v]
    BY <2>3, <1>5 DEF SockInv, OwnersOK
  <2> QED
    BY <1>1, <2>4, <2>5 DEF OwnersOK
<1>12. SearchOK'
  <2>1. \A u \in Thread : pc'[u] = "set_sock" => pc[u] = "set_sock"
    BY <1>3, <1>6
  <2>3. \A n \in Slot : fds[n] = Null => fds'[n] = Null
    BY <1>3
  <2> QED
    BY <1>1, <2>1, <2>3, SearchFrame DEF SockInv
<1>13. NoSocketLeaks'
  <2> SUFFICES ASSUME NEW x \in open
               PROVE  (\E m \in Slot : fds'[m] = x) \/ (\E u \in Thread : so[u] = x)
    BY <1>1 DEF NoSocketLeaks
  <2>1. (\E m \in Slot : fds[m] = x) \/ (\E u \in Thread : so[u] = x)
    BY DEF SockInv, NoSocketLeaks
  <2>2. x # Null
    BY UdSocketAssumption DEF SockInv, TypeOK
  <2> QED
    BY <2>1, <2>2, <1>3, <1>4
<1> QED
  BY <1>7, <1>8, <1>9, <1>10, <1>11, <1>12, <1>13 DEF SockInv

\* The socket closed is in no slot and nobody else's.
LEMMA SoCloseStep ==
    ASSUME SockInv, NEW t \in Thread, SoClose(t)
    PROVE  SockInv'
<1>s. PICK s : s = so[t]
  OBVIOUS
<1>q. PICK q : q = IF so[t] \in open THEN "idle" ELSE "crash"
  OBVIOUS
<1>1. /\ pc[t] = "soclose"
      /\ open' = open \ {s}
      /\ pc' = [pc EXCEPT ![t] = q]
      /\ so' = [so EXCEPT ![t] = Null]
      /\ UNCHANGED <<fds, handles, i, cur>>
  BY <1>s, <1>q DEF SoClose, AfterCloseStep, CloseSteps
<1>2. /\ pc'[t] = q /\ so'[t] = Null /\ q \in {"idle", "crash"}
      /\ \A u \in Thread \ {t} : pc'[u] = pc[u] /\ so'[u] = so[u]
  BY <1>1, <1>q DEF SockInv, TypeOK
<1>3. IF cur[t].so = Null THEN s = Null ELSE Closing(t) /\ s \in open /\ \A n \in Slot : fds[n] # s
  BY <1>1, <1>s DEF SockInv, UsersOK, OwnersOK, Closing
<1>4. \A u \in Thread \ {t} : /\ Using(u)' <=> Using(u)
                              /\ Making(u)' <=> Making(u)
                              /\ Closing(u)' <=> Closing(u)
  BY <1>1, <1>2 DEF Using, Making, Closing
<1>5. ~Making(t)' /\ ~Closing(t)' /\ ~Using(t)'
  BY <1>2 DEF Using, Making, Closing
<1>6. TypeOK'
  BY <1>1, <1>2 DEF SockInv, TypeOK
<1>7. TableOK' /\ HandlesOK'
  <2>1. \A n \in Slot : fds[n] # Null => fds[n] # s
    BY <1>3
  <2> QED
    BY <2>1, <1>1 DEF SockInv, TableOK, HandlesOK
<1>8. UsersOK'
  BY <1>1, <1>2, <1>4, <1>5 DEF SockInv, UsersOK
<1>9. OwnersOK'
  <2>1. \A u \in Thread \ {t} : Making(u) \/ Closing(u) => so[u] # s
    <3>1. CASE cur[t].so = Null
      <4>1. s \notin open
        BY <1>3, <3>1, UdSocketAssumption DEF SockInv, TypeOK
      <4> QED
        BY <4>1 DEF SockInv, OwnersOK
    <3>2. CASE cur[t].so # Null
      BY <1>3, <1>s, <3>2 DEF SockInv, OwnersOK
    <3> QED
      BY <3>1, <3>2
  <2> QED
    BY <2>1, <1>1, <1>2, <1>4, <1>5 DEF SockInv, OwnersOK
<1>10. SearchOK'
  <2>1. \A u \in Thread : pc'[u] = "set_sock" => pc[u] = "set_sock"
    BY <1>2, <1>5
  <2> QED
    BY <1>1, <2>1, SearchFrame DEF SockInv
<1>11. NoSocketLeaks'
  BY <1>1, <1>2, <1>s DEF SockInv, NoSocketLeaks
<1> QED
  BY <1>6, <1>7, <1>8, <1>9, <1>10, <1>11 DEF SockInv

-----------------------------------------------------------------------------
(* The theorems *)

\* The table starts empty.
LEMMA InitSock == Init => SockInv
<1> SUFFICES ASSUME Init PROVE SockInv
  OBVIOUS
<1>1. TypeOK
  <2>1. 0 \in Slot
    BY UdSocketAssumption DEF Slot
  <2> QED
    BY <2>1 DEF Init, TypeOK, NoHandle, Handle
<1> QED
  BY <1>1 DEF Init, SockInv, TableOK, HandlesOK, UsersOK, OwnersOK, SearchOK, NoSocketLeaks,
              Using, Making, Closing

\* Every step from an orderly state keeps the invariant.
LEMMA NextSock == Orderly /\ SockInv /\ [Next]_vars => SockInv'
<1> SUFFICES ASSUME Orderly, SockInv, [Next]_vars PROVE SockInv'
  OBVIOUS
<1>1. ASSUME NEW t \in Thread, UdSocketCall(t) PROVE SockInv'
  <2>1. pc[t] = "idle" /\ (NewSocket(t, {}) \/ ReturnError(t, {})) /\ UNCHANGED <<fds, cur>>
    BY <1>1 DEF UdSocketCall
  <2>2. CASE NewSocket(t, {})
    BY <2>1, <2>2, NewSocketStep
  <2>3. CASE ReturnError(t, {})
    BY <2>1, <2>3, SocketErrorStep
  <2> QED
    BY <2>1, <2>2, <2>3
<1>2. ASSUME NEW t \in Thread, UdAccept(t) \/ UdUse(t) \/ UdSend(t) \/ UdClose(t) PROVE SockInv'
  <2>1. PICK h \in handles, next \in {"accept", "use", "fd_free"} : GetSock(t, h, next)
    BY <1>2 DEF UdAccept, UdUse, UdSend, UdClose, CloseSteps
  <2> QED
    BY <2>1, GetSockStep
<1>3. CASE UNCHANGED vars
  <2>1. UNCHANGED <<fds, open, handles, pc, i, so, cur>>
    BY <1>3 DEF vars
  <2>2. TypeOK' /\ TableOK' /\ HandlesOK' /\ NoSocketLeaks' /\ SearchOK'
    BY <2>1 DEF SockInv, TypeOK, TableOK, HandlesOK, NoSocketLeaks, SearchOK
  <2>3. UsersOK' /\ OwnersOK'
    BY <2>1 DEF SockInv, UsersOK, OwnersOK, Using, Making, Closing
  <2> QED
    BY <2>2, <2>3 DEF SockInv
<1> QED
  BY <1>1, <1>2, <1>3, SoAcceptStep, GetFreeStep, SetSockStep, UseDoneStep, FdFreeStep, SoCloseStep
     DEF Next

\* The inductive invariant holds in every state of a behaviour that is orderly.
LEMMA SockInvariant == Spec /\ []Orderly => []SockInv
BY InitSock, NextSock, PTL DEF Spec

\* As long as no two threads have found the same slot, no search has run off the
\* table and no error number has been taken for a descriptor in use, neither the
\* table nor a call under way (ud_fd_get_sock, then the stack) points to a socket
\* that uinet_soclose has released, with any number of threads that create,
\* accept, use and close.
THEOREM SocketPointersAreOpen == Spec /\ []Orderly => []PointersAreOpen
<1>1. SockInv => PointersAreOpen
  <2> SUFFICES ASSUME SockInv PROVE PointersAreOpen
    OBVIOUS
  <2>1. TypeOK /\ SlotsNameOpenSockets
    BY DEF SockInv, TableOK, SlotsNameOpenSockets
  <2>2. OperandsAreOpen
    <3> SUFFICES ASSUME NEW t \in Thread, pc[t] \in {"accept", "use", "soclose"}, cur[t].so # Null
                 PROVE  so[t] \in open
      BY DEF OperandsAreOpen
    <3>1. CASE pc[t] \in {"accept", "use"}
      <4>1. fds[cur[t].fd] = so[t] /\ so[t] # Null /\ cur[t].fd \in Slot
        BY <3>1, HandleParts DEF SockInv, UsersOK, Using
      <4> QED
        BY <4>1 DEF SockInv, TableOK
    <3>2. CASE pc[t] = "soclose"
      BY <3>2 DEF SockInv, OwnersOK, Closing
    <3> QED
      BY <3>1, <3>2
  <2> QED
    BY <2>1, <2>2 DEF PointersAreOpen
<1> QED
  BY SockInvariant, <1>1, PTL

\* The three ways named by Orderly are the only ones in which a descriptor that
\* ud_socket or ud_accept gave the application stops naming its socket, or two
\* of them become the same number.
THEOREM SocketDescriptorsNameTheirSockets == Spec /\ []Orderly => []DescriptorsNameTheirSockets
<1>1. Orderly /\ SockInv => DescriptorsNameTheirSockets
  <2> SUFFICES ASSUME Orderly, SockInv PROVE DescriptorsNameTheirSockets
    OBVIOUS
  <2>1. \A h \in handles : h.so # Null => fds[h.fd] = h.so /\ h.so \in open
    BY HandleParts DEF SockInv, HandlesOK, TableOK
  <2>2. \A h, k \in handles : h.fd = k.fd => h = k
    <3> SUFFICES ASSUME NEW h \in handles, NEW k \in handles, h.fd = k.fd PROVE h = k
      OBVIOUS
    <3>1. h.so = k.so
      BY DEF SockInv, HandlesOK, Orderly, ErrorsNameNothing
    <3> QED
      BY <3>1, HandleParts DEF SockInv
  <2> QED
    BY <2>1, <2>2 DEF DescriptorsNameTheirSockets
<1> QED
  BY SockInvariant, <1>1, PTL

\* Likewise for sockets that nobody can close any more: every socket of the
\* stack has a descriptor, or a call that will give it one or close it.
THEOREM SocketNoLeaks == Spec /\ []Orderly => []NoSocketLeaks
<1>1. SockInv => NoSocketLeaks
  BY DEF SockInv
<1> QED
  BY SockInvariant, <1>1, PTL
=============================================================================

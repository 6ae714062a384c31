------------------------------ MODULE MCCallout ------------------------------
(***************************************************************************)
(* Small instances of the timing wheel for TLC.                            *)
(***************************************************************************)
EXTENDS Callout, TLC

CONSTANTS a, b, t1, t2, m

\* a is tied to a mutex (callout_init_mtx), b is MPSAFE without a lock.
OneTimer == {a}
TwoTimers == {a, b}
OneLock == {m}
LockOfA == [x \in TwoTimers |-> IF x = a THEN m ELSE Null]
LockOfAOnly == [x \in OneTimer |-> m]
LockOfBoth == [x \in TwoTimers |-> m]
OneClient == {t1}
TwoClients == {t1, t2}
NoClient == {}
=============================================================================

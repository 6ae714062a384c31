----------------------------- MODULE MCShutdown -----------------------------
(***************************************************************************)
(* A small instance of the shutdown for TLC.                               *)
(***************************************************************************)
EXTENDS Shutdown

CONSTANTS t1, d, i1, w, s \* threads, instances, interfaces

OneThread == {t1}
TwoInstances == {d, i1}
TwoIfs == {w, s}
=============================================================================

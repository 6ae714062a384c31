----------------------------- MODULE MCRxBuffers ----------------------------
(***************************************************************************)
(* A small instance of the receive path's buffers for TLC.                 *)
(***************************************************************************)
EXTENDS RxBuffers, TLC

CONSTANTS k1, k2, k3, b1, b2, b3, f1, f2 \* contexts, buffers, threads

ThreeCtx == {k1, k2, k3}
ThreeBuf == {b1, b2, b3}
TwoThreads == {f1, f2}

\* Contexts, buffers and threads are interchangeable.
Interchangeable ==
  Permutations(ThreeCtx) \cup Permutations(ThreeBuf) \cup Permutations(TwoThreads)
=============================================================================

----------------------------- MODULE MCTxInject -----------------------------
(***************************************************************************)
(* Small instances of the transmit injection queue for TLC.                *)
(***************************************************************************)
EXTENDS TxInject, TLC

CONSTANTS a, b, m \* descriptors; m carries no packet
CONSTANTS p1, p2  \* producers

ThreePd == {a, b, m}
Mgmt == {m}
TwoProducers == {p1, p2}
=============================================================================

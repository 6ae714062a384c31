----------------------------- MODULE MCUdSocket -----------------------------
(***************************************************************************)
(* Small instances of the descriptor layer for TLC.                        *)
(***************************************************************************)
EXTENDS UdSocket, TLC

CONSTANTS t1, t2, t3, s1, s2, s3

OneThread == {t1}
TwoThreads == {t1, t2}
ThreeThreads == {t1, t2, t3}
TwoSocks == {s1, s2}
ThreeSocks == {s1, s2, s3}
NoErrno == {}
\* An error number above the descriptors that three sockets can occupy.
SomeErrno == {4}

\* Sockets are interchangeable, and so are the threads that never allocate.
Interchangeable == Permutations(ThreeSocks) \cup Permutations({t2, t3})
=============================================================================

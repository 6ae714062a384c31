------------------------------- MODULE TailQ -------------------------------
(***************************************************************************)
(* The linked lists of sys/queue.h (TAILQ, LIST) as sequences without      *)
(* repetitions: the stack instances, their interfaces, the handlers of an  *)
(* interrupt event and the buckets of the callout wheel.                   *)
(***************************************************************************)
EXTENDS SequencesExt

\* x is linked into s, and nothing is linked in twice.
Has(s, x) == \E k \in 1 .. Len(s) : s[k] = x
Unrepeated(s) == \A j, k \in 1 .. Len(s) : s[j] = s[k] => j = k

\* Where x is in s: its links, which TAILQ_NEXT and TAILQ_REMOVE follow.
PlaceOf(s, x) == CHOOSE k \in 1 .. Len(s) : s[k] = x

\* TAILQ_REMOVE, LIST_REMOVE: s once x is unlinked.
Without(s, x) == IF Has(s, x) THEN RemoveAt(s, PlaceOf(s, x)) ELSE s
=============================================================================

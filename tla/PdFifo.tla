------------------------------- MODULE PdFifo -------------------------------
(***************************************************************************)
(* What the transmit injection queue promises: a bounded first-in          *)
(* first-out queue of packet descriptors.  A list is accepted up to the    *)
(* room that is left and the rest of it is refused, never an earlier part; *)
(* the consumer gets every accepted descriptor once, in order.  A consumed *)
(* descriptor keeps its room until the consumer frees what it has consumed.*)
(***************************************************************************)
EXTENDS Naturals, Sequences

CONSTANTS
    List,       \* lists of descriptors that may be offered
    Payload(_), \* whether a descriptor carries a packet
    Capacity    \* most descriptors the queue holds

VARIABLES
    q,    \* accepted and not yet consumed
    held, \* consumed, room not yet given back
    out   \* packets consumed by the pass in progress

fifoVars == <<q, held, out>>

FifoInit == q = <<>> /\ held = 0 /\ out = <<>>

Room == Capacity - held - Len(q)

\* A list is offered; its longest prefix that fits is accepted.
Offer(list) ==
    /\ q' = q \o SubSeq(list, 1, IF Len(list) <= Room THEN Len(list) ELSE Room)
    /\ UNCHANGED <<held, out>>

Consume ==
    /\ q # <<>>
    /\ q' = Tail(q)
    /\ held' = held + 1
    /\ out' = IF Payload(Head(q)) THEN Append(out, Head(q)) ELSE out

\* A pass ends, or its room is given back, or both.
EndPass == out' = <<>> /\ UNCHANGED <<q, held>>
GiveBack == held' = 0 /\ UNCHANGED <<q, out>>
EndPassAndGiveBack == out' = <<>> /\ held' = 0 /\ UNCHANGED q

FifoNext ==
    \/ \E list \in List : Offer(list)
    \/ Consume
    \/ EndPass \/ GiveBack \/ EndPassAndGiveBack

FifoSpec == FifoInit /\ [][FifoNext]_fifoVars
=============================================================================

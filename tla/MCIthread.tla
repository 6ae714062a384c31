----------------------------- MODULE MCIthread ------------------------------
(***************************************************************************)
(* A small instance of software interrupts for TLC.                        *)
(***************************************************************************)
EXTENDS Ithread

CONSTANTS p1, p2, p3, e1, e2, e3, h1, h2, h3 \* callers, sleep entries, handlers

ThreeCallers == {p1, p2, p3}
ThreeEntries == {e1, e2, e3}
AllHandlers == {h1, h2, h3}
AllChans == AllHandlers \cup {Event}
\* h1 goes to the end of the list.
Priorities == [h \in AllHandlers |-> IF h = h1 THEN 2 ELSE 1]
One == {h1}
Owners == [h \in AllHandlers |-> IF h = h1 THEN p1 ELSE IF h = h2 THEN p2 ELSE p3]
\* h3 is there for the race to create the thread.
Schedulers == [h \in AllHandlers |-> IF h = h1 THEN {p1, p2} ELSE IF h = h2 THEN {p1} ELSE {}]
None == {}
=============================================================================

------------------------------- MODULE PdRing -------------------------------
(***************************************************************************)
(* Index arithmetic of the packet-descriptor ring, struct uinet_pd_ring in *)
(* uinet_pkt_desc.h.  A ring of n slots is described by two indices, put   *)
(* (next slot to fill) and take (oldest slot not yet given back).          *)
(***************************************************************************)
EXTENDS Integers

\* uinet_pd_ring_alloc: a ring never has fewer than one slot.
ring_alloc(num_descs) == IF num_descs = 0 THEN 1 ELSE num_descs

\* uinet_pd_ring_space: how many slots may be filled.  One always stays empty.
ring_space(n, put, take) ==
    LET space == take - put - 1 IN IF space < 0 THEN space + n ELSE space

\* uinet_pd_ring_avail: how many slots lie between take and put.
ring_avail(n, put, take) == n - ring_space(n, put, take) - 1

\* Mutant: runs off the end of the ring.
ring_next_no_wrap(n, cur) == cur + 1

\* uinet_pd_ring_next: the slot after cur.
ring_next(n, cur) == IF cur + 1 = n THEN 0 ELSE cur + 1

\* The slot reached from cur by k < n applications of uinet_pd_ring_next.
ring_advance(n, cur, k) == IF cur + k < n THEN cur + k ELSE cur + k - n

\* How many times uinet_pd_ring_next leads from slot cur to slot i.
ring_distance(n, cur, i) == IF i >= cur THEN i - cur ELSE i - cur + n
=============================================================================

------------------------------- MODULE AqRing -------------------------------
(***************************************************************************)
(* Index arithmetic of a descriptor ring (aq_ring.h, aq_ring.c).           *)
(*                                                                         *)
(* A ring has Size slots; all indices are slots in 0 .. Size-1 and one     *)
(* slot is always left empty, so that head = tail means "empty".           *)
(***************************************************************************)
EXTENDS Integers

CONSTANT Size     \* aq_ring_s.size, the number of descriptors

ASSUME SizeAssumption == Size \in Nat /\ Size > 1

Dx == 0 .. Size - 1

\* A slip the properties must catch: forgetting the slot that stays empty.
AvailAllSlots(head, tail) ==
    IF tail >= head THEN Size - tail + head ELSE head - tail

\* The slot after dx, wrapping to 0 at the end of the ring.
aq_ring_next_dx(dx) == IF dx + 1 >= Size THEN 0 ELSE dx + 1

\* The number of slots software may still fill.
aq_ring_avail_dx(head, tail) ==
    IF tail >= head THEN (Size - 1) - tail + head
                    ELSE head - tail - 1

\* Slot i lies strictly between h and t, going forward from h.
aq_ring_dx_in_range(h, i, t) ==
    IF h < t THEN h < i /\ i < t
             ELSE h < i \/ i < t

-----------------------------------------------------------------------------
(* Vocabulary of the properties. *)

\* n applications of aq_ring_next_dx, for n <= Size.
Adv(dx, n) == IF dx + n >= Size THEN dx + n - Size ELSE dx + n

\* The number of steps from slot a forward to slot b.
Dist(a, b) == IF b >= a THEN b - a ELSE b - a + Size

\* The slots from a up to, but not including, b.
Slots(a, b) == {i \in Dx : Dist(a, i) < Dist(a, b)}

\* Going forward from a, slot b is met no later than slot c.
InOrder(a, b, c) == Dist(a, b) <= Dist(a, c)

=============================================================================

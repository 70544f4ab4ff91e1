---------------------------- MODULE TxRingFifo ----------------------------
(***************************************************************************)
(* The Tx ring implements TxQueue: the packets between sw_head and the     *)
(* device's tail, each at the buffer with its EOP flag.                    *)
(***************************************************************************)
EXTENDS TxRing, FiniteSets

\* The slots from a up to b in which a packet ends, and the n-th of them.
Ends(a, b) == {i \in Slots(a, b) : buff_ring[i].eop}
Upto(E, a, i) == {j \in E : Dist(a, j) <= Dist(a, i)}
TheOne(S) == CHOOSE i \in S : TRUE
Nth(E, a, n) == TheOne({i \in E : Cardinality(Upto(E, a, i)) = n})

\* The packets that end in the slots from a up to b, in the ring's order.
EndingIn(a, b) ==
    LET E == Ends(a, b)
    IN  [n \in 1 .. Cardinality(E) |-> buff_ring[Nth(E, a, n)].skb]

Queue ==
    INSTANCE TxQueue WITH
        Packets <- Skbs,
        queue   <- EndingIn(sw_head, reg_tail),
        sent    <- Cardinality(Ends(sw_head, reg_head)),
        held    <- {s \in Skbs : skbs[s] = "driver"}

(***************************************************************************)
(* Every step of xmit, poll, device and life cycle is a step of the        *)
(* abstract queue or none at all: aq_ring_tx_clean gives back the oldest   *)
(* packet, that packet's own skb, only once it was sent, and a packet      *)
(* enters the queue whole with the write of the tail pointer.              *)
(***************************************************************************)
InOrderService == Queue!Spec

=============================================================================

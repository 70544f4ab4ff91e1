---------------------------- MODULE TxRingProofs ----------------------------
(***************************************************************************)
(* Proofs about TxRing and its refinement of TxQueue, for every ring size, *)
(* threshold, budget, set of skbs and shapes.                              *)
(***************************************************************************)
EXTENDS TxRingFifo, Sequences, FiniteSetTheorems, TLAPS

-----------------------------------------------------------------------------
(* The index arithmetic of the ring, for every size. *)

\* Stepping an index keeps it in the ring (aq_ring_next_dx).
LEMMA NextDx ==
    ASSUME NEW a \in Dx
    PROVE  aq_ring_next_dx(a) \in Dx
  BY SizeAssumption DEF Dx, aq_ring_next_dx

\* A distance is shorter than the ring, and 0 only from a slot to itself.
LEMMA DistType ==
    ASSUME NEW a \in Dx, NEW b \in Dx
    PROVE  /\ Dist(a, b) \in Nat
           /\ Dist(a, b) < Size
           /\ Dist(a, b) = 0 <=> a = b
  BY SizeAssumption DEF Dx, Dist

\* The free slots are those from the tail to just before the head.
LEMMA AvailDist ==
    ASSUME NEW a \in Dx, NEW b \in Dx
    PROVE  aq_ring_avail_dx(a, b) = Size - 1 - Dist(a, b)
  BY SizeAssumption DEF Dx, Dist, aq_ring_avail_dx

\* Moving the far end of a distance by one slot.
LEMMA DistNextFar ==
    ASSUME NEW a \in Dx, NEW b \in Dx, Dist(a, b) < Size - 1
    PROVE  Dist(a, aq_ring_next_dx(b)) = Dist(a, b) + 1
  BY SizeAssumption DEF Dx, Dist, aq_ring_next_dx

\* Moving the near end of a distance by one slot.
LEMMA DistNextNear ==
    ASSUME NEW a \in Dx, NEW b \in Dx, a # b
    PROVE  Dist(aq_ring_next_dx(a), b) = Dist(a, b) - 1
  BY SizeAssumption DEF Dx, Dist, aq_ring_next_dx

\* Slots of a packet written from the tail stay in the ring.
LEMMA AdvDx ==
    ASSUME NEW a \in Dx, NEW n \in Nat, n <= Size
    PROVE  Adv(a, n) \in Dx
  BY SizeAssumption DEF Dx, Adv

\* Two slots at the same distance are the same slot.
LEMMA DistInjective ==
    ASSUME NEW a \in Dx, NEW b \in Dx, NEW c \in Dx, Dist(a, b) = Dist(a, c)
    PROVE  b = c
  BY SizeAssumption DEF Dx, Dist

\* In a ring whose ends differ, the test of the code is one of distances.
LEMMA InRange ==
    ASSUME NEW a \in Dx, NEW i \in Dx, NEW b \in Dx, a # b, aq_ring_dx_in_range(a, i, b)
    PROVE  Dist(a, i) < Dist(a, b)
  BY SizeAssumption DEF aq_ring_dx_in_range, Dist, Dx

\* Distances from the tail, and slots ahead of it.
LEMMA FromTail ==
    ASSUME NEW h \in Dx, NEW t \in Dx, NEW i \in Dx
    PROVE  Dist(t, i) = IF Dist(h, i) >= Dist(h, t) THEN Dist(h, i) - Dist(h, t)
                        ELSE Dist(h, i) - Dist(h, t) + Size
  BY SizeAssumption DEF Dist, Dx

\* m slots on from a slot, as long as the ring is not gone round.
LEMMA AdvDist ==
    ASSUME NEW h \in Dx, NEW t \in Dx, NEW m \in Nat, Dist(h, t) + m < Size
    PROVE  Adv(t, m) \in Dx /\ Dist(h, Adv(t, m)) = Dist(h, t) + m
  BY SizeAssumption DEF Dist, Dx, Adv

-----------------------------------------------------------------------------
(* Type correctness. *)

\* What an xmit under way holds (aq_nic_xmit's skb and its fragment check).
XmitHolds ==
    pc["xmit"] # "idle" => /\ cur.skb \in Skbs
                           /\ cur.shape \in Shapes
                           /\ cur.shape.frags <= FragsMax

TypeInv == TypeOK /\ XmitHolds

LEMMA ShapeBounds ==
    ASSUME NEW sh \in Shapes, sh.frags <= FragsMax
    PROVE  /\ sh.data \in 1 .. MaxData
           /\ sh.ctx \in BOOLEAN
           /\ Descs(sh) \in 1 .. FragsMax + 1
           /\ (IF sh.ctx THEN 1 ELSE 0) + sh.data - 1 \in 0 .. FragsMax
           /\ (IF sh.ctx THEN 1 ELSE 0) \in 0 .. 1
  BY TxAssumption DEF Descs, MaxData

LEMMA BareBuffType ==
    ASSUME NEW c \in BOOLEAN
    PROVE  BareBuff(c) \in Buffs
  BY SizeAssumption DEF BareBuff, Buffs, Pa, NoPa, Dx

\* A run of aq_nic_map_skb leaves well-formed buffers behind.
LEMMA MappedType ==
    ASSUME TypeOK, NEW s \in Skbs, NEW sh \in Shapes, sh.frags <= FragsMax,
           NEW good \in Nat, good <= sh.data
    PROVE  Mapped(s, sh, good) \in [Dx -> Buffs]
  <1> DEFINE c == IF sh.ctx THEN 1 ELSE 0
             last == Adv(sw_tail, c + sh.data - 1)
  <1>1. /\ sh.data \in 1 .. MaxData /\ c \in 0 .. 1
        /\ c + sh.data - 1 \in 0 .. FragsMax /\ sw_tail \in Dx
    BY ShapeBounds DEF TypeOK
  <1>2. last \in Dx
    BY <1>1, AdvDx, TxAssumption, SizeAssumption
  <1>3. BareBuff(TRUE) \in Buffs
    BY BareBuffType
  <1>4. ASSUME NEW k \in 1 .. sh.data
        PROVE  DataBuff(s, sh, k, last) \in Buffs
    <2>1. <<s, k>> \in Pa
      BY <1>1, TxAssumption DEF Pa, MaxData
    <2> HIDE DEF last
    <2> QED BY <2>1, <1>2 DEF DataBuff, Buffs
  <1>5. ASSUME NEW i \in Dx, ~(Dist(sw_tail, i) < c), Dist(sw_tail, i) < c + good
        PROVE  Dist(sw_tail, i) - c + 1 \in 1 .. sh.data
    BY <1>1, <1>5, DistType
  <1>6. \A i \in Dx : buff_ring[i] \in Buffs
    BY DEF TypeOK
  <1> HIDE DEF c, last
  <1>7. Mapped(s, sh, good) = [i \in Dx |->
          LET d == Dist(sw_tail, i)
          IN IF d < c THEN BareBuff(TRUE)
             ELSE IF d < c + good THEN DataBuff(s, sh, d - c + 1, last)
             ELSE IF d = c /\ good = 0 THEN BareBuff(FALSE)
             ELSE buff_ring[i]]
    BY DEF Mapped, c, last
  <1>8. ASSUME NEW i \in Dx
        PROVE  (LET d == Dist(sw_tail, i)
                IN IF d < c THEN BareBuff(TRUE)
                   ELSE IF d < c + good THEN DataBuff(s, sh, d - c + 1, last)
                   ELSE IF d = c /\ good = 0 THEN BareBuff(FALSE)
                   ELSE buff_ring[i]) \in Buffs
    <2>1. CASE Dist(sw_tail, i) < c
      BY <2>1, <1>3
    <2>2. CASE ~(Dist(sw_tail, i) < c) /\ Dist(sw_tail, i) < c + good
      <3>1. DataBuff(s, sh, Dist(sw_tail, i) - c + 1, last) \in Buffs
        BY <2>2, <1>4, <1>5
      <3> QED BY <3>1, <2>2
    <2>3. CASE ~(Dist(sw_tail, i) < c) /\ ~(Dist(sw_tail, i) < c + good)
      BY <2>3, <1>6, BareBuffType
    <2> QED BY <2>1, <2>2, <2>3
  <1> QED BY <1>7, <1>8

LEMMA InitType == Init => TypeInv
  <1> SUFFICES ASSUME Init PROVE TypeInv OBVIOUS
  <1>1. 0 \in Dx
    BY SizeAssumption DEF Dx
  <1>2. pc \in [Threads -> Labels] /\ pc["xmit"] = "idle"
    BY DEF Init, Threads, Labels
  <1>3. buff_ring \in [Dx -> Buffs] /\ dx_ring \in [Dx -> Pa]
    BY BareBuffType DEF Init, Pa
  <1>4. cur \in [skb : Skbs \cup {NoSkb}, shape : Shapes \cup {NoShape},
                frags : 0 .. FragsMax + 1]
    BY TxAssumption DEF Init, NoXmit
  <1>5. budget \in 0 .. CleanBudget
    BY TxAssumption DEF Init
  <1> QED BY <1>1, <1>2, <1>3, <1>4, <1>5 DEF Init, TypeInv, TypeOK, XmitHolds

\* Moving a thread to one of the labels keeps the program counters typed.
LEMMA GotoType ==
    ASSUME TypeOK, NEW t \in Threads, NEW l \in Labels, Goto(t, l)
    PROVE  /\ pc' \in [Threads -> Labels]
           /\ pc'[t] = l
           /\ \A u \in Threads \ {t} : pc'[u] = pc[u]
  BY DEF TypeOK, Goto

LEMMA UpdateType ==
    ASSUME TypeInv, NEW t \in Threads, aq_ring_update_queue_state(t)
    PROVE  TypeInv'
  <1> USE DEF TypeInv
  <1>1. /\ pc' \in [Threads -> Labels]
        /\ pc["xmit"] = "idle" => pc'["xmit"] = "idle"
    <2>1. /\ {"idle", "update2", "stop", "wake", "test"} \subseteq Labels
          /\ After(t) \in {"idle", "test"} /\ "xmit" \in Threads
      BY DEF Labels, After, Threads
    <2>2. PICK l \in {"idle", "update2", "stop", "wake", "test"} : Goto(t, l)
      BY <2>1 DEF aq_ring_update_queue_state, UpdateWhole, UpdateReadLow,
             UpdateReadHigh, aq_ring_queue_stop, aq_ring_queue_wake
    <2>3. pc[t] # "idle"
      BY DEF aq_ring_update_queue_state, UpdateWhole, UpdateReadLow,
             UpdateReadHigh, aq_ring_queue_stop, aq_ring_queue_wake, At
    <2> QED BY <2>1, <2>2, <2>3, GotoType
  <1>2. stopped' \in BOOLEAN
    BY DEF aq_ring_update_queue_state, UpdateWhole, UpdateReadLow, queue,
           UpdateReadHigh, aq_ring_queue_stop, aq_ring_queue_wake, TypeOK
  <1>3. UNCHANGED <<sw_head, sw_tail, hw_head, buff_ring, dx_ring, reg_head,
                    reg_tail, carrier, device, dma, skbs, budget, cur>>
    BY DEF aq_ring_update_queue_state, UpdateWhole, UpdateReadLow, queue,
           UpdateReadHigh, aq_ring_queue_stop, aq_ring_queue_wake, ring, regs
  <1> QED BY <1>1, <1>2, <1>3 DEF TypeOK, XmitHolds

LEMMA XmitType ==
    ASSUME TypeInv, Xmit
    PROVE  TypeInv'
  <1> USE DEF TypeInv, ring, regs, queue
  <1> "xmit" \in Threads /\ {"idle", "update", "map", "post"} \subseteq Labels
    BY DEF Threads, Labels
  <1>1. ASSUME NEW s \in Skbs, NEW sh \in Shapes, XmitEnter(s, sh)
        PROVE  TypeInv'
    <2>1. pc' \in [Threads -> Labels]
      BY <1>1, GotoType DEF XmitEnter
    <2>2. cur' \in [skb : Skbs \cup {NoSkb}, shape : Shapes \cup {NoShape},
                   frags : 0 .. FragsMax + 1]
      BY <1>1, TxAssumption DEF XmitEnter
    <2>3. skbs' \in [Skbs -> {"stack", "xmit", "driver", "lost"}]
      BY <1>1 DEF XmitEnter, TypeOK
    <2>4. XmitHolds'
      BY <1>1 DEF XmitEnter, XmitHolds
    <2> QED BY <1>1, <2>1, <2>2, <2>3, <2>4 DEF XmitEnter, TypeOK
  <1>2. ASSUME XmitBusy
        PROVE  /\ pc' \in [Threads -> Labels] /\ pc'["xmit"] = "idle"
               /\ skbs' \in [Skbs -> {"stack", "xmit", "driver", "lost"}]
               /\ cur' \in [skb : Skbs \cup {NoSkb}, shape : Shapes \cup {NoShape},
                            frags : 0 .. FragsMax + 1]
    <2>1. pc' \in [Threads -> Labels] /\ pc'["xmit"] = "idle"
      BY <1>2, GotoType DEF XmitBusy
    <2>2. skbs' \in [Skbs -> {"stack", "xmit", "driver", "lost"}]
      BY <1>2 DEF XmitBusy, TypeOK
    <2>3. cur' \in [skb : Skbs \cup {NoSkb}, shape : Shapes \cup {NoShape},
                   frags : 0 .. FragsMax + 1]
      BY <1>2, TxAssumption DEF XmitBusy, NoXmit
    <2> QED BY <2>1, <2>2, <2>3
  <1>3. ASSUME XmitTest PROVE TypeInv'
    <2>1. CASE XmitBusy
      BY <1>2, <1>3, <2>1 DEF XmitTest, TypeOK, XmitHolds
    <2>2. CASE Goto("xmit", "map") /\ UNCHANGED <<skbs, cur>>
      <3>1. pc' \in [Threads -> Labels] /\ pc["xmit"] # "idle"
        BY <1>3, <2>2, GotoType DEF XmitTest, At
      <3> QED BY <1>3, <2>2, <3>1 DEF XmitTest, TypeOK, XmitHolds
    <2> QED BY <1>3, <2>1, <2>2 DEF XmitTest
  <1>4. ASSUME NEW fail \in FailAt \cup {0}, aq_nic_map_skb(fail)
        PROVE  TypeInv'
    <2> DEFINE s == cur.skb
               sh == cur.shape
               good == IF fail = 0 THEN sh.data ELSE fail - 1
               frags == MapCount(sh, fail)
    <2>1. s \in Skbs /\ sh \in Shapes /\ sh.frags <= FragsMax /\ fail \in Nat
      <3>1. pc["xmit"] = "map"
        BY <1>4 DEF aq_nic_map_skb, At
      <3>2. fail \in Nat
        BY TxAssumption
      <3> QED BY <3>1, <3>2 DEF XmitHolds
    <2>2. /\ sh.data \in 1 .. MaxData /\ good \in Nat /\ good <= sh.data
          /\ frags \in 0 .. FragsMax + 1
      <3>1. sh.data \in 1 .. MaxData /\ Descs(sh) \in 1 .. FragsMax + 1
        BY <2>1, ShapeBounds
      <3>2. fail <= sh.data
        BY <1>4 DEF aq_nic_map_skb
      <3>3. good \in Nat /\ good <= sh.data
        BY <2>1, <3>1, <3>2, TxAssumption DEF MaxData
      <3>4. frags \in 0 .. FragsMax + 1
        BY <3>1, TxAssumption DEF MapCount
      <3> QED BY <3>1, <3>3, <3>4
    <2>3. buff_ring' \in [Dx -> Buffs]
      BY <1>4, <2>1, <2>2, MappedType DEF aq_nic_map_skb
    <2>4. dma' \subseteq Pa
      <3>1. Pieces(s, sh) \subseteq Pa
        BY <2>1, <2>2, TxAssumption DEF Pieces, Pa, MaxData
      <3> QED BY <1>4, <3>1 DEF aq_nic_map_skb, TypeOK
    <2>5. CASE XmitBusy
      BY <1>2, <1>4, <2>3, <2>4, <2>5 DEF aq_nic_map_skb, TypeOK, XmitHolds
    <2>6. CASE /\ cur' = [skb |-> s, shape |-> sh, frags |-> frags]
               /\ Goto("xmit", "post") /\ UNCHANGED skbs
      <3>1. pc' \in [Threads -> Labels]
        BY <2>6, GotoType
      <3>2. cur' \in [skb : Skbs \cup {NoSkb}, shape : Shapes \cup {NoShape},
                     frags : 0 .. FragsMax + 1]
        BY <2>1, <2>2, <2>6
      <3>3. XmitHolds'
        BY <2>1, <2>6 DEF XmitHolds
      <3> QED BY <1>4, <2>3, <2>4, <2>6, <3>1, <3>2, <3>3
              DEF aq_nic_map_skb, TypeOK
    <2> QED BY <1>4, <2>5, <2>6 DEF aq_nic_map_skb
  <1>5. ASSUME hw_ring_tx_xmit PROVE TypeInv'
    <2>1. sw_tail' \in Dx
      BY <1>5, NextDx DEF hw_ring_tx_xmit, TypeOK
    <2>2. dx_ring' \in [Dx -> Pa]
      BY <1>5 DEF hw_ring_tx_xmit, TypeOK, Buffs
    <2>3. cur' \in [skb : Skbs \cup {NoSkb}, shape : Shapes \cup {NoShape},
                   frags : 0 .. FragsMax + 1]
      BY <1>5, TxAssumption DEF hw_ring_tx_xmit, TypeOK
    <2>4. XmitHolds'
      BY <1>5 DEF hw_ring_tx_xmit, XmitHolds
    <2> QED BY <1>5, <2>1, <2>2, <2>3, <2>4 DEF hw_ring_tx_xmit, TypeOK
  <1>6. ASSUME tx_ring_tail_update PROVE TypeInv'
    <2>1. pc' \in [Threads -> Labels] /\ pc'["xmit"] = "idle"
      BY <1>6, GotoType DEF tx_ring_tail_update
    <2>2. skbs' \in [Skbs -> {"stack", "xmit", "driver", "lost"}]
      BY <1>6 DEF tx_ring_tail_update, TypeOK
    <2>3. cur' \in [skb : Skbs \cup {NoSkb}, shape : Shapes \cup {NoShape},
                   frags : 0 .. FragsMax + 1]
      BY <1>6, TxAssumption DEF tx_ring_tail_update, NoXmit
    <2> QED BY <1>6, <2>1, <2>2, <2>3 DEF tx_ring_tail_update, TypeOK, XmitHolds
  <1> QED BY <1>1, <1>3, <1>4, <1>5, <1>6, UpdateType DEF Xmit

LEMMA PollType ==
    ASSUME TypeInv, Poll
    PROVE  TypeInv'
  <1> USE DEF TypeInv, ring, regs, queue
  <1> /\ "poll" \in Threads /\ "xmit" \in Threads \ {"poll"}
      /\ {"idle", "update", "clean"} \subseteq Labels
      /\ CleanBudget \in 0 .. CleanBudget
    BY TxAssumption DEF Threads, Labels
  <1>1. ASSUME hw_ring_tx_head_update PROVE TypeInv'
    <2>1. pc' \in [Threads -> Labels] /\ pc'["xmit"] = pc["xmit"]
      BY <1>1, GotoType DEF hw_ring_tx_head_update, TypeOK
    <2> QED BY <1>1, <2>1 DEF hw_ring_tx_head_update, TypeOK, XmitHolds
  <1>2. ASSUME aq_ring_tx_clean PROVE TypeInv'
    <2> DEFINE b == buff_ring[sw_head]
    <2>1. b \in Buffs
      BY DEF TypeOK
    <2>2. Cleaned(b) \in Buffs
      BY <2>1 DEF Cleaned, Buffs, Pa
    <2>3. buff_ring' \in [Dx -> Buffs]
      BY <1>2, <2>2 DEF aq_ring_tx_clean, TypeOK
    <2>4. skbs' \in [Skbs -> {"stack", "xmit", "driver", "lost"}]
      BY <1>2 DEF aq_ring_tx_clean, TypeOK
    <2>5. budget' \in 0 .. CleanBudget
      BY <1>2, TxAssumption DEF aq_ring_tx_clean, CleanDone, TypeOK
    <2>6. sw_head' \in Dx
      BY <1>2, NextDx DEF aq_ring_tx_clean, TypeOK
    <2>7. dma' \subseteq Pa
      BY <1>2 DEF aq_ring_tx_clean, TypeOK
    <2> QED BY <1>2, <2>3, <2>4, <2>5, <2>6, <2>7
            DEF aq_ring_tx_clean, TypeOK, XmitHolds
  <1>3. ASSUME CleanReturn PROVE TypeInv'
    <2>1. pc' \in [Threads -> Labels] /\ pc'["xmit"] = pc["xmit"]
      BY <1>3, GotoType DEF CleanReturn
    <2>2. budget' \in 0 .. CleanBudget
      BY <1>3, TxAssumption DEF CleanReturn
    <2>3. device' \in {"up", "stopping", "down"}
      BY <1>3 DEF CleanReturn, TypeOK
    <2> QED BY <1>3, <2>1, <2>2, <2>3 DEF CleanReturn, TypeOK, XmitHolds
  <1> QED BY <1>1, <1>2, <1>3, UpdateType DEF Poll

LEMMA RestType ==
    ASSUME TypeInv, HwFetch \/ Link \/ Life
    PROVE  TypeInv'
  <1> USE DEF TypeInv, ring, regs, queue
  <1> 0 \in Dx /\ CleanBudget \in 0 .. CleanBudget
    BY SizeAssumption, TxAssumption DEF Dx
  <1>1. CASE HwFetch
    <2>1. reg_head' \in Dx
      BY <1>1, NextDx DEF HwFetch, TypeOK
    <2>2. dx_ring' \in [Dx -> Pa]
      BY <1>1 DEF HwFetch, TypeOK, Pa
    <2> QED BY <1>1, <2>1, <2>2 DEF HwFetch, TypeOK, XmitHolds
  <1>2. CASE LinkUp
    BY <1>2 DEF LinkUp, TypeOK, XmitHolds
  <1>3. CASE LinkDown
    BY <1>3 DEF LinkDown, TypeOK, XmitHolds
  <1>4. CASE aq_nic_stop
    <2>1. "poll" \in Threads /\ "xmit" \in Threads \ {"poll"} /\ "clean" \in Labels
      BY DEF Threads, Labels
    <2>2. pc' \in [Threads -> Labels] /\ pc'["xmit"] = pc["xmit"]
      BY <1>4, <2>1, GotoType DEF aq_nic_stop
    <2> QED BY <1>4, <2>2 DEF aq_nic_stop, TypeOK, XmitHolds
  <1>5. CASE aq_nic_start
    <2>1. skbs' \in [Skbs -> {"stack", "xmit", "driver", "lost"}]
      BY <1>5 DEF aq_nic_start, TypeOK
    <2> QED BY <1>5, <2>1 DEF aq_nic_start, TypeOK, XmitHolds
  <1> QED BY <1>1, <1>2, <1>3, <1>4, <1>5 DEF Link, Life

LEMMA StepType == TypeInv /\ [Next]_vars => TypeInv'
  <1> SUFFICES ASSUME TypeInv, [Next]_vars PROVE TypeInv' OBVIOUS
  <1>1. CASE Xmit BY <1>1, XmitType
  <1>2. CASE Poll BY <1>2, PollType
  <1>3. CASE HwFetch \/ Link \/ Life BY <1>3, RestType
  <1>4. CASE UNCHANGED vars
    BY <1>4 DEF vars, ring, regs, queue, TypeInv, TypeOK, XmitHolds
  <1> QED BY <1>1, <1>2, <1>3, <1>4 DEF Next

(***************************************************************************)
(* Whatever threads overtake each other, and whatever mapping fails, the   *)
(* ring's indices, buffers and descriptors stay within their types.        *)
(***************************************************************************)
THEOREM TypeCorrect == Spec => []TypeOK
  <1>1. TypeInv => TypeOK
    BY DEF TypeInv
  <1> QED BY InitType, StepType, <1>1, PTL DEF Spec

-----------------------------------------------------------------------------
(* The ring does not overrun, as long as a poll is not overtaken inside    *)
(* aq_ring_update_queue_state.                                             *)

\* The slots free at each point of an xmit between its check and its use.
Room ==
    /\ pc["xmit"] \in {"update2", "wake", "map"} => Avail > FragsMax
    /\ pc["xmit"] = "test" /\ ~stopped => Avail > FragsMax
    /\ pc["xmit"] = "post" => cur.frags <= Avail

\* An xmit is under way only while the carrier is on and the device up, and
\* the poll holds no verdict on the queue it has yet to act on.
Places ==
    /\ pc["xmit"] # "idle" => carrier /\ device = "up"
    /\ pc["poll"] \in {"idle", "clean", "update"}

RingInv == TypeInv /\ RingOrder /\ Room /\ Places

LEMMA AvailIs ==
    ASSUME TypeOK
    PROVE  Avail = Size - 1 - Dist(sw_head, sw_tail) /\ Avail \in Nat
  BY AvailDist, DistType, SizeAssumption DEF TypeOK, Avail

LEMMA AvailIsPrime ==
    ASSUME TypeOK'
    PROVE  Avail' = Size - 1 - Dist(sw_head', sw_tail') /\ Avail' \in Nat
  BY AvailDist, DistType, SizeAssumption DEF TypeOK, Avail

LEMMA InitRing == Init => RingInv
  <1> SUFFICES ASSUME Init PROVE RingInv OBVIOUS
  <1>1. TypeInv BY InitType
  <1>2. RingOrder
    BY SizeAssumption DEF Init, RingOrder, InOrder, Dist
  <1>3. Room /\ Places
    BY DEF Init, Room, Places, Threads
  <1> QED BY <1>1, <1>2, <1>3 DEF RingInv

\* A verdict of aq_ring_update_queue_state, by whichever thread may reach it.
LEMMA UpdateRing ==
    ASSUME "poll" \notin Torn, RingInv, NEW t \in Threads,
           aq_ring_update_queue_state(t)
    PROVE  RingOrder' /\ Room' /\ Places'
  <1> USE DEF RingInv, TypeInv, ring, regs, queue
  <1>1. /\ UNCHANGED <<sw_head, sw_tail, hw_head, reg_head, reg_tail, cur,
                       carrier, device>>
        /\ pc' \in [Threads -> Labels]
        /\ \A u \in Threads \ {t} : pc'[u] = pc[u]
        /\ pc[t] \in {"update", "update2", "stop", "wake"}
    <2>1. /\ {"idle", "update2", "stop", "wake", "test"} \subseteq Labels
          /\ After(t) \in {"idle", "test"}
      BY DEF Labels, After
    <2>2. PICK l \in Labels : Goto(t, l)
      BY <2>1 DEF aq_ring_update_queue_state, UpdateWhole, UpdateReadLow,
             UpdateReadHigh, aq_ring_queue_stop, aq_ring_queue_wake
    <2> QED BY <2>2, GotoType DEF aq_ring_update_queue_state, UpdateWhole, At,
            UpdateReadLow, UpdateReadHigh, aq_ring_queue_stop, aq_ring_queue_wake
  <1>2. RingOrder' /\ Avail' = Avail
    BY <1>1 DEF RingOrder, Avail
  <1>3. Avail \in Nat
    BY AvailIs
  <1>4. CASE t = "poll"
    <2>1. UpdateWhole("poll")
      BY <1>4, <1>1 DEF aq_ring_update_queue_state, UpdateReadLow, UpdateReadHigh,
         aq_ring_queue_stop, aq_ring_queue_wake, At, Places
    <2>2. pc'["poll"] = "idle" /\ pc'["xmit"] = pc["xmit"]
      BY <2>1, <1>4, <1>1 DEF UpdateWhole, Goto, After, Threads, TypeOK
    <2>3. ~stopped' => ~stopped \/ Avail > FragsMax
      BY <2>1, <1>3, TxAssumption DEF UpdateWhole
    <2> QED BY <1>1, <1>2, <2>2, <2>3 DEF Room, Places
  <1>5. CASE t = "xmit"
    <2>1. pc'["poll"] = pc["poll"] /\ carrier' /\ device' = "up"
      BY <1>1, <1>5 DEF Threads, Places
    <2>2. Room'
      <3>1. CASE UpdateWhole("xmit")
        <4>1. pc'["xmit"] = "test"
          BY <3>1, <1>5 DEF UpdateWhole, Goto, After, TypeOK
        <4>2. ~stopped' => Avail > FragsMax
          BY <3>1, <1>3, TxAssumption DEF UpdateWhole
        <4> QED BY <4>1, <4>2, <1>2 DEF Room
      <3>2. CASE UpdateReadLow("xmit")
        BY <3>2, <1>2, <1>3, <1>5, TxAssumption DEF UpdateReadLow, Goto, TypeOK, Room
      <3>3. CASE UpdateReadHigh("xmit")
        BY <3>3, <1>2, <1>3, <1>5 DEF UpdateReadHigh, Goto, After, At, TypeOK, Room
      <3>4. CASE aq_ring_queue_stop("xmit")
        BY <3>4, <1>2, <1>5 DEF aq_ring_queue_stop, Goto, After, TypeOK, Room
      <3>5. CASE aq_ring_queue_wake("xmit")
        BY <3>5, <1>2, <1>5 DEF aq_ring_queue_wake, Goto, After, At, TypeOK, Room
      <3> QED BY <1>5, <3>1, <3>2, <3>3, <3>4, <3>5 DEF aq_ring_update_queue_state
    <2> QED BY <1>2, <2>1, <2>2 DEF Places
  <1> QED BY <1>4, <1>5 DEF Threads

LEMMA XmitRing ==
    ASSUME "poll" \notin Torn, RingInv, Xmit
    PROVE  RingOrder' /\ Room' /\ Places'
  <1> USE DEF RingInv, TypeInv, ring, regs, queue
  <1> /\ "xmit" \in Threads /\ "poll" \in Threads
      /\ {"idle", "update", "map", "post"} \subseteq Labels
    BY DEF Threads, Labels
  <1>0. Avail \in Nat
    BY AvailIs
  <1>1. ASSUME NEW s \in Skbs, NEW sh \in Shapes, XmitEnter(s, sh)
        PROVE  RingOrder' /\ Room' /\ Places'
    <2>1. pc'["xmit"] = "update" /\ pc'["poll"] = pc["poll"]
      BY <1>1 DEF XmitEnter, Goto, TypeOK
    <2> QED BY <1>1, <2>1 DEF XmitEnter, RingOrder, Room, Places
  <1>2. ASSUME XmitBusy
        PROVE  pc'["xmit"] = "idle" /\ pc'["poll"] = pc["poll"]
    BY <1>2 DEF XmitBusy, Goto, TypeOK
  <1>3. ASSUME XmitTest PROVE RingOrder' /\ Room' /\ Places'
    <2>1. CASE stopped
      BY <1>2, <1>3, <2>1 DEF XmitTest, RingOrder, Room, Places
    <2>2. CASE ~stopped
      <3>1. pc'["xmit"] = "map" /\ pc'["poll"] = pc["poll"] /\ pc["xmit"] = "test"
        BY <1>3, <2>2 DEF XmitTest, Goto, At, TypeOK
      <3>2. Avail' > FragsMax
        BY <1>3, <2>2, <3>1 DEF XmitTest, Room, Avail
      <3> QED BY <1>3, <3>1, <3>2 DEF XmitTest, RingOrder, Room, Places
    <2> QED BY <2>1, <2>2
  <1>4. ASSUME NEW fail \in FailAt \cup {0}, aq_nic_map_skb(fail)
        PROVE  RingOrder' /\ Room' /\ Places'
    <2>1. Avail' = Avail /\ Avail > FragsMax /\ pc["xmit"] = "map"
      BY <1>4 DEF aq_nic_map_skb, Avail, Room, At
    <2>2. CASE XmitBusy
      BY <1>2, <1>4, <2>1, <2>2 DEF aq_nic_map_skb, RingOrder, Room, Places
    <2>3. CASE ~XmitBusy
      <3>1. pc'["xmit"] = "post" /\ pc'["poll"] = pc["poll"]
        BY <1>4, <2>3 DEF aq_nic_map_skb, Goto, TypeOK
      <3>2. cur'.frags <= FragsMax + 1
        <4>1. cur.shape \in Shapes /\ cur.shape.frags <= FragsMax
          BY <2>1 DEF XmitHolds
        <4>2. Descs(cur.shape) <= FragsMax + 1
          BY <4>1, TxAssumption
        <4> QED BY <1>4, <2>3, <4>2, TxAssumption DEF aq_nic_map_skb, MapCount
      <3>3. cur'.frags \in Int
        BY XmitType DEF TypeOK
      <3> QED BY <1>0, <1>4, <2>1, <3>1, <3>2, <3>3, TxAssumption
              DEF aq_nic_map_skb, RingOrder, Room, Places
    <2> QED BY <2>2, <2>3
  <1>5. ASSUME hw_ring_tx_xmit PROVE RingOrder' /\ Room' /\ Places'
    <2>1. /\ cur.frags <= Avail /\ cur.frags > 0 /\ cur.frags \in Nat
          /\ pc' = pc /\ pc["xmit"] = "post" /\ cur'.frags = cur.frags - 1
      BY <1>5 DEF hw_ring_tx_xmit, At, Room, TypeOK
    <2>2. Dist(sw_head, sw_tail') = Dist(sw_head, sw_tail) + 1
      <3>1. /\ sw_head \in Dx /\ sw_tail \in Dx
            /\ sw_tail' = aq_ring_next_dx(sw_tail)
        BY <1>5 DEF hw_ring_tx_xmit, TypeOK
      <3>2. Dist(sw_head, sw_tail) \in Nat
        BY <3>1, DistType
      <3>3. Dist(sw_head, sw_tail) < Size - 1
        BY <2>1, <3>2, AvailIs, SizeAssumption
      <3> QED BY <3>1, <3>3, DistNextFar
    <2>3. Avail' = Avail - 1
      <3>1. /\ TypeOK' /\ sw_head' = sw_head
            /\ Dist(sw_head, sw_tail) \in Nat
        BY <1>5, XmitType, DistType DEF hw_ring_tx_xmit, TypeOK
      <3> QED BY <2>2, <3>1, AvailIs, AvailIsPrime, SizeAssumption
    <2>4. RingOrder'
      <3>1. /\ Dist(sw_head, sw_tail) \in Nat /\ Dist(sw_head, reg_tail) \in Nat
            /\ UNCHANGED <<sw_head, hw_head, reg_head, reg_tail>>
        BY <1>5, DistType DEF hw_ring_tx_xmit, TypeOK
      <3> QED BY <2>2, <3>1 DEF RingOrder, InOrder
    <2> QED BY <1>0, <1>5, <2>1, <2>3, <2>4 DEF hw_ring_tx_xmit, Room, Places
  <1>6. ASSUME tx_ring_tail_update PROVE RingOrder' /\ Room' /\ Places'
    <2>1. pc'["xmit"] = "idle" /\ pc'["poll"] = pc["poll"]
      BY <1>6 DEF tx_ring_tail_update, Goto, TypeOK
    <2>2. RingOrder'
      BY <1>6, DistType DEF tx_ring_tail_update, RingOrder, InOrder, TypeOK
    <2> QED BY <2>1, <2>2 DEF Room, Places
  <1> QED BY <1>1, <1>3, <1>4, <1>5, <1>6, UpdateRing DEF Xmit

LEMMA PollRing ==
    ASSUME "poll" \notin Torn, RingInv, Poll
    PROVE  RingOrder' /\ Room' /\ Places'
  <1> USE DEF RingInv, TypeInv, ring, regs, queue
  <1> "xmit" \in Threads /\ "poll" \in Threads
    BY DEF Threads
  <1>1. ASSUME hw_ring_tx_head_update PROVE RingOrder' /\ Room' /\ Places'
    <2>1. pc'["xmit"] = pc["xmit"] /\ pc'["poll"] \in {"idle", "clean"}
      BY <1>1 DEF hw_ring_tx_head_update, Goto, At, TypeOK
    <2>2. RingOrder'
      BY <1>1, DistType DEF hw_ring_tx_head_update, RingOrder, InOrder, TypeOK
    <2>3. Avail' = Avail
      BY <1>1 DEF hw_ring_tx_head_update, Avail
    <2> QED BY <1>1, <2>1, <2>2, <2>3 DEF hw_ring_tx_head_update, Room, Places
  <1>2. ASSUME aq_ring_tx_clean PROVE RingOrder' /\ Room' /\ Places'
    <2> DEFINE D(x) == Dist(sw_head, x)
    <2>1. /\ sw_head \in Dx /\ hw_head \in Dx /\ reg_head \in Dx
          /\ reg_tail \in Dx /\ sw_tail \in Dx /\ sw_head # hw_head
          /\ sw_head' = aq_ring_next_dx(sw_head)
          /\ UNCHANGED <<sw_tail, hw_head, reg_head, reg_tail, pc, cur, stopped,
                         carrier, device>>
      BY <1>2 DEF aq_ring_tx_clean, CleanDone, TypeOK
    <2>2. /\ D(hw_head) \in Nat /\ D(reg_head) \in Nat
          /\ D(reg_tail) \in Nat /\ D(sw_tail) \in Nat
          /\ D(hw_head) > 0 /\ D(hw_head) <= D(reg_head)
          /\ D(reg_head) <= D(reg_tail) /\ D(reg_tail) <= D(sw_tail)
      BY <2>1, DistType DEF RingOrder, InOrder
    <2>3. sw_head # reg_head /\ sw_head # reg_tail /\ sw_head # sw_tail
      <3>1. D(reg_head) # 0 /\ D(reg_tail) # 0 /\ D(sw_tail) # 0
        BY <2>2
      <3> QED BY <2>1, <3>1, DistType
    <2>4. /\ Dist(sw_head', hw_head) = D(hw_head) - 1
          /\ Dist(sw_head', reg_head) = D(reg_head) - 1
          /\ Dist(sw_head', reg_tail) = D(reg_tail) - 1
          /\ Dist(sw_head', sw_tail) = D(sw_tail) - 1
      BY <2>1, <2>3, DistNextNear
    <2>5. RingOrder'
      BY <2>1, <2>2, <2>4 DEF RingOrder, InOrder
    <2>6. Avail' = Avail + 1 /\ Avail \in Nat
      BY <2>1, <2>2, <2>4, AvailIs, AvailIsPrime, PollType, SizeAssumption
    <2>7. cur.frags \in Nat
      BY DEF TypeOK
    <2> QED BY <2>1, <2>5, <2>6, <2>7, TxAssumption DEF Room, Places
  <1>3. ASSUME CleanReturn PROVE RingOrder' /\ Room' /\ Places'
    <2>1. pc'["xmit"] = pc["xmit"] /\ pc'["poll"] \in {"idle", "update"}
      BY <1>3 DEF CleanReturn, Goto, TypeOK
    <2>2. device = "up" => device' = "up"
      BY <1>3 DEF CleanReturn
    <2>3. RingOrder' /\ Avail' = Avail
      BY <1>3 DEF CleanReturn, RingOrder, Avail
    <2> QED BY <1>3, <2>1, <2>2, <2>3 DEF CleanReturn, Room, Places
  <1> QED BY <1>1, <1>2, <1>3, UpdateRing DEF Poll

LEMMA RestRing ==
    ASSUME RingInv, HwFetch \/ Link \/ Life
    PROVE  RingOrder' /\ Room' /\ Places'
  <1> USE DEF RingInv, TypeInv, ring, regs, queue
  <1> "xmit" \in Threads /\ "poll" \in Threads
    BY DEF Threads
  <1>1. CASE HwFetch
    <2> DEFINE D(x) == Dist(sw_head, x)
    <2>1. /\ sw_head \in Dx /\ hw_head \in Dx /\ reg_head \in Dx
          /\ reg_tail \in Dx /\ sw_tail \in Dx /\ reg_head # reg_tail
          /\ reg_head' = aq_ring_next_dx(reg_head)
          /\ UNCHANGED <<sw_head, sw_tail, hw_head, reg_tail, pc, cur, stopped,
                         carrier, device>>
      BY <1>1 DEF HwFetch, TypeOK
    <2>2. /\ D(hw_head) \in Nat /\ D(reg_head) \in Nat
          /\ D(reg_tail) \in Nat /\ D(reg_tail) < Size
          /\ D(hw_head) <= D(reg_head) /\ D(reg_head) <= D(reg_tail)
      BY <2>1, DistType DEF RingOrder, InOrder
    <2>3. D(reg_head) # D(reg_tail)
      BY <2>1, DistInjective
    <2>4. D(reg_head') = D(reg_head) + 1
      BY <2>1, <2>2, <2>3, DistNextFar, SizeAssumption
    <2>5. RingOrder'
      BY <2>1, <2>2, <2>3, <2>4 DEF RingOrder, InOrder
    <2> QED BY <2>1, <2>5 DEF Room, Places, Avail
  <1>2. CASE LinkUp
    <2>1. pc["xmit"] = "idle"
      BY <1>2 DEF LinkUp, Places
    <2> QED BY <1>2, <2>1 DEF LinkUp, RingOrder, Room, Places
  <1>3. CASE LinkDown
    BY <1>3 DEF LinkDown, At, RingOrder, Room, Places
  <1>4. CASE aq_nic_stop
    <2>1. pc'["xmit"] = "idle" /\ pc'["poll"] = "clean"
      BY <1>4 DEF aq_nic_stop, Goto, At, TypeOK
    <2> QED BY <1>4, <2>1 DEF aq_nic_stop, RingOrder, Room, Places
  <1>5. CASE aq_nic_start
    <2>1. pc["xmit"] = "idle"
      BY <1>5 DEF aq_nic_start, Places
    <2>2. RingOrder'
      BY <1>5, SizeAssumption DEF aq_nic_start, RingOrder, InOrder, Dist
    <2> QED BY <1>5, <2>1, <2>2 DEF aq_nic_start, Room, Places
  <1> QED BY <1>1, <1>2, <1>3, <1>4, <1>5 DEF Link, Life

LEMMA StepRing ==
    ASSUME "poll" \notin Torn
    PROVE  RingInv /\ [Next]_vars => RingInv'
  <1> SUFFICES ASSUME RingInv, [Next]_vars PROVE RingInv' OBVIOUS
  <1>0. TypeInv'
    BY StepType DEF RingInv
  <1>1. CASE Xmit BY <1>0, <1>1, XmitRing DEF RingInv
  <1>2. CASE Poll BY <1>0, <1>2, PollRing DEF RingInv
  <1>3. CASE HwFetch \/ Link \/ Life BY <1>0, <1>3, RestRing DEF RingInv
  <1>4. CASE UNCHANGED vars
    BY <1>0, <1>4 DEF vars, ring, regs, queue, RingInv, RingOrder, Room, Places, Avail
  <1> QED BY <1>1, <1>2, <1>3, <1>4 DEF Next

(***************************************************************************)
(* Unless a poll can be overtaken between its look at the free slots and   *)
(* the wake-up it decides on, the indices of a Tx ring of any size keep    *)
(* their order: aq_ring_tx_clean never passes the device's head, the       *)
(* device never passes the tail, and the tail never laps sw_head.          *)
(***************************************************************************)
THEOREM RingNeverOverruns ==
    ASSUME "poll" \notin Torn
    PROVE  Spec => []RingOrder
  <1>1. RingInv => RingOrder
    BY DEF RingInv
  <1> QED BY InitRing, StepRing, <1>1, PTL DEF Spec

(***************************************************************************)
(* Under the same assumption the queue check of aq_nic_xmit is enough: a   *)
(* packet finds room for all its descriptors when it is mapped, and while  *)
(* they are posted.                                                        *)
(***************************************************************************)
THEOREM XmitHasRoom ==
    ASSUME "poll" \notin Torn
    PROVE  Spec => []XmitRoom
  <1>1. RingInv => XmitRoom
    BY DEF RingInv, Room, XmitRoom, At
  <1> QED BY InitRing, StepRing, <1>1, PTL DEF Spec

-----------------------------------------------------------------------------
(* The packets in the ring.  Slots are looked at by their distance from    *)
(* sw_head; live are those that hold a descriptor not yet reclaimed, or    *)
(* mapped and about to be posted.                                          *)

D(i) == Dist(sw_head, i)
Pending == IF pc["xmit"] = "post" THEN cur.frags ELSE 0
Live == {i \in Dx : D(i) < D(sw_tail) + Pending}
PaOf(i) == buff_ring[i].pa

\* A live buffer is bare, of a context, or of a mapped piece of an skb that the
\* driver has.
Forms ==
    \A i \in Live :
        \/ PaOf(i) = NoPa /\ ~buff_ring[i].mapped /\ ~buff_ring[i].eop
        \/ /\ PaOf(i) # NoPa /\ buff_ring[i].mapped /\ PaOf(i) \in dma
           /\ buff_ring[i].sop <=> PaOf(i)[2] = 1
           /\ buff_ring[i].eop => buff_ring[i].skb = PaOf(i)[1]
           /\ \/ skbs[PaOf(i)[1]] = "driver"
              \/ pc["xmit"] = "post" /\ PaOf(i)[1] = cur.skb

\* No piece is in two slots.
Distinct == \A i, j \in Live : PaOf(i) = PaOf(j) /\ PaOf(i) # NoPa => i = j

\* The slot with eop is the last of its packet, the first one knows it, and
\* the slots of a packet follow each other.
EndsAtEop ==
    \A i, j \in Live : buff_ring[i].eop /\ PaOf(j)[1] = PaOf(i)[1] => D(j) <= D(i)
EopKnown ==
    \A i \in Live : PaOf(i) # NoPa /\ buff_ring[i].sop /\ ~buff_ring[i].eop =>
        /\ buff_ring[i].eop_index \in Live /\ buff_ring[buff_ring[i].eop_index].eop
        /\ PaOf(buff_ring[i].eop_index)[1] = PaOf(i)[1]
Contiguous ==
    \A i \in Live \ {sw_head} : PaOf(i)[2] > 1 =>
        \E j \in Live : D(j) + 1 = D(i) /\ PaOf(j)[1] = PaOf(i)[1]

\* aq_ring_tx_clean is in the middle of a packet only when the last poll saw
\* all of it completed.
HeadDone ==
    sw_head \in Live /\ PaOf(sw_head)[2] > 1 =>
        \A j \in Live : PaOf(j)[1] = PaOf(sw_head)[1] => D(j) < D(hw_head)

\* A mapping is of a live slot, or was left behind by a stop.
Tracked ==
    \A p \in dma : p # NoPa /\ (skbs[p[1]] = "lost" \/ \E i \in Live : PaOf(i) = p)

\* The descriptors not fetched yet are those of the buffers.
Posted ==
    \A i \in Dx : D(reg_head) <= D(i) /\ D(i) < D(sw_tail) => dx_ring[i] = PaOf(i)

\* The packet an xmit is posting is out of the device's reach.
Unsent ==
    pc["xmit"] = "post" =>
        \A i \in Live : PaOf(i)[1] = cur.skb => D(reg_tail) <= D(i)

Sending == \A s \in Skbs : skbs[s] = "xmit" <=> pc["xmit"] # "idle" /\ s = cur.skb

PacketInv ==
    /\ Forms /\ Distinct /\ EndsAtEop /\ EopKnown /\ Contiguous
    /\ HeadDone /\ Tracked /\ Posted /\ Unsent /\ Sending

\* A bus address is that of a piece of an skb, or none.
LEMMA PaIs ==
    ASSUME NEW p \in Pa
    PROVE  /\ p = NoPa => p[1] = NoSkb /\ p[2] = 0
           /\ p # NoPa => p[1] \in Skbs /\ p[2] \in Nat \ {0}
  BY TxAssumption DEF Pa, NoPa, MaxData

LEMMA PaOfType ==
    ASSUME TypeOK, NEW i \in Dx
    PROVE  /\ buff_ring[i] \in Buffs /\ PaOf(i) \in Pa
           /\ PaOf(i) = NoPa => PaOf(i)[1] = NoSkb /\ PaOf(i)[2] = 0
           /\ PaOf(i) # NoPa => PaOf(i)[1] \in Skbs /\ PaOf(i)[2] \in Nat \ {0}
<1>1. buff_ring[i] \in Buffs /\ PaOf(i) \in Pa
  BY DEF TypeOK, Buffs, PaOf
<1> QED BY <1>1, PaIs

LEMMA InitPacket == Init => PacketInv
<1> SUFFICES ASSUME Init PROVE PacketInv OBVIOUS
<1>1. pc["xmit"] = "idle" /\ sw_head = 0 /\ sw_tail = 0 /\ dma = {}
  BY DEF Init, Threads
<1>2. Live = {}
  BY <1>1, DistType, SizeAssumption DEF Live, D, Pending, Dx
<1>3. Posted
  BY <1>1, DistType, SizeAssumption DEF Posted, D, Dx
<1>4. Sending
  BY <1>1 DEF Sending, Init
<1> QED BY <1>1, <1>2, <1>3, <1>4 DEF PacketInv, Forms, Distinct, EndsAtEop, EopKnown,
           Contiguous, HeadDone, Tracked, Unsent

\* Distances from sw_head, and how many of them are in use.
LEMMA DType ==
    ASSUME RingInv
    PROVE  /\ \A i \in Dx : D(i) \in Nat /\ D(i) < Size /\ (D(i) = 0 <=> i = sw_head)
           /\ \A i, j \in Dx : D(i) = D(j) => i = j
           /\ {sw_head, sw_tail, hw_head, reg_head, reg_tail} \subseteq Dx
           /\ D(hw_head) <= D(reg_head) /\ D(reg_head) <= D(reg_tail)
           /\ D(reg_tail) <= D(sw_tail)
           /\ Pending \in Nat /\ D(sw_tail) + Pending <= Size - 1
           /\ Live \subseteq Dx
<1>1. sw_head \in Dx /\ {sw_head, sw_tail, hw_head, reg_head, reg_tail} \subseteq Dx
  BY DEF RingInv, TypeInv, TypeOK
<1>2. /\ \A i \in Dx : D(i) \in Nat /\ D(i) < Size /\ (D(i) = 0 <=> i = sw_head)
      /\ \A i, j \in Dx : D(i) = D(j) => i = j
  BY <1>1, DistType, DistInjective DEF D
<1>3. /\ D(hw_head) <= D(reg_head) /\ D(reg_head) <= D(reg_tail)
      /\ D(reg_tail) <= D(sw_tail)
  BY DEF RingInv, RingOrder, InOrder, D
<1>4. Pending \in Nat /\ D(sw_tail) + Pending <= Size - 1
  <2>1. Avail = Size - 1 - D(sw_tail) /\ Avail \in Nat
    BY AvailIs DEF RingInv, TypeInv, D
  <2>2. cur.frags \in Nat
    BY DEF RingInv, TypeInv, TypeOK
  <2>3. Pending \in Nat /\ Pending <= Avail
    BY <2>1, <2>2 DEF Pending, RingInv, Room
  <2> QED BY <1>1, <1>2, <2>1, <2>3, SizeAssumption
<1> QED BY <1>1, <1>2, <1>3, <1>4 DEF Live

LEMMA DTypePrime ==
    ASSUME RingInv'
    PROVE  /\ \A i \in Dx : D(i)' \in Nat /\ D(i)' < Size /\ (D(i)' = 0 <=> i = sw_head')
           /\ {sw_head', sw_tail', hw_head', reg_head', reg_tail'} \subseteq Dx
           /\ Pending' \in Nat /\ D(sw_tail)' + Pending' <= Size - 1
<1>1. {sw_head', sw_tail', hw_head', reg_head', reg_tail'} \subseteq Dx
  BY DEF RingInv, TypeInv, TypeOK
<1>2. \A i \in Dx : D(i)' \in Nat /\ D(i)' < Size /\ (D(i)' = 0 <=> i = sw_head')
  BY <1>1, DistType DEF D
<1>3. Pending' \in Nat /\ D(sw_tail)' + Pending' <= Size - 1
  <2>1. Avail' = Size - 1 - D(sw_tail)' /\ Avail' \in Nat
    BY AvailIsPrime DEF RingInv, TypeInv, D
  <2>2. cur'.frags \in Nat
    BY DEF RingInv, TypeInv, TypeOK
  <2>3. Pending' \in Nat /\ Pending' <= Avail'
    BY <2>1, <2>2 DEF Pending, RingInv, Room
  <2> QED BY <1>1, <1>2, <2>1, <2>3, SizeAssumption
<1> QED BY <1>1, <1>2, <1>3

\* Going forward from sw_head, the slots from a up to b.
LEMMA SlotsAre ==
    ASSUME RingInv, NEW a \in Dx, NEW b \in Dx, D(a) <= D(b), NEW i \in Slots(a, b)
    PROVE  i \in Dx /\ D(a) <= D(i) /\ D(i) < D(b)
<1>1. sw_head \in Dx
  BY DEF RingInv, TypeInv, TypeOK
<1> QED BY <1>1, SizeAssumption DEF Slots, D, Dist, Dx

LEMMA PacketSafe == RingInv /\ PacketInv => DmaSafe
<1> SUFFICES ASSUME RingInv, PacketInv, NEW i \in Slots(reg_head, reg_tail), dx_ring[i] # NoPa
             PROVE  dx_ring[i] \in dma
  BY DEF DmaSafe
<1>1. i \in Dx /\ D(reg_head) <= D(i) /\ D(i) < D(reg_tail)
  BY SlotsAre, DType
<1>2. D(i) < D(sw_tail) /\ i \in Live
  BY <1>1, DType DEF Live
<1>3. dx_ring[i] = PaOf(i)
  BY <1>1, <1>2 DEF PacketInv, Posted
<1> QED BY <1>2, <1>3 DEF PacketInv, Forms

\* A step that leaves the ring, its buffers and its mappings alone.
LEMMA QuietPacket ==
    ASSUME RingInv, PacketInv,
           UNCHANGED <<sw_head, dma>>, Live' = Live, \A i \in Live : buff_ring'[i] = buff_ring[i],
           Posted', Unsent', Sending', D(hw_head) <= D(hw_head)', hw_head' \in Dx,
           \A s \in Skbs : \/ skbs'[s] = skbs[s]
                           \/ s = cur.skb /\ skbs[s] = "xmit" /\ pc["xmit"] = "post"
                              /\ skbs'[s] = "driver"
                           \/ \A i \in Live : PaOf(i)[1] # s,
           \A s \in Skbs : skbs[s] = "lost" => skbs'[s] = "lost",
           pc["xmit"] = "post" => \/ pc'["xmit"] = "post" /\ cur'.skb = cur.skb
                                  \/ skbs'[cur.skb] = "driver"
    PROVE  PacketInv'
<1>1. \A i \in Live : D(i)' = D(i) /\ PaOf(i)' = PaOf(i)
  BY DEF D, PaOf
<1>2. Live \subseteq Dx /\ TypeOK
  BY DType DEF RingInv, TypeInv
<1>3. Distinct' /\ EndsAtEop' /\ EopKnown' /\ Contiguous'
  <2>1. Distinct'
    BY <1>1, <1>2 DEF PacketInv, Distinct
  <2>2. EndsAtEop'
    BY <1>1, <1>2 DEF PacketInv, EndsAtEop
  <2>3. EopKnown'
    BY <1>1, <1>2 DEF PacketInv, EopKnown
  <2>4. Contiguous'
    BY <1>1, <1>2 DEF PacketInv, Contiguous
  <2> QED BY <2>1, <2>2, <2>3, <2>4
<1>4. HeadDone'
  <2> SUFFICES ASSUME sw_head' \in Live', PaOf(sw_head)'[2] > 1,
                      NEW j \in Live', PaOf(j)'[1] = PaOf(sw_head)'[1]
               PROVE  D(j)' < D(hw_head)'
    BY DEF HeadDone
  <2>0. D(hw_head)' = D(hw_head') /\ sw_head \in Live /\ PaOf(sw_head)' = PaOf(sw_head)
    BY <1>2 DEF D, PaOf
  <2>1. D(j) < D(hw_head)
    BY <1>1, <1>2, <2>0 DEF PacketInv, HeadDone
  <2>2. D(j) \in Nat /\ D(hw_head) \in Nat /\ D(hw_head') \in Nat
    BY <1>2, DType
  <2> QED BY <1>1, <1>2, <2>0, <2>1, <2>2
<1>5. Forms'
  <2> SUFFICES ASSUME NEW i \in Live, PaOf(i) # NoPa,
                      \/ skbs[PaOf(i)[1]] = "driver"
                      \/ pc["xmit"] = "post" /\ PaOf(i)[1] = cur.skb
               PROVE  \/ skbs'[PaOf(i)[1]] = "driver"
                      \/ pc'["xmit"] = "post" /\ PaOf(i)[1] = cur'.skb
    BY <1>1, <1>2 DEF PacketInv, Forms
  <2>1. PaOf(i)[1] \in Skbs
    BY <1>2, PaOfType
  <2> QED BY <2>1
<1>6. Tracked'
  <2> SUFFICES ASSUME NEW p \in dma
               PROVE  p # NoPa /\ (skbs'[p[1]] = "lost" \/ \E i \in Live : PaOf(i)' = p)
    BY DEF Tracked
  <2>1. p # NoPa /\ (skbs[p[1]] = "lost" \/ \E i \in Live : PaOf(i) = p)
    BY DEF PacketInv, Tracked
  <2>2. p[1] \in Skbs
    BY <1>2, <2>1, PaIs DEF TypeOK
  <2> QED BY <1>1, <1>2, <2>1, <2>2
<1> QED BY <1>3, <1>4, <1>5, <1>6 DEF PacketInv

\* The steps that only move a thread, and the device's own.
LEMMA PostedStays ==
    ASSUME PacketInv, UNCHANGED <<sw_head, sw_tail, reg_head, dx_ring, buff_ring>>
    PROVE  Posted'
  BY DEF PacketInv, Posted, D, PaOf

LEMMA LiveStays ==
    ASSUME UNCHANGED <<sw_head, sw_tail>>, Pending' = Pending
    PROVE  Live' = Live
  BY DEF Live, D

LEMMA UpdatePacket ==
    ASSUME RingInv, RingInv', PacketInv, NEW t \in Threads, aq_ring_update_queue_state(t)
    PROVE  PacketInv'
<1>1. UNCHANGED <<sw_head, sw_tail, hw_head, buff_ring, dx_ring, reg_head, reg_tail, dma, skbs,
                  cur>>
  BY DEF aq_ring_update_queue_state, UpdateWhole, UpdateReadLow, queue, ring, regs,
         UpdateReadHigh, aq_ring_queue_stop, aq_ring_queue_wake
<1>2. /\ pc["xmit"] = "post" <=> pc'["xmit"] = "post"
      /\ pc["xmit"] = "idle" <=> pc'["xmit"] = "idle"
  <2>1. pc[t] \in {"update", "update2", "stop", "wake"}
    BY DEF aq_ring_update_queue_state, UpdateWhole, UpdateReadLow,
           UpdateReadHigh, aq_ring_queue_stop, aq_ring_queue_wake, At
  <2>2. PICK l \in {"idle", "update2", "stop", "wake", "test"} :
            Goto(t, l) /\ (t = "xmit" => l # "idle")
    BY DEF aq_ring_update_queue_state, UpdateWhole, UpdateReadLow, After,
           UpdateReadHigh, aq_ring_queue_stop, aq_ring_queue_wake
  <2> QED BY <2>1, <2>2 DEF Goto, RingInv, TypeInv, TypeOK
<1>3. Live' = Live /\ Posted' /\ Unsent' /\ Sending'
  <2>1. Live' = Live
    BY <1>1, <1>2, LiveStays DEF Pending
  <2>2. Posted'
    BY <1>1, PostedStays
  <2>3. Sending'
    BY <1>1, <1>2 DEF PacketInv, Sending
  <2>4. Unsent'
    BY <1>1, <1>2, <2>1 DEF PacketInv, Unsent, PaOf, D
  <2> QED BY <2>1, <2>2, <2>3, <2>4
<1>4. D(hw_head) <= D(hw_head)' /\ hw_head' \in Dx
  BY <1>1, DType DEF D
<1> QED BY <1>1, <1>2, <1>3, <1>4, QuietPacket

\* An xmit that begins, is refused, or goes on to the mapping.
LEMMA XmitPacket ==
    ASSUME RingInv, RingInv', PacketInv,
           (\E s \in Skbs, sh \in Shapes : XmitEnter(s, sh)) \/ XmitTest
    PROVE  PacketInv'
<1> USE DEF ring, regs, queue
<1>1. /\ UNCHANGED <<sw_head, sw_tail, hw_head, buff_ring, dx_ring, reg_head, reg_tail, dma>>
      /\ pc["xmit"] # "post" /\ pc'["xmit"] # "post"
  <2>1. CASE XmitTest
    BY <2>1 DEF XmitTest, XmitBusy, Goto, At, RingInv, TypeInv, TypeOK
  <2>2. ASSUME NEW s \in Skbs, NEW sh \in Shapes, XmitEnter(s, sh)
        PROVE  /\ UNCHANGED <<sw_head, sw_tail, hw_head, buff_ring, dx_ring, reg_head, reg_tail,
                               dma>>
               /\ pc["xmit"] # "post" /\ pc'["xmit"] # "post"
    BY <2>2 DEF XmitEnter, Goto, At, RingInv, TypeInv, TypeOK
  <2> QED BY <2>1, <2>2
<1>2. Live' = Live /\ Posted' /\ Unsent'
  BY <1>1, LiveStays, PostedStays DEF Pending, Unsent
<1>3. D(hw_head) <= D(hw_head)' /\ hw_head' \in Dx
  BY <1>1, DType DEF D
<1>4. ASSUME NEW s \in Skbs, skbs[s] # "driver" PROVE \A i \in Live : PaOf(i)[1] # s
  <2>1. \A i \in Live : PaOf(i) = NoPa => PaOf(i)[1] = NoSkb
    BY DType, PaOfType DEF RingInv, TypeInv
  <2> QED BY <1>1, <1>4, <2>1, TxAssumption DEF PacketInv, Forms
<1>5. /\ Sending'
      /\ \A s \in Skbs : skbs'[s] = skbs[s] \/ skbs[s] # "driver"
      /\ \A s \in Skbs : skbs[s] = "lost" => skbs'[s] = "lost"
  <2>1. skbs \in [Skbs -> {"stack", "xmit", "driver", "lost"}] /\ "xmit" \in Threads
        /\ pc \in [Threads -> Labels]
    BY DEF RingInv, TypeInv, TypeOK, Threads
  <2>2. ASSUME NEW s \in Skbs, NEW sh \in Shapes, XmitEnter(s, sh)
        PROVE  /\ Sending'
               /\ \A r \in Skbs : skbs'[r] = skbs[r] \/ skbs[r] # "driver"
               /\ \A r \in Skbs : skbs[r] = "lost" => skbs'[r] = "lost"
    <3>1. /\ pc["xmit"] = "idle" /\ pc'["xmit"] = "update" /\ cur'.skb = s
          /\ skbs[s] = "stack" /\ skbs' = [skbs EXCEPT ![s] = "xmit"]
      BY <2>1, <2>2 DEF XmitEnter, At, Goto
    <3> QED BY <2>1, <3>1 DEF PacketInv, Sending
  <2>3. CASE XmitTest /\ ~stopped
    <3>1. UNCHANGED <<skbs, cur>> /\ pc["xmit"] = "test" /\ pc'["xmit"] = "map"
      BY <2>1, <2>3 DEF XmitTest, At, Goto
    <3> QED BY <3>1 DEF PacketInv, Sending
  <2>4. CASE XmitTest /\ stopped
    <3>1. /\ skbs' = [skbs EXCEPT ![cur.skb] = "stack"] /\ pc["xmit"] = "test"
          /\ pc'["xmit"] = "idle" /\ cur.skb \in Skbs
      BY <2>1, <2>4 DEF XmitTest, XmitBusy, At, Goto, RingInv, TypeInv, XmitHolds
    <3> QED BY <2>1, <3>1 DEF PacketInv, Sending
  <2> QED BY <2>2, <2>3, <2>4
<1> QED BY <1>1, <1>2, <1>3, <1>4, <1>5, QuietPacket

\* hw_ring_tx_xmit and tx_ring_tail_update
LEMMA PostPacket ==
    ASSUME RingInv, RingInv', PacketInv, hw_ring_tx_xmit \/ tx_ring_tail_update
    PROVE  PacketInv'
<1> USE DEF ring, regs, queue
<1>0. /\ UNCHANGED <<sw_head, hw_head, buff_ring, dma, reg_head>> /\ pc["xmit"] = "post"
      /\ cur.skb \in Skbs /\ skbs \in [Skbs -> {"stack", "xmit", "driver", "lost"}]
      /\ pc \in [Threads -> Labels] /\ "xmit" \in Threads /\ cur.frags \in Nat
  BY DEF hw_ring_tx_xmit, tx_ring_tail_update, At, RingInv, TypeInv, TypeOK, XmitHolds, Threads
<1>1. D(hw_head) <= D(hw_head)' /\ hw_head' \in Dx
  BY <1>0, DType DEF D
<1>2. CASE hw_ring_tx_xmit
  <2>1. /\ dx_ring' = [dx_ring EXCEPT ![sw_tail] = PaOf(sw_tail)] /\ cur.frags > 0
        /\ sw_tail' = aq_ring_next_dx(sw_tail) /\ UNCHANGED <<skbs, pc>>
        /\ cur'.skb = cur.skb /\ cur'.frags = cur.frags - 1
        /\ dx_ring \in [Dx -> Pa] /\ sw_tail \in Dx /\ sw_head \in Dx
    BY <1>2 DEF hw_ring_tx_xmit, PaOf, RingInv, TypeInv, TypeOK
  <2>2. D(sw_tail)' = D(sw_tail) + 1
    <3>1. D(sw_tail) + cur.frags <= Size - 1 /\ D(sw_tail) \in Nat
      BY <1>0, <2>1, DType DEF Pending
    <3>2. D(sw_tail) < Size - 1
      BY <1>0, <2>1, <3>1, SizeAssumption
    <3> QED BY <1>0, <2>1, <3>2, DistNextFar DEF D
  <2>3. \A i \in Dx : D(i)' = D(i) /\ PaOf(i)' = PaOf(i)
    BY <1>0 DEF D, PaOf
  <2>4. Live' = Live
    <3>1. D(sw_tail)' + Pending' = D(sw_tail) + Pending
      BY <1>0, <2>1, <2>2, DType DEF Pending
    <3> QED BY <2>3, <3>1 DEF Live
  <2>5. Posted'
    <3> SUFFICES ASSUME NEW i \in Dx, D(reg_head)' <= D(i)', D(i)' < D(sw_tail)'
                 PROVE  dx_ring'[i] = PaOf(i)'
      BY DEF Posted
    <3>1. D(reg_head)' = D(reg_head) /\ D(i) \in Nat /\ D(sw_tail) \in Nat
      BY <1>0, <2>1, DType DEF D
    <3>2. CASE i = sw_tail
      BY <2>1, <2>3, <3>2
    <3>3. CASE i # sw_tail
      <4>1. D(i) # D(sw_tail)
        BY <2>1, <3>3, DType
      <4>2. dx_ring[i] = PaOf(i)
        BY <2>2, <2>3, <3>1, <4>1 DEF PacketInv, Posted
      <4> QED BY <2>1, <2>3, <3>3, <4>2
    <3> QED BY <3>2, <3>3
  <2>6. Sending'
    BY <2>1 DEF PacketInv, Sending
  <2>7. Unsent'
    <3>1. D(reg_tail)' = D(reg_tail)
      BY <1>0, <1>2 DEF hw_ring_tx_xmit, D
    <3> QED BY <1>0, <2>1, <2>3, <2>4, <3>1, DType DEF PacketInv, Unsent
  <2> QED BY <1>0, <1>1, <2>1, <2>4, <2>5, <2>6, <2>7, QuietPacket
<1>3. CASE tx_ring_tail_update
  <2>1. /\ UNCHANGED <<sw_tail, dx_ring>> /\ cur.frags = 0 /\ pc'["xmit"] = "idle"
        /\ skbs' = [skbs EXCEPT ![cur.skb] = "driver"]
    BY <1>0, <1>3 DEF tx_ring_tail_update, Goto
  <2>2. Live' = Live /\ Posted' /\ Unsent'
    BY <1>0, <2>1, LiveStays, PostedStays DEF Pending, Unsent
  <2>3. skbs[cur.skb] = "xmit"
    BY <1>0 DEF PacketInv, Sending
  <2>4. Sending'
    BY <1>0, <2>1 DEF PacketInv, Sending
  <2> QED BY <1>0, <1>1, <2>1, <2>2, <2>3, <2>4, QuietPacket
<1> QED BY <1>2, <1>3

\* The poll's other steps, the device, the link, and a stop.
LEMMA RestPacket ==
    ASSUME RingInv, RingInv', PacketInv,
           \/ hw_ring_tx_head_update \/ CleanReturn \/ HwFetch \/ Link \/ aq_nic_stop
    PROVE  PacketInv'
<1> USE DEF ring, regs, queue
<1>0. /\ UNCHANGED <<sw_head, sw_tail, buff_ring, dma, skbs, cur, reg_tail>>
      /\ pc'["xmit"] = pc["xmit"]
      /\ UNCHANGED <<reg_head, dx_ring>> \/ HwFetch
      /\ UNCHANGED hw_head \/ hw_head' = reg_head
  <2>1. pc \in [Threads -> Labels] /\ "xmit" \in Threads /\ "poll" # "xmit"
    BY DEF RingInv, TypeInv, TypeOK, Threads
  <2>2. CASE hw_ring_tx_head_update \/ CleanReturn
    BY <2>1, <2>2 DEF hw_ring_tx_head_update, CleanReturn, Goto
  <2>3. CASE HwFetch \/ Link \/ aq_nic_stop
    BY <2>1, <2>3 DEF HwFetch, Link, LinkUp, LinkDown, aq_nic_stop, Goto
  <2> QED BY <2>2, <2>3
<1>1. Live' = Live
  BY <1>0, LiveStays DEF Pending
<1>2. D(hw_head) <= D(hw_head)' /\ hw_head' \in Dx
  <2>1. D(hw_head)' = D(hw_head')
    BY <1>0 DEF D
  <2> QED BY <1>0, <2>1, DType
<1>3. Sending' /\ Unsent'
  BY <1>0, <1>1 DEF PacketInv, Sending, Unsent, PaOf, D
<1>4. Posted'
  <2>1. CASE UNCHANGED <<reg_head, dx_ring>>
    BY <1>0, <2>1, PostedStays
  <2>2. CASE HwFetch
    <3>1. /\ dx_ring' = [dx_ring EXCEPT ![reg_head] = NoPa] /\ reg_head # reg_tail
          /\ reg_head' = aq_ring_next_dx(reg_head) /\ dx_ring \in [Dx -> Pa]
      BY <2>2 DEF HwFetch, RingInv, TypeInv, TypeOK
    <3>2. D(reg_head)' = D(reg_head) + 1
      <4>1. D(reg_head) < D(reg_tail) /\ D(reg_tail) <= Size - 1 /\ D(reg_head) \in Nat
        BY <3>1, DType, SizeAssumption
      <4>2. D(reg_head) < Size - 1
        BY <4>1, DType, SizeAssumption
      <4> QED BY <1>0, <3>1, <4>2, DType, DistNextFar DEF D
    <3> SUFFICES ASSUME NEW i \in Dx, D(reg_head)' <= D(i)', D(i)' < D(sw_tail)'
                 PROVE  dx_ring'[i] = PaOf(i)'
      BY DEF Posted
    <3>3. D(i)' = D(i) /\ D(sw_tail)' = D(sw_tail) /\ PaOf(i)' = PaOf(i)
      BY <1>0 DEF D, PaOf
    <3>4. D(i) \in Nat /\ D(reg_head) \in Nat
      BY DType
    <3>5. i # reg_head /\ D(reg_head) <= D(i)
      BY <3>2, <3>3, <3>4
    <3>6. dx_ring[i] = PaOf(i)
      BY <3>3, <3>5 DEF PacketInv, Posted
    <3> QED BY <3>1, <3>3, <3>5, <3>6
  <2> QED BY <1>0, <2>1, <2>2
<1> QED BY <1>0, <1>1, <1>2, <1>3, <1>4, QuietPacket

LEMMA StartPacket ==
    ASSUME RingInv, RingInv', PacketInv, aq_nic_start
    PROVE  PacketInv'
<1>1. /\ sw_head' = 0 /\ sw_tail' = 0 /\ UNCHANGED <<dma, pc, cur>>
      /\ skbs' = [s \in Skbs |-> IF skbs[s] = "driver" THEN "lost" ELSE skbs[s]]
      /\ pc["xmit"] = "idle"
  BY DEF aq_nic_start, RingInv, Places
<1>2. Live' = {}
  BY <1>1, DTypePrime DEF Live, Pending
<1>3. Posted'
  BY <1>1, DTypePrime DEF Posted
<1>4. Sending'
  BY <1>1 DEF PacketInv, Sending
<1>5. Tracked'
  <2> SUFFICES ASSUME NEW p \in dma PROVE p # NoPa /\ skbs'[p[1]] = "lost"
    BY <1>1 DEF Tracked
  <2>1. p # NoPa /\ p[1] \in Skbs
    BY PaIs DEF PacketInv, Tracked, RingInv, TypeInv, TypeOK
  <2>2. CASE skbs[p[1]] = "lost"
    BY <1>1, <2>1, <2>2
  <2>3. CASE skbs[p[1]] # "lost"
    <3>1. PICK i \in Live : PaOf(i) = p
      BY <2>3 DEF PacketInv, Tracked
    <3>2. skbs[p[1]] = "driver"
      BY <1>1, <2>1, <3>1 DEF PacketInv, Forms
    <3> QED BY <1>1, <2>1, <3>2
  <2> QED BY <2>1, <2>2, <2>3
<1> QED BY <1>2, <1>3, <1>4, <1>5 DEF PacketInv, Forms, Distinct, EndsAtEop, EopKnown,
           Contiguous, HeadDone, Unsent

\* The packet whose buffer aq_ring_tx_clean reclaims is completed as a whole.
LEMMA HeadReached ==
    ASSUME RingInv, PacketInv, aq_ring_tx_clean, PaOf(sw_head) # NoPa,
           NEW j \in Live, PaOf(j)[1] = PaOf(sw_head)[1]
    PROVE  D(j) < D(hw_head)
<1>0. /\ sw_head # hw_head /\ ~Unfinished(buff_ring[sw_head])
      /\ sw_head \in Dx /\ hw_head \in Dx /\ j \in Dx
      /\ D(hw_head) \in Nat \ {0} /\ D(j) \in Nat /\ D(sw_head) = 0
  BY DType DEF aq_ring_tx_clean, CleanDone
<1>1. sw_head \in Live
  BY <1>0, DType DEF Live
<1>2. /\ buff_ring[sw_head].mapped /\ (buff_ring[sw_head].sop <=> PaOf(sw_head)[2] = 1)
      /\ PaOf(sw_head)[2] \in Nat \ {0}
  BY <1>0, <1>1, PaOfType DEF PacketInv, Forms, RingInv, TypeInv
<1>3. CASE buff_ring[sw_head].eop
  <2>1. D(j) <= 0
    BY <1>0, <1>1, <1>3 DEF PacketInv, EndsAtEop
  <2> QED BY <1>0, <2>1
<1>4. CASE ~buff_ring[sw_head].eop /\ buff_ring[sw_head].sop
  <2> DEFINE e == buff_ring[sw_head].eop_index
  <2>1. e \in Live /\ buff_ring[e].eop /\ PaOf(e)[1] = PaOf(sw_head)[1]
    BY <1>1, <1>4 DEF PacketInv, EopKnown
  <2>2. e \in Dx /\ e # NoEop
    BY <2>1, DType, SizeAssumption DEF Dx, NoEop
  <2>3. aq_ring_dx_in_range(sw_head, e, hw_head)
    BY <1>0, <1>2, <1>4, <2>2 DEF Unfinished
  <2>4. D(e) < D(hw_head) /\ D(e) \in Nat
    BY <1>0, <2>2, <2>3, InRange, DType DEF D
  <2>5. D(j) <= D(e)
    BY <2>1 DEF PacketInv, EndsAtEop
  <2> QED BY <1>0, <2>4, <2>5
<1>5. CASE ~buff_ring[sw_head].eop /\ ~buff_ring[sw_head].sop
  BY <1>1, <1>2, <1>5 DEF PacketInv, HeadDone
<1> QED BY <1>3, <1>4, <1>5

\* What a round of aq_ring_tx_clean leaves.
LEMMA CleanIs ==
    ASSUME RingInv, RingInv', PacketInv, aq_ring_tx_clean
    PROVE  /\ sw_head \in Live /\ Live' = Live \ {sw_head} /\ D(sw_head) = 0
           /\ \A i \in Dx \ {sw_head} : /\ D(i)' = D(i) - 1 /\ PaOf(i)' = PaOf(i)
                                        /\ buff_ring'[i] = buff_ring[i]
           /\ D(hw_head)' = D(hw_head) - 1 /\ D(reg_head)' = D(reg_head) - 1
           /\ D(sw_tail)' = D(sw_tail) - 1
           /\ sw_head \notin {hw_head, reg_head, sw_tail}
<1>0. /\ sw_head # hw_head /\ sw_head' = aq_ring_next_dx(sw_head)
      /\ UNCHANGED <<sw_tail, hw_head, reg_head, reg_tail, pc, cur>>
      /\ buff_ring' = [buff_ring EXCEPT ![sw_head] = Cleaned(buff_ring[sw_head])]
      /\ buff_ring \in [Dx -> Buffs] /\ sw_head \in Dx
  BY DEF aq_ring_tx_clean, CleanDone, RingInv, TypeInv, TypeOK, regs
<1>1. D(hw_head) > 0 /\ D(reg_head) > 0 /\ D(sw_tail) > 0 /\ D(sw_head) = 0
  BY <1>0, DType
<1>2. sw_head \notin {hw_head, reg_head, sw_tail}
  BY <1>1, DType
<1>3. \A i \in Dx \ {sw_head} : /\ D(i)' = D(i) - 1 /\ PaOf(i)' = PaOf(i)
                               /\ buff_ring'[i] = buff_ring[i]
  BY <1>0, DistNextNear DEF D, PaOf
<1>4. /\ D(hw_head)' = D(hw_head) - 1 /\ D(reg_head)' = D(reg_head) - 1
      /\ D(sw_tail)' = D(sw_tail) - 1
  <2>1. {hw_head, reg_head, sw_tail} \subseteq Dx
    BY DType
  <2>2. \A i \in Dx \ {sw_head} : Dist(sw_head', i) = Dist(sw_head, i) - 1
    BY <1>0, DistNextNear
  <2> QED BY <1>0, <1>2, <2>1, <2>2 DEF D
<1>5. Pending' = Pending
  BY <1>0 DEF Pending
<1>6. sw_head \in Live
  BY <1>0, <1>1, DType DEF Live
<1>8. Dist(sw_head', sw_head) = Size - 1
  BY <1>0, SizeAssumption DEF Dist, Dx, aq_ring_next_dx
<1>9. ASSUME NEW i \in Dx PROVE i \in Live' <=> i \in Live \ {sw_head}
  <2>0. i \in Live' <=> Dist(sw_head', i) < D(sw_tail)' + Pending'
    BY DEF Live, D
  <2>1. CASE i = sw_head
    <3>1. D(sw_tail) + Pending <= Size - 1 /\ D(sw_tail) \in Nat /\ Pending \in Nat
      BY DType
    <3>2. ~(Size - 1 < D(sw_tail) - 1 + Pending)
      BY <3>1, SizeAssumption
    <3> QED BY <1>4, <1>5, <1>8, <2>0, <2>1, <3>2
  <2>2. CASE i # sw_head
    <3>1. Dist(sw_head', i) = D(i) - 1
      BY <1>3, <2>2 DEF D
    <3>2. D(i) \in Nat /\ D(sw_tail) \in Nat /\ Pending \in Nat
      BY DType
    <3> QED BY <1>4, <1>5, <2>0, <2>2, <3>1, <3>2 DEF Live
  <2> QED BY <2>1, <2>2
<1>10. Live' = Live \ {sw_head}
  BY <1>9 DEF Live
<1> QED BY <1>1, <1>2, <1>3, <1>4, <1>6, <1>10

LEMMA CleanData ==
    ASSUME RingInv, RingInv', PacketInv, aq_ring_tx_clean
    PROVE  /\ PaOf(sw_head) = NoPa => dma' = dma /\ skbs' = skbs
           /\ PaOf(sw_head) # NoPa =>
                /\ dma' = dma \ {PaOf(sw_head)} /\ PaOf(sw_head)[1] \in Skbs
                /\ skbs' = IF buff_ring[sw_head].eop
                           THEN [skbs EXCEPT ![PaOf(sw_head)[1]] = "stack"] ELSE skbs
<1>1. sw_head \in Live /\ sw_head \in Dx
  BY CleanIs, DType
<1>2. PaOf(sw_head) # NoPa => PaOf(sw_head)[1] \in Skbs
  BY <1>1, PaOfType DEF RingInv, TypeInv
<1>3. CASE PaOf(sw_head) = NoPa
  BY <1>1, <1>3 DEF PacketInv, Forms, aq_ring_tx_clean
<1>4. CASE PaOf(sw_head) # NoPa
  <2>1. buff_ring[sw_head].mapped
        /\ (buff_ring[sw_head].eop => buff_ring[sw_head].skb = PaOf(sw_head)[1])
    BY <1>1, <1>4 DEF PacketInv, Forms
  <2> QED BY <1>2, <1>4, <2>1 DEF aq_ring_tx_clean, PaOf
<1> QED BY <1>3, <1>4

LEMMA CleanPacket ==
    ASSUME RingInv, RingInv', PacketInv, aq_ring_tx_clean
    PROVE  PacketInv'
<1>1. /\ sw_head \in Live /\ Live' = Live \ {sw_head} /\ D(sw_head) = 0
      /\ \A i \in Live' : /\ D(i)' = D(i) - 1 /\ PaOf(i)' = PaOf(i) /\ D(i) \in Nat
                          /\ buff_ring'[i] = buff_ring[i] /\ i \in Live /\ i # sw_head
  BY CleanIs, DType
<1>2. UNCHANGED <<pc, cur, hw_head, sw_tail, dx_ring, reg_head>> /\ TypeOK
  BY DEF aq_ring_tx_clean, regs, RingInv, TypeInv
<1>3. \A i \in Live : PaOf(i) = NoPa \/ (PaOf(i)[1] \in Skbs /\ PaOf(i)[2] \in Nat \ {0})
  BY <1>2, DType, PaOfType
<1>4. \A i \in Live : PaOf(i) = NoPa => PaOf(i)[1] = NoSkb /\ PaOf(i)[2] = 0
  BY <1>2, DType, PaOfType
<1>5. ASSUME NEW s \in Skbs, skbs'[s] # skbs[s]
      PROVE  /\ \A i \in Live' : PaOf(i)[1] # s
             /\ PaOf(sw_head) # NoPa /\ PaOf(sw_head)[1] = s
             /\ skbs'[s] = "stack" /\ buff_ring[sw_head].eop
  <2>1. PaOf(sw_head) # NoPa /\ PaOf(sw_head)[1] = s /\ buff_ring[sw_head].eop
        /\ skbs'[s] = "stack"
    BY <1>2, <1>5, CleanData DEF TypeOK
  <2>2. ASSUME NEW i \in Live', PaOf(i)[1] = s PROVE FALSE
    <3>1. D(i) <= D(sw_head)
      BY <1>1, <2>1, <2>2 DEF PacketInv, EndsAtEop
    <3> QED BY <1>1, <3>1, DType
  <2> QED BY <2>1, <2>2
<1>0. PaOf(sw_head) # NoPa => skbs[PaOf(sw_head)[1]] = "driver"
  <2>1. D(reg_tail) > D(sw_head)
    BY <1>1, CleanIs, DType
  <2> QED BY <1>1, <2>1, DType DEF PacketInv, Forms, Unsent
<1>6. Forms'
  <2> SUFFICES ASSUME NEW i \in Live'
        PROVE  \/ PaOf(i) = NoPa /\ ~buff_ring[i].mapped /\ ~buff_ring[i].eop
               \/ /\ PaOf(i) # NoPa /\ buff_ring[i].mapped /\ PaOf(i) \in dma'
                  /\ buff_ring[i].sop <=> PaOf(i)[2] = 1
                  /\ buff_ring[i].eop => buff_ring[i].skb = PaOf(i)[1]
                  /\ \/ skbs'[PaOf(i)[1]] = "driver"
                     \/ pc'["xmit"] = "post" /\ PaOf(i)[1] = cur'.skb
    BY <1>1 DEF Forms
  <2>1. CASE PaOf(i) = NoPa
    BY <1>1, <2>1 DEF PacketInv, Forms
  <2>2. CASE PaOf(i) # NoPa
    <3>1. PaOf(i) # PaOf(sw_head)
      BY <1>1, <2>2 DEF PacketInv, Distinct
    <3>2. PaOf(i) \in dma'
      BY <1>1, <2>2, <3>1, CleanData DEF PacketInv, Forms
    <3>3. PaOf(i)[1] \in Skbs /\ skbs'[PaOf(i)[1]] = skbs[PaOf(i)[1]]
      BY <1>1, <1>3, <1>5, <2>2
    <3> QED BY <1>1, <1>2, <2>2, <3>2, <3>3 DEF PacketInv, Forms
  <2> QED BY <2>1, <2>2
<1>7. Distinct'
  BY <1>1 DEF PacketInv, Distinct
<1>8. EndsAtEop'
  BY <1>1 DEF PacketInv, EndsAtEop
<1>9. EopKnown'
  <2> SUFFICES ASSUME NEW i \in Live', PaOf(i) # NoPa, buff_ring[i].sop, ~buff_ring[i].eop
               PROVE  /\ buff_ring[i].eop_index \in Live'
                      /\ buff_ring'[buff_ring[i].eop_index].eop
                      /\ PaOf(buff_ring[i].eop_index)'[1] = PaOf(i)[1]
    BY <1>1 DEF EopKnown, PaOf
  <2> DEFINE e == buff_ring[i].eop_index
  <2>1. e \in Live /\ buff_ring[e].eop /\ PaOf(e)[1] = PaOf(i)[1]
    BY <1>1 DEF PacketInv, EopKnown
  <2>2. D(i) <= D(e)
    BY <1>1, <2>1 DEF PacketInv, EndsAtEop
  <2>3. D(i) # 0
    BY <1>1, DType
  <2>4. e # sw_head
    BY <1>1, <2>2, <2>3
  <2>5. e \in Live'
    BY <1>1, <2>1, <2>4
  <2>6. PaOf(e)' = PaOf(e) /\ buff_ring'[e] = buff_ring[e]
    BY <1>1, <2>5
  <2>7. PaOf(buff_ring[i].eop_index)' = buff_ring'[buff_ring'[i].eop_index].pa
    BY DEF PaOf
  <2>8. buff_ring'[e].pa[1] = PaOf(i)[1]
    BY <2>1, <2>6 DEF PaOf
  <2> QED BY <1>1, <2>1, <2>5, <2>6, <2>7, <2>8
<1>10. sw_head' \in Dx /\ D(sw_head)' = 0
  BY DTypePrime DEF D
<1>11. Contiguous'
  <2> SUFFICES ASSUME NEW i \in Live', i # sw_head', PaOf(i)[2] > 1
               PROVE  \E j \in Live' : D(j)' + 1 = D(i)' /\ PaOf(j)[1] = PaOf(i)[1]
    BY <1>1 DEF Contiguous
  <2>1. PICK j \in Live : D(j) + 1 = D(i) /\ PaOf(j)[1] = PaOf(i)[1]
    BY <1>1 DEF PacketInv, Contiguous
  <2>2. D(i)' # 0 /\ D(i)' = D(i) - 1 /\ D(i) \in Nat
    BY <1>1, DType, DTypePrime
  <2>3. j # sw_head
    BY <1>1, <2>1, <2>2
  <2> QED BY <1>1, <2>1, <2>2, <2>3
<1>12. HeadDone'
  <2> SUFFICES ASSUME sw_head' \in Live', PaOf(sw_head)'[2] > 1,
                      NEW j \in Live', PaOf(j)'[1] = PaOf(sw_head)'[1]
               PROVE  D(j)' < D(hw_head)'
    BY DEF HeadDone
  <2>1. PICK h \in Live' : h = sw_head'
    OBVIOUS
  <2>2. PaOf(sw_head)' = PaOf(h)
    BY <1>1, <2>1 DEF PaOf
  <2>3. D(h)' = 0 /\ D(h) = 1
    <3>1. D(h)' = 0
      BY <2>1, DType, DTypePrime, <1>1
    <3> QED BY <1>1, <3>1
  <2>4. PICK k \in Live : D(k) + 1 = D(h) /\ PaOf(k)[1] = PaOf(h)[1]
    BY <1>1, <2>2 DEF PacketInv, Contiguous
  <2>5. k = sw_head
    <3>1. D(k) = 0 /\ k \in Dx
      BY <2>3, <2>4, DType
    <3> QED BY <3>1, DType
  <2>6. PaOf(sw_head) # NoPa
    <3>1. PaOf(h)[1] \in Skbs
      BY <1>1, <1>3, <1>4, <2>2
    <3> QED BY <1>1, <1>4, <2>4, <2>5, <3>1, TxAssumption
  <2>7. PaOf(j)' = PaOf(j) /\ j \in Live
    BY <1>1
  <2>8. D(j) < D(hw_head)
    BY <2>2, <2>4, <2>5, <2>6, <2>7, HeadReached
  <2> QED BY <1>1, <2>8, CleanIs, DType
<1>13. Tracked'
  <2> SUFFICES ASSUME NEW p \in dma'
               PROVE  p # NoPa /\ (skbs'[p[1]] = "lost" \/ \E i \in Live' : PaOf(i)' = p)
    BY DEF Tracked
  <2>1. p \in dma /\ p # NoPa /\ p # PaOf(sw_head)
    BY CleanData DEF PacketInv, Tracked
  <2>2. p[1] \in Skbs
    BY <1>2, <2>1, PaIs DEF TypeOK
  <2>3. CASE \E i \in Live : PaOf(i) = p
    BY <1>1, <2>1, <2>3
  <2>4. CASE skbs[p[1]] = "lost"
    <3>1. skbs'[p[1]] # "lost" => PaOf(sw_head) # NoPa /\ PaOf(sw_head)[1] = p[1]
      BY <1>5, <2>2, <2>4
    <3> QED BY <1>0, <2>1, <2>4, <3>1
  <2> QED BY <2>1, <2>3, <2>4 DEF PacketInv, Tracked
<1>14. Posted'
  <2> SUFFICES ASSUME NEW i \in Dx, D(reg_head)' <= D(i)', D(i)' < D(sw_tail)'
               PROVE  dx_ring'[i] = PaOf(i)'
    BY DEF Posted
  <2>1. i # sw_head
    <3>1. i \in Live'
      BY DTypePrime DEF Live
    <3> QED BY <1>1, <3>1
  <2>2. D(i)' = D(i) - 1 /\ PaOf(i)' = PaOf(i) /\ D(i) \in Nat
    BY <2>1, CleanIs, DType
  <2>3. D(reg_head) <= D(i) /\ D(i) < D(sw_tail)
    BY <2>2, CleanIs, DType
  <2> QED BY <1>2, <2>2, <2>3 DEF PacketInv, Posted
<1>15. Sending'
  <2> SUFFICES ASSUME NEW s \in Skbs PROVE skbs'[s] = "xmit" <=> skbs[s] = "xmit"
    BY <1>2 DEF PacketInv, Sending
  <2>1. CASE skbs'[s] = skbs[s]
    BY <2>1
  <2>2. CASE skbs'[s] # skbs[s]
    <3>1. PaOf(sw_head) # NoPa /\ PaOf(sw_head)[1] = s /\ skbs'[s] = "stack"
      BY <1>5, <2>2
    <3> QED BY <1>0, <2>2, <3>1
  <2> QED BY <2>1, <2>2
<1>16. Unsent'
  <2> SUFFICES ASSUME pc["xmit"] = "post", NEW i \in Live', PaOf(i)[1] = cur.skb
               PROVE  D(reg_tail)' <= D(i)'
    BY <1>1, <1>2 DEF Unsent
  <2>1. D(reg_tail) <= D(i)
    BY <1>1 DEF PacketInv, Unsent
  <2>2. D(reg_tail)' = D(reg_tail) - 1
    <3>1. reg_tail \in Dx \ {sw_head} /\ reg_tail' = reg_tail
      BY <1>1, CleanIs, DType DEF aq_ring_tx_clean, regs
    <3> QED BY <3>1, CleanIs DEF D
  <2> QED BY <1>1, <2>1, <2>2, DType
<1> QED BY <1>16, <1>6, <1>7, <1>8, <1>9, <1>11, <1>12, <1>13, <1>14, <1>15 DEF PacketInv

Ctx(sh) == IF sh.ctx THEN 1 ELSE 0
Last(sh) == Adv(sw_tail, Ctx(sh) + sh.data - 1)
\* The piece that goes to slot i.
Piece(sh, i) == D(i) - D(sw_tail) - Ctx(sh) + 1

\* What a run of aq_nic_map_skb leaves: it writes free slots only, and those it
\* counts are the context's or hold the pieces in order.
LEMMA MapIs ==
    ASSUME RingInv, PacketInv, NEW fail \in FailAt \cup {0}, aq_nic_map_skb(fail)
    PROVE  LET sh == cur.shape
               n == MapCount(sh, fail)
           IN
           /\ cur.skb \in Skbs /\ Ctx(sh) \in 0 .. 1 /\ sh.data \in Nat \ {0} /\ n \in Nat
           /\ D(sw_tail) \in Nat /\ D(sw_tail) + Ctx(sh) + sh.data < Size
           /\ n # 0 /\ fail # 0 => n = Ctx(sh)
           /\ fail = 0 => n = Ctx(sh) + sh.data
           /\ \A i \in Dx : D(i) < D(sw_tail) => buff_ring'[i] = buff_ring[i]
           /\ \A i \in Dx : D(i) >= D(sw_tail) /\ D(i) < D(sw_tail) + n =>
                 buff_ring'[i] = IF Piece(sh, i) < 1 THEN BareBuff(TRUE)
                                 ELSE DataBuff(cur.skb, sh, Piece(sh, i), Last(sh))
           /\ Last(sh) \in Dx /\ D(Last(sh)) = D(sw_tail) + Ctx(sh) + sh.data - 1
<1> DEFINE sh == cur.shape
           n == MapCount(sh, fail)
           c == Ctx(sh)
           T == D(sw_tail)
           good == IF fail = 0 THEN sh.data ELSE fail - 1
<1>1. pc["xmit"] = "map" /\ fail <= sh.data /\ buff_ring' = Mapped(cur.skb, sh, good)
      /\ fail \in Nat
  <2>1. fail \in Nat
    BY TxAssumption
  <2>2. pc["xmit"] = "map" /\ fail <= sh.data
    BY Zenon DEF aq_nic_map_skb, At
  <2>3. buff_ring' = Mapped(cur.skb, sh, good)
    BY Zenon DEF aq_nic_map_skb
  <2> QED BY <2>1, <2>2, <2>3
<1>2. cur.skb \in Skbs /\ sh \in Shapes /\ sh.frags <= FragsMax
  BY <1>1 DEF RingInv, TypeInv, XmitHolds
<1>3. /\ c \in 0 .. 1 /\ sh.data \in Nat \ {0} /\ Descs(sh) = c + sh.data
      /\ c + sh.data <= FragsMax + 1 /\ (sh.ctx <=> c = 1)
  BY <1>2, TxAssumption DEF Ctx, Descs
<1>4. T \in Nat /\ T + c + sh.data < Size /\ sw_head \in Dx /\ sw_tail \in Dx
  <2>1. Avail = Size - 1 - T /\ Avail > FragsMax /\ T \in Nat
    BY <1>1, AvailIs, DType DEF RingInv, TypeInv, Room, D
  <2> QED BY <1>3, <2>1, DType, TxAssumption, SizeAssumption
<1>5. /\ n \in Nat /\ (fail = 0 => n = c + sh.data) /\ (n # 0 /\ fail # 0 => n = c)
      /\ (n # 0 /\ fail # 0 => fail = 1)
  BY <1>1, <1>3 DEF MapCount
<1>6. Last(sh) \in Dx /\ D(Last(sh)) = T + c + sh.data - 1
  <2>1. c + sh.data - 1 \in Nat /\ T + (c + sh.data - 1) < Size
    BY <1>3, <1>4, SizeAssumption
  <2>2. Last(sh) \in Dx /\ D(Last(sh)) = T + (c + sh.data - 1)
    BY <1>4, <2>1, AdvDist DEF Last, D
  <2> QED BY <1>3, <1>4, <2>2
<1>7. ASSUME NEW i \in Dx
      PROVE  buff_ring'[i] =
               IF Dist(sw_tail, i) < c THEN BareBuff(TRUE)
               ELSE IF Dist(sw_tail, i) < c + good
                    THEN DataBuff(cur.skb, sh, Dist(sw_tail, i) - c + 1, Last(sh))
               ELSE IF Dist(sw_tail, i) = c /\ good = 0 THEN BareBuff(FALSE)
               ELSE buff_ring[i]
  BY <1>1, Zenon DEF Mapped, Last, Ctx
<1>8. good \in Nat /\ good <= sh.data
  BY <1>1, <1>3
<1>9. \A i \in Dx : Dist(sw_tail, i) = IF D(i) >= T THEN D(i) - T ELSE D(i) - T + Size
  BY <1>4, FromTail DEF D
<1>10. ASSUME NEW i \in Dx, D(i) < T PROVE buff_ring'[i] = buff_ring[i]
  <2>1. D(i) \in Nat
    BY DType
  <2>2. Dist(sw_tail, i) = D(i) - T + Size
    BY <1>4, <1>9, <1>10, <2>1
  <2>3. Dist(sw_tail, i) > c + sh.data
    BY <1>3, <1>4, <2>1, <2>2, SizeAssumption
  <2>4. ~(Dist(sw_tail, i) < c) /\ ~(Dist(sw_tail, i) < c + good) /\ Dist(sw_tail, i) # c
    BY <1>3, <1>4, <1>8, <2>1, <2>2, <2>3, SizeAssumption
  <2> QED BY <1>7, <2>4
<1>11. ASSUME NEW i \in Dx, D(i) >= T, D(i) < T + n
       PROVE  buff_ring'[i] = IF Piece(sh, i) < 1 THEN BareBuff(TRUE)
                              ELSE DataBuff(cur.skb, sh, Piece(sh, i), Last(sh))
  <2>1. D(i) \in Nat
    BY DType
  <2>2. Dist(sw_tail, i) = D(i) - T /\ Piece(sh, i) = D(i) - T - c + 1
    BY <1>9, <1>11 DEF Piece
  <2>3. CASE Piece(sh, i) < 1
    <3>1. Dist(sw_tail, i) < c
      BY <1>3, <1>4, <2>1, <2>2, <2>3
    <3> QED BY <1>7, <2>3, <3>1
  <2>4. CASE ~(Piece(sh, i) < 1)
    <3>1. ~(Dist(sw_tail, i) < c) /\ Dist(sw_tail, i) - c + 1 = Piece(sh, i)
      BY <1>3, <1>4, <2>1, <2>2, <2>4
    <3>2. fail = 0 /\ n = c + sh.data
      BY <1>3, <1>4, <1>5, <1>11, <2>1, <2>2, <2>4
    <3>3. Dist(sw_tail, i) < c + good
      BY <1>3, <1>4, <1>11, <2>1, <2>2, <3>2
    <3> HIDE DEF good
    <3> QED BY <1>7, <2>4, <3>1, <3>3
  <2> QED BY <2>3, <2>4
<1> QED BY <1>2, <1>3, <1>4, <1>5, <1>6, <1>10, <1>11

\* While the skb is only about to be mapped no live slot is of it.
LEMMA NotYet ==
    ASSUME RingInv, PacketInv, pc["xmit"] = "map", NEW i \in Live
    PROVE  PaOf(i)[1] # cur.skb
<1>1. cur.skb \in Skbs
  BY DEF RingInv, TypeInv, XmitHolds
<1>2. skbs[cur.skb] = "xmit"
  BY <1>1 DEF PacketInv, Sending
<1>3. PaOf(i) = NoPa => PaOf(i)[1] = NoSkb
  BY DType, PaOfType DEF RingInv, TypeInv
<1> QED BY <1>1, <1>2, <1>3, TxAssumption DEF PacketInv, Forms

LEMMA MapPacket ==
    ASSUME RingInv, RingInv', PacketInv, NEW fail \in FailAt \cup {0}, aq_nic_map_skb(fail)
    PROVE  PacketInv'
<1> DEFINE s == cur.skb
           sh == cur.shape
           n == MapCount(sh, fail)
           T == D(sw_tail)
           c == Ctx(sh)
           New == Live' \ Live
           K(i) == Piece(sh, i)
<1>0. /\ pc["xmit"] = "map" /\ UNCHANGED <<sw_head, sw_tail, hw_head, reg_head, reg_tail, dx_ring>>
      /\ dma' = IF fail = 0 THEN dma \cup Pieces(s, sh) ELSE dma
  BY DEF aq_nic_map_skb, At, ring, regs
<1>1. /\ s \in Skbs /\ c \in 0 .. 1 /\ sh.data \in Nat \ {0} /\ n \in Nat
      /\ T \in Nat /\ T + c + sh.data < Size
      /\ (n # 0 /\ fail # 0 => n = c) /\ (fail = 0 => n = c + sh.data)
  BY MapIs
<1>2. \A i \in Dx : T <= D(i) /\ D(i) < T + n =>
          buff_ring'[i] = IF K(i) < 1 THEN BareBuff(TRUE)
                          ELSE DataBuff(s, sh, K(i), Last(sh))
  <2>1. \A i \in Dx : D(i) >= T /\ D(i) < T + n =>
            buff_ring'[i] = IF K(i) < 1 THEN BareBuff(TRUE)
                            ELSE DataBuff(s, sh, K(i), Last(sh))
    BY MapIs, Zenon
  <2>2. \A i \in Dx : D(i) \in Nat
    BY DType
  <2> HIDE DEF T, n, K, s, sh
  <2> QED BY <1>1, <2>1, <2>2
<1>3. Last(sh) \in Dx /\ D(Last(sh)) = T + c + sh.data - 1
  BY MapIs
<1>4. Live = {i \in Dx : D(i) < T} /\ \A i \in Dx : D(i)' = D(i)
  BY <1>0, DType DEF Live, Pending, D
<1>5. \A i \in Live : /\ buff_ring'[i] = buff_ring[i] /\ PaOf(i)' = PaOf(i)
                      /\ PaOf(i)[1] # s
  BY <1>0, <1>1, <1>4, MapIs, NotYet DEF PaOf
<1>6. Posted'
  <2> SUFFICES ASSUME NEW i \in Dx, D(reg_head)' <= D(i)', D(i)' < D(sw_tail)'
               PROVE  dx_ring'[i] = PaOf(i)'
    BY DEF Posted
  <2>1. D(reg_head)' = D(reg_head) /\ D(sw_tail)' = T /\ D(i)' = D(i)
    BY <1>0, <1>4 DEF D
  <2> QED BY <1>0, <1>4, <1>5, <2>1 DEF PacketInv, Posted
<1>7. CASE n = 0
  <2>1. XmitBusy /\ dma' = dma
    BY <1>0, <1>1, <1>7 DEF aq_nic_map_skb
  <2>2. /\ skbs' = [skbs EXCEPT ![s] = "stack"] /\ pc'["xmit"] = "idle"
        /\ skbs \in [Skbs -> {"stack", "xmit", "driver", "lost"}]
    BY <2>1 DEF XmitBusy, Goto, RingInv, TypeInv, TypeOK, Threads
  <2>3. Live' = Live
    BY <1>0, <2>2, LiveStays DEF Pending
  <2>4. skbs[s] = "xmit"
    BY <1>0, <1>1 DEF PacketInv, Sending
  <2>5. Sending' /\ Unsent'
    BY <1>0, <1>1, <2>2 DEF PacketInv, Sending, Unsent
  <2>6. D(hw_head) <= D(hw_head)' /\ hw_head' \in Dx
    BY <1>0, DType DEF D
  <2> HIDE DEF s, sh, n, T, c
  <2>7. \A r \in Skbs : skbs'[r] = skbs[r] \/ \A i \in Live : PaOf(i)[1] # r
    BY <1>5, <2>2
  <2>8. \A r \in Skbs : skbs[r] = "lost" => skbs'[r] = "lost"
    BY <2>2, <2>4
  <2> QED BY <1>0, <1>5, <1>6, <2>1, <2>3, <2>5, <2>6, <2>7, <2>8, QuietPacket
<1>8. CASE n # 0
  <2>0. UNCHANGED skbs /\ pc'["xmit"] = "post" /\ cur'.skb = s /\ cur'.frags = n
    BY <1>8 DEF aq_nic_map_skb, Goto, RingInv, TypeInv, TypeOK, Threads
  <2>1. Live' = {i \in Dx : D(i) < T + n}
    BY <1>0, <1>4, <2>0 DEF Live, Pending, D
  <2>2. New = {i \in Dx : T <= D(i) /\ D(i) < T + n} /\ Live \subseteq Live'
    BY <1>1, <1>4, <2>1, DType
  <2>3. \A i \in Dx : D(i) \in Nat /\ K(i) = D(i) - T - c + 1 /\ K(i) \in Int
    BY <1>1, DType DEF Piece
  <2>4. fail # 0 => \A i \in New : K(i) < 1
    BY <1>1, <1>8, <2>2, <2>3
  <2>5. \A i \in New : K(i) <= sh.data
    BY <1>1, <1>8, <2>2, <2>3
  <2>6. fail = 0 => \A k \in 1 .. sh.data : \E i \in New : K(i) = k
    <3> SUFFICES ASSUME fail = 0, NEW k \in 1 .. sh.data PROVE \E i \in New : K(i) = k
      OBVIOUS
    <3>1. c + k - 1 \in Nat /\ T + (c + k - 1) < Size /\ sw_head \in Dx /\ sw_tail \in Dx
      BY <1>1, DType, SizeAssumption
    <3>2. PICK i \in Dx : D(i) = T + (c + k - 1)
      BY <3>1, AdvDist DEF D
    <3>3. i \in New /\ K(i) = k
      BY <1>1, <2>2, <2>3, <3>2
    <3> QED BY <3>3
  <2>7. \A i \in New : K(i) < 1 => /\ PaOf(i)' = NoPa /\ ~buff_ring'[i].mapped
                                  /\ ~buff_ring'[i].eop /\ ~buff_ring'[i].sop
    BY <1>2, <2>2 DEF BareBuff, PaOf
  <2>8. \A i \in New : ~(K(i) < 1) =>
            /\ PaOf(i)' = <<s, K(i)>> /\ buff_ring'[i].mapped /\ fail = 0
            /\ buff_ring'[i].sop <=> K(i) = 1
            /\ buff_ring'[i].eop <=> K(i) = sh.data
            /\ buff_ring'[i].eop => buff_ring'[i].skb = s
            /\ K(i) = 1 => buff_ring'[i].eop_index = Last(sh)
            /\ K(i) \in 1 .. sh.data
    <3> SUFFICES ASSUME NEW i \in New, ~(K(i) < 1)
                 PROVE  /\ PaOf(i)' = <<s, K(i)>> /\ buff_ring'[i].mapped /\ fail = 0
                        /\ buff_ring'[i].sop <=> K(i) = 1
                        /\ buff_ring'[i].eop <=> K(i) = sh.data
                        /\ buff_ring'[i].eop => buff_ring'[i].skb = s
                        /\ K(i) = 1 => buff_ring'[i].eop_index = Last(sh)
                        /\ K(i) \in 1 .. sh.data
      BY Zenon
    <3>1. i \in Dx /\ buff_ring'[i] = DataBuff(s, sh, K(i), Last(sh))
      BY <1>2, <2>2
    <3>2. fail = 0 /\ K(i) \in 1 .. sh.data
      BY <1>1, <2>3, <2>4, <2>5, <3>1
    <3> HIDE DEF s, sh, n, T, c, New, K
    <3>3. buff_ring'[i] = [sop |-> K(i) = 1, eop |-> K(i) = sh.data, mapped |-> TRUE,
                           ctx |-> FALSE, pa |-> <<s, K(i)>>,
                           eop_index |-> IF K(i) = 1 THEN Last(sh) ELSE NoEop,
                           skb |-> IF K(i) = sh.data THEN s ELSE NoSkb]
      BY <3>1, Zenon DEF DataBuff
    <3>4. /\ buff_ring'[i].sop = (K(i) = 1) /\ buff_ring'[i].eop = (K(i) = sh.data)
          /\ buff_ring'[i].mapped = TRUE /\ buff_ring'[i].pa = <<s, K(i)>>
          /\ buff_ring'[i].eop_index = IF K(i) = 1 THEN Last(sh) ELSE NoEop
          /\ buff_ring'[i].skb = IF K(i) = sh.data THEN s ELSE NoSkb
      BY <3>3
    <3>5. PaOf(i)' = buff_ring'[i].pa
      BY DEF PaOf
    <3> QED BY <3>2, <3>4, <3>5, Zenon
  <2>9. NoPa[1] = NoSkb /\ NoPa[2] = 0 /\ s # NoSkb /\ \A k : <<s, k>> # NoPa
    BY <1>1, TxAssumption DEF NoPa
  <2>10. \A i \in Live : PaOf(i) = NoPa \/ PaOf(i)[1] \in Skbs
    BY <1>4, PaOfType DEF RingInv, TypeInv
  <2>11. \A i \in New : PaOf(i)'[1] \in {s, NoSkb}
    BY <2>7, <2>8, <2>9
  <2>12. \A i \in Live' : i \in Live \/ i \in New
    OBVIOUS
  <2>13. \A i \in Live, j \in New : PaOf(i) # NoPa => PaOf(j)'[1] # PaOf(i)[1]
    BY <1>5, <2>10, <2>11, TxAssumption
  <2>14. \A i \in Dx : D(i)' = D(i)
    BY <1>4
  <2>15. fail = 0 => Last(sh) \in New /\ K(Last(sh)) = sh.data
    BY <1>1, <1>3, <1>8, <2>2, <2>3
  <2>16. \A i \in New : i \in Dx /\ T <= D(i) /\ i \in Live'
    BY <2>2
  <2>17. \A i \in Live : i \in Dx /\ D(i) < T /\ i \in Live'
    BY <1>4, <2>2
  <2>18. \A i, j \in Dx : K(i) <= K(j) => D(i) <= D(j)
    BY <1>1, <2>3
  <2>19. \A i, j \in Dx : K(i) = K(j) => i = j
    BY <1>1, <2>3, DType
  <2>20. \A p \in Pieces(s, sh) : \E k \in 1 .. sh.data : p = <<s, k>>
    BY DEF Pieces
  <2>21. \A i \in New : ~(K(i) < 1) => PaOf(i)' \in dma'
    BY <1>0, <2>8 DEF Pieces
  <2>22. dma \subseteq dma' /\ \A p \in dma' \ dma : fail = 0 /\ p \in Pieces(s, sh)
    BY <1>0
  <2>23. \A i, j \in Dx : K(j) = K(i) - 1 => D(j) + 1 = D(i)
    BY <1>1, <2>3
  <2>24. K(sw_head) <= 1 \/ sw_head \in Live
    BY <1>1, <1>4, <2>3, DType
  <2> HIDE DEF s, sh, n, T, c, New, K
  <2>30. Forms'
    <3> SUFFICES ASSUME NEW i \in Live'
          PROVE  \/ PaOf(i)' = NoPa /\ ~buff_ring'[i].mapped /\ ~buff_ring'[i].eop
                 \/ /\ PaOf(i)' # NoPa /\ buff_ring'[i].mapped /\ PaOf(i)' \in dma'
                    /\ buff_ring'[i].sop <=> PaOf(i)'[2] = 1
                    /\ buff_ring'[i].eop => buff_ring'[i].skb = PaOf(i)'[1]
                    /\ \/ skbs'[PaOf(i)'[1]] = "driver"
                       \/ pc'["xmit"] = "post" /\ PaOf(i)'[1] = cur'.skb
      BY DEF Forms
    <3>1. CASE i \in Live
      BY <1>0, <1>5, <2>0, <2>22, <3>1 DEF PacketInv, Forms
    <3>2. CASE i \in New /\ K(i) < 1
      BY <2>7, <3>2
    <3>3. CASE i \in New /\ ~(K(i) < 1)
      BY <2>0, <2>8, <2>9, <2>21, <3>3
    <3> QED BY <2>12, <3>1, <3>2, <3>3
  <2>31. Distinct'
    <3> SUFFICES ASSUME NEW i \in Live', NEW j \in Live', PaOf(i)' = PaOf(j)', PaOf(i)' # NoPa
                 PROVE  i = j
      BY DEF Distinct
    <3>1. CASE i \in Live /\ j \in Live
      BY <1>5, <3>1 DEF PacketInv, Distinct
    <3>2. CASE i \in New /\ j \in New
      BY <2>7, <2>8, <2>16, <2>19, <3>2
    <3>3. CASE i \in Live /\ j \in New
      BY <1>5, <2>13, <3>3
    <3>4. CASE i \in New /\ j \in Live
      BY <1>5, <2>13, <3>4
    <3> QED BY <2>12, <3>1, <3>2, <3>3, <3>4
  <2>32. EndsAtEop'
    <3> SUFFICES ASSUME NEW i \in Live', NEW j \in Live', buff_ring'[i].eop,
                        PaOf(j)'[1] = PaOf(i)'[1]
                 PROVE  D(j) <= D(i)
      BY <2>14, <2>16, <2>17, <2>12 DEF EndsAtEop
    <3>1. CASE i \in Live /\ j \in Live
      BY <1>5, <3>1 DEF PacketInv, EndsAtEop
    <3>2. CASE i \in New
      <4>1. ~(K(i) < 1) /\ K(i) = sh.data /\ PaOf(i)'[1] = s
        BY <2>7, <2>8, <3>2
      <4>2. j \in New
        BY <1>5, <2>12, <4>1
      <4>3. K(j) <= K(i)
        BY <2>5, <4>1, <4>2
      <4> QED BY <2>16, <2>18, <3>2, <4>2, <4>3
    <3>3. CASE i \in Live /\ j \in New
      <4>1. PaOf(i) # NoPa
        BY <1>5, <3>3 DEF PacketInv, Forms
      <4> QED BY <1>5, <2>13, <3>3, <4>1
    <3> QED BY <2>12, <3>1, <3>2, <3>3
  <2>33. EopKnown'
    <3> SUFFICES ASSUME NEW i \in Live', PaOf(i)' # NoPa, buff_ring'[i].sop, ~buff_ring'[i].eop
                 PROVE  LET e == buff_ring'[i].eop_index
                        IN  e \in Live' /\ buff_ring'[e].eop /\ buff_ring'[e].pa[1] = PaOf(i)'[1]
      BY DEF EopKnown, PaOf
    <3>1. CASE i \in Live
      <4>1. PICK e \in Live : /\ e = buff_ring[i].eop_index /\ buff_ring[e].eop
                             /\ PaOf(e)[1] = PaOf(i)[1]
        BY <1>5, <3>1 DEF PacketInv, EopKnown
      <4> QED BY <1>5, <2>17, <3>1, <4>1 DEF PaOf
    <3>2. CASE i \in New
      <4>1. buff_ring'[i].eop_index = Last(sh) /\ fail = 0 /\ PaOf(i)'[1] = s
        BY <2>7, <2>8, <3>2
      <4>2. Last(sh) \in New /\ K(Last(sh)) = sh.data
        BY <2>15, <4>1
      <4>3. ~(K(Last(sh)) < 1)
        BY <1>1, <4>2
      <4>4. buff_ring'[Last(sh)].eop /\ buff_ring'[Last(sh)].pa[1] = s
        <5>1. PICK e \in New : e = Last(sh) /\ ~(K(e) < 1) /\ K(e) = sh.data
          BY <4>2, <4>3
        <5>2. buff_ring'[e].eop /\ buff_ring'[e].pa = <<s, K(e)>>
          BY <2>8, <5>1 DEF PaOf
        <5> QED BY <5>1, <5>2
      <4> QED BY <2>16, <4>1, <4>2, <4>4
    <3> QED BY <2>12, <3>1, <3>2
  <2>34. Contiguous'
    <3> SUFFICES ASSUME NEW i \in Live', i # sw_head, PaOf(i)'[2] > 1
                 PROVE  \E j \in Live' : D(j) + 1 = D(i) /\ PaOf(j)'[1] = PaOf(i)'[1]
      BY <1>0, <2>14, <2>16, <2>17, <2>12 DEF Contiguous
    <3>1. CASE i \in Live
      <4>1. PICK j \in Live : D(j) + 1 = D(i) /\ PaOf(j)[1] = PaOf(i)[1]
        BY <1>5, <3>1 DEF PacketInv, Contiguous
      <4> QED BY <1>5, <2>17, <3>1, <4>1
    <3>2. CASE i \in New
      <4>1. fail = 0 /\ K(i) - 1 \in 1 .. sh.data /\ PaOf(i)'[1] = s
        BY <1>1, <2>7, <2>8, <2>9, <3>2
      <4>2. PICK j \in New : K(j) = K(i) - 1
        BY <2>6, <4>1
      <4>3. PaOf(j)'[1] = s
        BY <2>8, <4>1, <4>2
      <4> QED BY <2>16, <2>23, <3>2, <4>1, <4>2, <4>3
    <3> QED BY <2>12, <3>1, <3>2
  <2>35. HeadDone'
    <3> SUFFICES ASSUME sw_head \in Live', PaOf(sw_head)'[2] > 1,
                        NEW j \in Live', PaOf(j)'[1] = PaOf(sw_head)'[1]
                 PROVE  D(j) < D(hw_head)
      <4>1. D(hw_head)' = D(hw_head) /\ \A j \in Live' : D(j)' = D(j)
        BY <1>0, <2>14, <2>16, <2>17, <2>12 DEF D
      <4> QED BY <1>0, <4>1 DEF HeadDone
    <3>0. PaOf(sw_head)' = buff_ring'[sw_head].pa
      BY <1>0 DEF PaOf
    <3>1. CASE sw_head \in Live
      <4>1. PaOf(sw_head)' = PaOf(sw_head)
        BY <1>5, <3>0, <3>1 DEF PaOf
      <4>2. PaOf(sw_head) # NoPa
        BY <2>9, <4>1
      <4>3. j \in Live
        BY <2>12, <2>13, <3>1, <4>1, <4>2
      <4> QED BY <1>5, <3>1, <4>1, <4>3 DEF PacketInv, HeadDone
    <3>2. CASE sw_head \in New /\ sw_head \notin Live
      <4>1. PICK h \in New : h = sw_head
        BY <3>2
      <4>2. PaOf(h)' = PaOf(sw_head)'
        BY <1>0, <4>1 DEF PaOf
      <4>3. K(h) <= 1
        BY <2>24, <3>2, <4>1
      <4>4. PaOf(h)'[2] \in {0, 1}
        BY <2>7, <2>8, <2>9, <4>1, <4>3
      <4> QED BY <4>2, <4>4
    <3> QED BY <2>12, <3>1, <3>2
  <2>36. Tracked'
    <3> SUFFICES ASSUME NEW p \in dma'
                 PROVE  p # NoPa /\ (skbs'[p[1]] = "lost" \/ \E i \in Live' : PaOf(i)' = p)
      BY DEF Tracked
    <3>1. CASE p \in dma
      <4>1. p # NoPa /\ (skbs[p[1]] = "lost" \/ \E i \in Live : PaOf(i) = p)
        BY <3>1 DEF PacketInv, Tracked
      <4> QED BY <1>5, <2>0, <2>17, <4>1
    <3>2. CASE p \notin dma
      <4>1. fail = 0 /\ p \in Pieces(s, sh)
        BY <2>22, <3>2
      <4>2. PICK k \in 1 .. sh.data : p = <<s, k>>
        BY <2>20, <4>1
      <4>3. PICK i \in New : K(i) = k
        BY <2>6, <4>1
      <4>4. PaOf(i)' = p /\ p # NoPa
        BY <2>8, <2>9, <4>2, <4>3
      <4> QED BY <2>16, <4>3, <4>4
    <3> QED BY <3>1, <3>2
  <2>37. Unsent'
    <3> SUFFICES ASSUME NEW i \in Live', PaOf(i)'[1] = s PROVE D(reg_tail) <= D(i)
      <4>1. D(reg_tail)' = D(reg_tail) /\ \A i \in Live' : D(i)' = D(i)
        BY <1>0, <2>14, <2>16, <2>17, <2>12 DEF D
      <4> QED BY <2>0, <4>1 DEF Unsent
    <3>1. i \in New
      BY <1>5, <2>12
    <3>2. T <= D(i) /\ D(reg_tail) <= T
      BY <2>16, <3>1, DType DEF T
    <3> QED BY <2>16, <3>1, <3>2, DType DEF T
  <2>38. Sending'
    BY <1>0, <2>0 DEF PacketInv, Sending, s
  <2> QED BY <1>6, <2>30, <2>31, <2>32, <2>33, <2>34, <2>35, <2>36, <2>37, <2>38 DEF PacketInv
<1> QED BY <1>7, <1>8

LEMMA StepPacket == RingInv /\ RingInv' /\ PacketInv /\ [Next]_vars => PacketInv'
<1> SUFFICES ASSUME RingInv, RingInv', PacketInv, [Next]_vars PROVE PacketInv' OBVIOUS
<1>1. CASE Xmit
  <2>1. CASE (\E s \in Skbs, sh \in Shapes : XmitEnter(s, sh)) \/ XmitTest
    BY <2>1, XmitPacket
  <2>2. CASE aq_ring_update_queue_state("xmit")
    BY <2>2, UpdatePacket DEF Threads
  <2>3. CASE \E fail \in FailAt \cup {0} : aq_nic_map_skb(fail)
    BY <2>3, MapPacket
  <2>4. CASE hw_ring_tx_xmit \/ tx_ring_tail_update
    BY <2>4, PostPacket
  <2> QED BY <1>1, <2>1, <2>2, <2>3, <2>4 DEF Xmit
<1>2. CASE Poll
  <2>1. CASE hw_ring_tx_head_update \/ CleanReturn
    BY <2>1, RestPacket
  <2>2. CASE aq_ring_tx_clean
    BY <2>2, CleanPacket
  <2>3. CASE aq_ring_update_queue_state("poll")
    BY <2>3, UpdatePacket DEF Threads
  <2> QED BY <1>2, <2>1, <2>2, <2>3 DEF Poll
<1>3. CASE HwFetch \/ Link \/ aq_nic_stop
  BY <1>3, RestPacket
<1>4. CASE aq_nic_start
  BY <1>4, StartPacket
<1>5. CASE UNCHANGED vars
  BY <1>5 DEF vars, ring, regs, queue, PacketInv, Forms, Distinct, EndsAtEop, EopKnown,
     Contiguous, HeadDone, Tracked, Posted, Unsent, Sending, Live, Pending, D, PaOf
<1> QED BY <1>1, <1>2, <1>3, <1>4, <1>5 DEF Next, Life

(***************************************************************************)
(* When a poll cannot be overtaken in aq_ring_update_queue_state, the      *)
(* device never meets a descriptor whose buffer aq_ring_tx_clean has       *)
(* unmapped, for every ring size, clean budget and mapping failure.        *)
(***************************************************************************)
THEOREM DmaIsSafe ==
    ASSUME "poll" \notin Torn
    PROVE  Spec => []DmaSafe
  <1>1. Init => RingInv /\ PacketInv
    BY InitRing, InitPacket
  <1>2. RingInv /\ PacketInv /\ [Next]_vars => (RingInv /\ PacketInv)'
    BY StepRing, StepPacket
  <1> QED BY <1>1, <1>2, PacketSafe, PTL DEF Spec

\* The piece being reclaimed is of a packet the device is done with.
LEMMA NotInFlight ==
    ASSUME RingInv, PacketInv, aq_ring_tx_clean, PaOf(sw_head) # NoPa
    PROVE  ~InFlight(PaOf(sw_head)[1])
<1> SUFFICES ASSUME NEW i \in Slots(reg_head, reg_tail), dx_ring[i][1] = PaOf(sw_head)[1]
             PROVE  FALSE
  BY DEF InFlight
<1>1. /\ i \in Dx /\ D(reg_head) <= D(i) /\ D(i) < D(reg_tail)
      /\ D(i) \in Nat /\ {D(hw_head), D(reg_head), D(reg_tail), D(sw_tail), Pending} \subseteq Nat
      /\ D(hw_head) <= D(reg_head) /\ D(reg_tail) <= D(sw_tail)
  BY SlotsAre, DType
<1>2. D(i) < D(sw_tail) /\ i \in Live
  BY <1>1 DEF Live
<1>3. dx_ring[i] = PaOf(i)
  BY <1>1, <1>2 DEF PacketInv, Posted
<1>4. D(i) < D(hw_head)
  BY <1>2, <1>3, HeadReached
<1> QED BY <1>1, <1>4

\* The step of WholePacket.
WholeStep ==
    /\ \A p \in dma \ dma' : ~InFlight(p[1])
    /\ \A s \in Skbs : skbs[s] = "driver" /\ skbs'[s] = "stack" =>
          ~InFlight(s) /\ \A p \in dma' : p[1] # s

LEMMA CleanWhole ==
    ASSUME RingInv, RingInv', PacketInv, PacketInv', aq_ring_tx_clean
    PROVE  WholeStep
<1>1. CASE PaOf(sw_head) = NoPa
  <2>1. dma' = dma /\ skbs' = skbs
    BY <1>1, CleanData
  <2> QED BY <2>1 DEF WholeStep
<1>2. CASE PaOf(sw_head) # NoPa
  <2> DEFINE h == PaOf(sw_head)[1]
  <2>1. /\ dma' = dma \ {PaOf(sw_head)} /\ h \in Skbs
        /\ skbs' = IF buff_ring[sw_head].eop THEN [skbs EXCEPT ![h] = "stack"] ELSE skbs
        /\ skbs \in [Skbs -> {"stack", "xmit", "driver", "lost"}]
    BY <1>2, CleanData DEF RingInv, TypeInv, TypeOK
  <2>2. ~InFlight(h)
    BY <1>2, NotInFlight
  <2> HIDE DEF h
  <2>3. ASSUME NEW s \in Skbs, skbs[s] = "driver", skbs'[s] = "stack"
        PROVE  s = h /\ buff_ring[sw_head].eop
    BY <2>1, <2>3
  <2>4. ASSUME skbs[h] = "driver", skbs'[h] = "stack", buff_ring[sw_head].eop,
               NEW p \in dma', p[1] = h
        PROVE  FALSE
    <3>1. PICK i \in Live' : PaOf(i)' = p
      BY <2>1, <2>4 DEF PacketInv, Tracked
    <3>2. i \in Live /\ i # sw_head /\ sw_head \in Live /\ D(sw_head) = 0
      BY CleanIs
    <3>3. i \in Dx /\ D(i) \in Nat \ {0}
      BY <3>2, DType
    <3>4. PaOf(i) = p
      BY <3>1, <3>2, <3>3, CleanIs
    <3>5. D(i) <= D(sw_head)
      BY <2>4, <3>2, <3>4 DEF PacketInv, EndsAtEop, h
    <3> QED BY <3>2, <3>3, <3>5
  <2>5. \A p \in dma \ dma' : p[1] = h
    BY <2>1 DEF h
  <2> QED BY <2>1, <2>2, <2>3, <2>4, <2>5 DEF WholeStep
<1> QED BY <1>1, <1>2

\* No other step unmaps a piece or gives a sent skb back.
LEMMA OtherWhole ==
    ASSUME RingInv, PacketInv, [Next]_vars, ~aq_ring_tx_clean
    PROVE  WholeStep
<1> SUFFICES dma \subseteq dma' /\ \A s \in Skbs : skbs[s] = "driver" => skbs'[s] # "stack"
  BY DEF WholeStep
<1> USE DEF ring, regs, queue
<1>0. /\ skbs \in [Skbs -> {"stack", "xmit", "driver", "lost"}]
      /\ pc["xmit"] # "idle" => cur.skb \in Skbs /\ skbs[cur.skb] = "xmit"
  BY DEF RingInv, TypeInv, TypeOK, XmitHolds, PacketInv, Sending
<1>1. CASE \E s \in Skbs, sh \in Shapes : XmitEnter(s, sh)
  BY <1>0, <1>1 DEF XmitEnter
<1>2. CASE \E t \in Threads : aq_ring_update_queue_state(t)
  BY <1>2 DEF aq_ring_update_queue_state, UpdateWhole, UpdateReadLow, UpdateReadHigh,
     aq_ring_queue_stop, aq_ring_queue_wake
<1>3. CASE XmitTest
  BY <1>0, <1>3 DEF XmitTest, XmitBusy, At
<1>4. CASE \E fail \in FailAt \cup {0} : aq_nic_map_skb(fail)
  <2>1. PICK fail \in FailAt \cup {0} : aq_nic_map_skb(fail)
    BY <1>4
  <2>2. pc["xmit"] = "map" /\ dma \subseteq dma' /\ (UNCHANGED skbs \/ XmitBusy)
    BY <2>1 DEF aq_nic_map_skb, At
  <2> QED BY <1>0, <2>2 DEF XmitBusy
<1>5. CASE hw_ring_tx_xmit \/ tx_ring_tail_update
  BY <1>0, <1>5 DEF hw_ring_tx_xmit, tx_ring_tail_update
<1>6. CASE hw_ring_tx_head_update \/ CleanReturn \/ HwFetch \/ Link \/ aq_nic_stop
  BY <1>6 DEF hw_ring_tx_head_update, CleanReturn, HwFetch, Link, LinkUp, LinkDown, aq_nic_stop
<1>7. CASE aq_nic_start
  BY <1>0, <1>7 DEF aq_nic_start
<1>8. CASE UNCHANGED vars
  BY <1>8 DEF vars
<1> QED BY <1>1, <1>2, <1>3, <1>4, <1>5, <1>6, <1>7, <1>8 DEF Next, Xmit, Poll, Life, Threads

(***************************************************************************)
(* Under the same assumption packets are reclaimed as wholes: the          *)
(* is_sop / eop_index test of aq_ring_tx_clean keeps every piece of a      *)
(* packet mapped until the device has fetched the last one, and the skb    *)
(* goes back to the stack with its last mapping, wherever the clean budget *)
(* cuts a run short.                                                       *)
(***************************************************************************)
THEOREM PacketsAreWhole ==
    ASSUME "poll" \notin Torn
    PROVE  Spec => WholePacket
  <1>1. Init => RingInv /\ PacketInv
    BY InitRing, InitPacket
  <1>2. RingInv /\ PacketInv /\ [Next]_vars => (RingInv /\ PacketInv)'
    BY StepRing, StepPacket
  <1>3. RingInv /\ PacketInv /\ [Next]_vars => [WholeStep]_vars
    BY <1>2, CleanWhole, OtherWhole
  <1>4. WholePacket <=> [][WholeStep]_vars
    BY DEF WholePacket, WholeStep
  <1> QED BY <1>1, <1>2, <1>3, <1>4, PTL DEF Spec

-----------------------------------------------------------------------------
(* The slots in which packets end, and their order from sw_head. *)

\* A set of slots is finite, and no larger set lies in it.
LEMMA SlotSets ==
    ASSUME NEW E \in SUBSET Dx
    PROVE  /\ IsFiniteSet(E) /\ Cardinality(E) \in Nat
           /\ \A F \in SUBSET E : Cardinality(F) = Cardinality(E) => F = E
<1>1. IsFiniteSet(Dx)
  BY SizeAssumption, FS_Interval DEF Dx
<1>2. IsFiniteSet(E)
  BY <1>1, FS_Subset
<1> QED BY <1>2, FS_CardinalityType, FS_Subset

\* The place of slot i of E, going forward from a.
Rank(E, a, i) == Cardinality(Upto(E, a, i))

LEMMA RankType ==
    ASSUME NEW E \in SUBSET Dx, NEW a \in Dx, NEW i \in E
    PROVE  Rank(E, a, i) \in 1 .. Cardinality(E)
<1>1. i \in Upto(E, a, i) /\ Upto(E, a, i) \in SUBSET E
  BY DistType DEF Upto
<1>2. IsFiniteSet(E) /\ IsFiniteSet(Upto(E, a, i)) /\ Rank(E, a, i) <= Cardinality(E)
  BY <1>1, SlotSets, FS_Subset DEF Rank
<1>3. Rank(E, a, i) \in Nat /\ Rank(E, a, i) # 0 /\ Cardinality(E) \in Nat
  BY <1>1, <1>2, FS_EmptySet, FS_CardinalityType DEF Rank
<1> QED BY <1>2, <1>3

\* Two slots do not have the same place.
LEMMA RankInjective ==
    ASSUME NEW E \in SUBSET Dx, NEW a \in Dx, NEW i \in E, NEW j \in E,
           Rank(E, a, i) = Rank(E, a, j)
    PROVE  i = j
<1>1. ASSUME NEW x \in E, NEW y \in E, Dist(a, x) <= Dist(a, y), Rank(E, a, x) = Rank(E, a, y)
      PROVE  x = y
  <2>1. x \in Dx /\ y \in Dx /\ Dist(a, x) \in Nat /\ Dist(a, y) \in Nat
    BY DistType
  <2>2. Upto(E, a, x) \subseteq Upto(E, a, y)
    <3>1. \A k \in E : Dist(a, k) \in Nat
      BY DistType
    <3> QED BY <1>1, <2>1, <3>1 DEF Upto
  <2>3. Upto(E, a, y) \in SUBSET Dx /\ y \in Upto(E, a, y)
    BY <2>1 DEF Upto
  <2>4. Upto(E, a, x) = Upto(E, a, y)
    BY <1>1, <2>2, <2>3, SlotSets DEF Rank
  <2>5. Dist(a, y) <= Dist(a, x)
    BY <2>3, <2>4 DEF Upto
  <2> QED BY <1>1, <2>1, <2>5, DistInjective
<1>2. Dist(a, i) <= Dist(a, j) \/ Dist(a, j) <= Dist(a, i)
  BY DistType
<1> QED BY <1>1, <1>2

\* Slot i of E is the one Nth finds at its place.
LEMMA NthOfRank ==
    ASSUME NEW E \in SUBSET Dx, NEW a \in Dx, NEW i \in E
    PROVE  Nth(E, a, Rank(E, a, i)) = i
<1>1. {k \in E : Cardinality(Upto(E, a, k)) = Rank(E, a, i)} = {i}
  BY RankInjective DEF Rank
<1>2. TheOne({i}) = i
  BY DEF TheOne
<1> QED BY <1>1, <1>2 DEF Nth

\* Every place up to the number of slots is taken.
LEMMA NthType ==
    ASSUME NEW E \in SUBSET Dx, NEW a \in Dx, NEW n \in 1 .. Cardinality(E)
    PROVE  Nth(E, a, n) \in E /\ Rank(E, a, Nth(E, a, n)) = n
<1> DEFINE N == 1 .. Cardinality(E)
           f == [i \in E |-> Rank(E, a, i)]
<1>1. \E i \in E : Rank(E, a, i) = n
  <2> SUFFICES ASSUME \A i \in E : Rank(E, a, i) # n PROVE FALSE
    OBVIOUS
  <2>1. IsFiniteSet(E) /\ Cardinality(E) \in Nat
    BY SlotSets
  <2>2. IsFiniteSet(N) /\ Cardinality(N) = Cardinality(E)
    BY <2>1, FS_Interval
  <2>3. IsFiniteSet(N \ {n}) /\ Cardinality(N \ {n}) = Cardinality(E) - 1
    BY <2>2, FS_RemoveElement
  <2>4. f \in [E -> N \ {n}]
    BY RankType
  <2>5. Cardinality(N \ {n}) < Cardinality(E)
    BY <2>1, <2>3
  <2>6. PICK x \in E, y \in E : x # y /\ f[x] = f[y]
    <3> HIDE DEF f, N
    <3> QED BY <2>1, <2>3, <2>4, <2>5, FS_PigeonHole
  <2> QED BY <2>6, RankInjective
<1> QED BY <1>1, NthOfRank

\* A slot beyond those of E comes last.
LEMMA NthAdd ==
    ASSUME NEW E \in SUBSET Dx, NEW a \in Dx, NEW e \in Dx,
           \A i \in E : Dist(a, i) < Dist(a, e)
    PROVE  /\ Cardinality(E \cup {e}) = Cardinality(E) + 1
           /\ Nth(E \cup {e}, a, Cardinality(E) + 1) = e
           /\ \A n \in 1 .. Cardinality(E) : Nth(E \cup {e}, a, n) = Nth(E, a, n)
<1> DEFINE F == E \cup {e}
<1>1. F \in SUBSET Dx /\ e \notin E /\ \A i \in F : Dist(a, i) \in Nat
  BY DistType
<1>2. Cardinality(F) = Cardinality(E) + 1
  BY <1>1, SlotSets, FS_AddElement
<1>3. Upto(F, a, e) = F
  BY <1>1 DEF Upto
<1>4. Nth(F, a, Cardinality(E) + 1) = e
  BY <1>1, <1>2, <1>3, NthOfRank DEF Rank
<1>5. ASSUME NEW n \in 1 .. Cardinality(E) PROVE Nth(F, a, n) = Nth(E, a, n)
  <2>1. PICK i \in E : i = Nth(E, a, n) /\ Rank(E, a, i) = n
    BY NthType
  <2>2. Upto(F, a, i) = Upto(E, a, i)
    BY <1>1 DEF Upto
  <2> QED BY <1>1, <2>1, <2>2, NthOfRank DEF Rank
<1> QED BY <1>2, <1>4, <1>5

\* Without the nearest slot, and from one slot further on.
LEMMA NthDrop ==
    ASSUME NEW E \in SUBSET Dx, NEW a \in E, NEW b \in Dx,
           \A i \in E \ {a} : Dist(b, i) = Dist(a, i) - 1
    PROVE  /\ Cardinality(E \ {a}) = Cardinality(E) - 1 /\ Cardinality(E) > 0
           /\ Nth(E, a, 1) = a
           /\ \A n \in 1 .. Cardinality(E) - 1 : Nth(E \ {a}, b, n) = Nth(E, a, n + 1)
<1> DEFINE F == E \ {a}
<1>1. F \in SUBSET Dx /\ a \in Dx /\ \A i \in E : Dist(a, i) \in Nat /\ (Dist(a, i) = 0 <=> i = a)
  BY DistType
<1>2. Cardinality(F) = Cardinality(E) - 1 /\ Cardinality(E) > 0
  BY SlotSets, FS_RemoveElement, FS_EmptySet
<1>3. Upto(E, a, a) = {a}
  BY <1>1 DEF Upto
<1>4. Nth(E, a, 1) = a
  BY <1>1, <1>3, NthOfRank, FS_Singleton DEF Rank
<1>5. ASSUME NEW n \in 1 .. Cardinality(E) - 1 PROVE Nth(F, b, n) = Nth(E, a, n + 1)
  <2>1. PICK i \in F : i = Nth(F, b, n) /\ Rank(F, b, i) = n
    BY <1>1, <1>2, NthType
  <2>2. Upto(E, a, i) = Upto(F, b, i) \cup {a}
    BY <1>1 DEF Upto
  <2>3. Upto(F, b, i) \in SUBSET Dx /\ a \notin Upto(F, b, i)
    BY <1>1 DEF Upto
  <2>4. Rank(E, a, i) = n + 1
    <3>1. IsFiniteSet(Upto(F, b, i))
      BY <2>3, SlotSets
    <3>2. Cardinality(Upto(F, b, i) \cup {a}) = Cardinality(Upto(F, b, i)) + 1
      BY <2>3, <3>1, FS_AddElement
    <3> QED BY <2>1, <2>2, <3>2 DEF Rank
  <2> QED BY <1>1, <2>1, <2>4, NthOfRank
<1> QED BY <1>2, <1>4, <1>5

\* From one slot further on, the same slots have the same places.
LEMMA NthShift ==
    ASSUME NEW E \in SUBSET Dx, NEW a \in Dx, NEW b \in Dx,
           \A i \in E : Dist(b, i) = Dist(a, i) - 1
    PROVE  \A n \in 1 .. Cardinality(E) : Nth(E, b, n) = Nth(E, a, n)
<1> SUFFICES ASSUME NEW n \in 1 .. Cardinality(E) PROVE Nth(E, b, n) = Nth(E, a, n)
  OBVIOUS
<1>1. PICK i \in E : i = Nth(E, a, n) /\ Rank(E, a, i) = n
  BY NthType
<1>2. Upto(E, b, i) = Upto(E, a, i)
  <2>1. \A k \in E : Dist(a, k) \in Nat
    BY DistType
  <2> QED BY <2>1 DEF Upto
<1> QED BY <1>1, <1>2, NthOfRank DEF Rank

\* A function from 1 on is a sequence: its length, what it is with one more at
\* the end, and what is left without its first.
LEMMA LenIs ==
    ASSUME NEW S, NEW N \in Nat, NEW q \in [1 .. N -> S]
    PROVE  Len(q) = N /\ q \in Seq(S)
  OBVIOUS

LEMMA SeqIs ==
    ASSUME NEW S, NEW q \in Seq(S), NEW N, Len(q) = N
    PROVE  q \in [1 .. N -> S]
  OBVIOUS

LEMMA AppendIs ==
    ASSUME NEW S, NEW N \in Nat, NEW q \in [1 .. N -> S], NEW r \in [1 .. N + 1 -> S],
           \A n \in 1 .. N : r[n] = q[n]
    PROVE  r = Append(q, r[N + 1])
<1> DEFINE p == r[N + 1]
<1>1. q \in Seq(S) /\ Len(q) = N /\ p \in S
  BY LenIs
<1>2. \A n \in 1 .. N + 1 : n \in 1 .. N \/ n = N + 1
  OBVIOUS
<1>3. /\ Append(q, p) \in Seq(S) /\ Len(Append(q, p)) = N + 1
      /\ \A n \in 1 .. N : Append(q, p)[n] = q[n]
      /\ Append(q, p)[N + 1] = p
  BY <1>1
<1>4. \A n \in 1 .. N + 1 : Append(q, p)[n] = r[n]
  BY <1>2, <1>3
<1>5. Append(q, p) \in [1 .. N + 1 -> S]
  BY <1>3, SeqIs
<1> QED BY <1>4, <1>5

LEMMA TailIs ==
    ASSUME NEW S, NEW N \in Nat, N > 0, NEW q \in [1 .. N -> S], NEW r \in [1 .. N - 1 -> S],
           \A n \in 1 .. N - 1 : r[n] = q[n + 1]
    PROVE  r = Tail(q) /\ Head(q) = q[1]
<1>1. q \in Seq(S) /\ Len(q) = N
  BY LenIs
<1>2. q # <<>>
  BY <1>1
<1>3. /\ Tail(q) \in Seq(S) /\ Len(Tail(q)) = N - 1
      /\ \A n \in 1 .. N - 1 : Tail(q)[n] = q[n + 1]
  BY <1>1, <1>2
<1>4. Tail(q) \in [1 .. N - 1 -> S]
  BY <1>3, SeqIs
<1>5. Head(q) = q[1]
  BY <1>1, <1>2
<1> QED BY <1>3, <1>4, <1>5

-----------------------------------------------------------------------------
(* The ring as TxQueue. *)

\* Only hw_ring_tx_xmit runs ahead of the tail register, and the slots it runs
\* over hold one end of a packet, that of the packet under way.
AllPosted == pc["xmit"] # "post" => sw_tail = reg_tail
OneEnd ==
    pc["xmit"] = "post" =>
        \E e \in Live :
            /\ buff_ring[e].eop /\ buff_ring[e].skb = cur.skb /\ D(reg_tail) <= D(e)
            /\ \A i \in Live : buff_ring[i].eop /\ D(reg_tail) <= D(i) => i = e

FifoInv == AllPosted /\ OneEnd

LEMMA InitFifo == Init => FifoInv
  BY DEF Init, FifoInv, AllPosted, OneEnd, Threads

\* A step that leaves the ring and the packet under way alone.
LEMMA QuietFifo ==
    ASSUME FifoInv, UNCHANGED <<sw_head, sw_tail, reg_tail, buff_ring>>,
           pc["xmit"] = "post" <=> pc'["xmit"] = "post",
           pc["xmit"] = "post" => cur' = cur
    PROVE  FifoInv'
<1>1. AllPosted'
  BY DEF FifoInv, AllPosted
<1>2. CASE pc["xmit"] # "post"
  BY <1>1, <1>2 DEF FifoInv, OneEnd
<1>3. CASE pc["xmit"] = "post"
  <2>1. Live' = Live
    BY <1>3 DEF Live, Pending, D
  <2>2. \A i : D(i)' = D(i)
    BY DEF D
  <2>3. OneEnd
    BY DEF FifoInv
  <2>4. PICK e \in Live :
            /\ buff_ring[e].eop /\ buff_ring[e].skb = cur.skb /\ D(reg_tail) <= D(e)
            /\ \A i \in Live : buff_ring[i].eop /\ D(reg_tail) <= D(i) => i = e
    BY <1>3, <2>3, Zenon DEF OneEnd
  <2>5. D(reg_tail)' = D(reg_tail)
    BY DEF D
  <2>6. /\ e \in Live' /\ buff_ring'[e].eop /\ buff_ring'[e].skb = cur'.skb
        /\ D(reg_tail)' <= D(e)'
        /\ \A i \in Live' : buff_ring'[i].eop /\ D(reg_tail)' <= D(i)' => i = e
    BY <1>3, <2>1, <2>2, <2>4, <2>5
  <2> QED BY <1>1, <2>6 DEF FifoInv, OneEnd
<1> QED BY <1>2, <1>3

\* The steps that leave the xmit's packet and the indices alone.
LEMMA OtherFifo ==
    ASSUME RingInv, FifoInv,
           \/ \E s \in Skbs, sh \in Shapes : XmitEnter(s, sh)
           \/ \E t \in Threads : aq_ring_update_queue_state(t)
           \/ XmitTest \/ hw_ring_tx_head_update \/ CleanReturn
           \/ HwFetch \/ Link \/ aq_nic_stop
    PROVE  FifoInv'
<1> USE DEF ring, regs, queue
<1>0. pc \in [Threads -> Labels] /\ "xmit" \in Threads /\ "poll" # "xmit"
  BY DEF RingInv, TypeInv, TypeOK, Threads
<1>1. CASE \E s \in Skbs, sh \in Shapes : XmitEnter(s, sh)
  <2>1. /\ UNCHANGED <<sw_head, sw_tail, reg_tail, buff_ring>>
        /\ pc["xmit"] # "post" /\ pc'["xmit"] # "post"
    BY <1>0, <1>1 DEF XmitEnter, Goto, At
  <2> QED BY <2>1, QuietFifo
<1>2. ASSUME NEW t \in Threads, aq_ring_update_queue_state(t) PROVE FifoInv'
  <2>1. UNCHANGED <<sw_head, sw_tail, reg_tail, buff_ring, cur>>
    BY <1>2 DEF aq_ring_update_queue_state, UpdateWhole, UpdateReadLow,
       UpdateReadHigh, aq_ring_queue_stop, aq_ring_queue_wake
  <2>2. pc[t] \in {"update", "update2", "stop", "wake"}
    BY <1>2 DEF aq_ring_update_queue_state, UpdateWhole, UpdateReadLow,
           UpdateReadHigh, aq_ring_queue_stop, aq_ring_queue_wake, At
  <2>3. PICK l \in {"idle", "update2", "stop", "wake", "test"} : Goto(t, l)
    BY <1>2 DEF aq_ring_update_queue_state, UpdateWhole, UpdateReadLow, After,
           UpdateReadHigh, aq_ring_queue_stop, aq_ring_queue_wake
  <2>4. pc["xmit"] = "post" <=> pc'["xmit"] = "post"
    BY <1>0, <2>2, <2>3 DEF Goto
  <2> QED BY <2>1, <2>4, QuietFifo
<1>3. CASE XmitTest
  <2>1. /\ UNCHANGED <<sw_head, sw_tail, reg_tail, buff_ring>>
        /\ pc["xmit"] # "post" /\ pc'["xmit"] # "post"
    BY <1>0, <1>3 DEF XmitTest, XmitBusy, Goto, At
  <2> QED BY <2>1, QuietFifo
<1>4. CASE hw_ring_tx_head_update \/ CleanReturn \/ HwFetch \/ Link \/ aq_nic_stop
  <2>1. UNCHANGED <<sw_head, sw_tail, reg_tail, buff_ring, cur>> /\ pc'["xmit"] = pc["xmit"]
    BY <1>0, <1>4 DEF hw_ring_tx_head_update, CleanReturn, HwFetch, Link, LinkUp, LinkDown,
       aq_nic_stop, Goto
  <2> QED BY <2>1, QuietFifo
<1> QED BY <1>1, <1>2, <1>3, <1>4

\* aq_nic_map_skb, when the first piece cannot fail
LEMMA MapFifo ==
    ASSUME 1 \notin FailAt, RingInv, RingInv', PacketInv, FifoInv,
           NEW fail \in FailAt \cup {0}, aq_nic_map_skb(fail)
    PROVE  FifoInv'
<1> DEFINE s == cur.skb
           sh == cur.shape
           n == MapCount(sh, fail)
           T == D(sw_tail)
           c == Ctx(sh)
           K(i) == Piece(sh, i)
<1>0. /\ pc["xmit"] = "map" /\ UNCHANGED <<sw_head, sw_tail, reg_tail>>
      /\ pc \in [Threads -> Labels] /\ "xmit" \in Threads
  BY DEF aq_nic_map_skb, At, ring, regs, RingInv, TypeInv, TypeOK, Threads
<1>1. /\ s \in Skbs /\ c \in 0 .. 1 /\ sh.data \in Nat \ {0} /\ n \in Nat
      /\ T \in Nat /\ T + c + sh.data < Size /\ (fail = 0 => n = c + sh.data)
  BY MapIs
<1>2. \A i \in Dx : D(i) >= T /\ D(i) < T + n =>
          buff_ring'[i] = IF K(i) < 1 THEN BareBuff(TRUE)
                          ELSE DataBuff(s, sh, K(i), Last(sh))
  BY MapIs, Zenon
<1>3. Last(sh) \in Dx /\ D(Last(sh)) = T + c + sh.data - 1
  BY MapIs
<1>4. sw_tail = reg_tail
  BY <1>0 DEF FifoInv, AllPosted
<1>5. AllPosted'
  BY <1>0, <1>4 DEF AllPosted
<1>6. CASE n = 0
  <2>1. pc'["xmit"] = "idle"
    BY <1>0, <1>6 DEF aq_nic_map_skb, XmitBusy, Goto
  <2> QED BY <1>5, <2>1 DEF FifoInv, OneEnd
<1>7. CASE n # 0
  <2>1. fail = 0
    BY <1>7 DEF MapCount
  <2>2. pc'["xmit"] = "post" /\ cur'.skb = s /\ cur'.frags = n
    BY <1>0, <1>7 DEF aq_nic_map_skb, Goto
  <2>3. \A i \in Dx : D(i)' = D(i) /\ D(i) \in Nat /\ K(i) = D(i) - T - c + 1
    BY <1>0, DType DEF D, Piece
  <2>4. D(reg_tail)' = T /\ D(sw_tail)' = T
    BY <1>0, <1>4 DEF D
  <2>5. Live' = {i \in Dx : D(i) < T + n}
    BY <2>2, <2>3, <2>4 DEF Live, Pending
  <2>6. ASSUME NEW i \in Live', T <= D(i)
        PROVE  /\ buff_ring'[i].eop <=> K(i) = sh.data
               /\ buff_ring'[i].eop => buff_ring'[i].skb = s
    <3>1. i \in Dx /\ D(i) >= T /\ D(i) < T + n
      BY <1>1, <2>3, <2>5, <2>6
    <3>2. CASE K(i) < 1
      <4>1. buff_ring'[i] = BareBuff(TRUE)
        BY <1>2, <3>1, <3>2
      <4>2. K(i) # sh.data
        BY <1>1, <2>3, <3>1, <3>2
      <4> QED BY <4>1, <4>2 DEF BareBuff
    <3>3. CASE ~(K(i) < 1)
      <4>1. buff_ring'[i] = DataBuff(s, sh, K(i), Last(sh))
        BY <1>2, <3>1, <3>3
      <4> HIDE DEF s, sh, K
      <4>2. /\ buff_ring'[i].eop = (K(i) = sh.data)
            /\ buff_ring'[i].skb = IF K(i) = sh.data THEN s ELSE NoSkb
        BY <4>1 DEF DataBuff
      <4> QED BY <4>2
    <3> QED BY <3>2, <3>3
  <2>0. PICK e \in Dx : e = Last(sh) /\ D(e) = T + c + sh.data - 1
    BY <1>3
  <2>7. e \in Live' /\ T <= D(e) /\ K(e) = sh.data
    BY <1>1, <2>0, <2>1, <2>3, <2>5
  <2>8. buff_ring'[e].eop /\ buff_ring'[e].skb = cur'.skb
    BY <2>2, <2>6, <2>7
  <2>9. ASSUME NEW i \in Live', buff_ring'[i].eop, T <= D(i) PROVE i = e
    <3>1. K(i) = sh.data /\ i \in Dx
      BY <2>5, <2>6, <2>9
    <3>2. D(i) = D(e)
      BY <1>1, <2>0, <2>3, <3>1
    <3> QED BY <3>1, <3>2, DType
  <2>10. D(e)' = D(e) /\ \A i \in Live' : D(i)' = D(i)
    BY <2>3, <2>5
  <2> HIDE DEF s, sh, n, T, c, K
  <2>11. /\ e \in Live' /\ buff_ring'[e].eop /\ buff_ring'[e].skb = cur'.skb
         /\ D(reg_tail)' <= D(e)'
         /\ \A i \in Live' : buff_ring'[i].eop /\ D(reg_tail)' <= D(i)' => i = e
    BY <2>4, <2>7, <2>8, <2>9, <2>10
  <2> QED BY <1>5, <2>11 DEF FifoInv, OneEnd
<1> QED BY <1>6, <1>7

\* hw_ring_tx_xmit and tx_ring_tail_update
LEMMA PostFifo ==
    ASSUME RingInv, FifoInv, hw_ring_tx_xmit \/ tx_ring_tail_update
    PROVE  FifoInv'
<1> USE DEF ring, regs, queue
<1>0. /\ pc["xmit"] = "post" /\ UNCHANGED <<sw_head, buff_ring>>
      /\ pc \in [Threads -> Labels] /\ "xmit" \in Threads
      /\ cur.frags \in Nat
  BY DEF hw_ring_tx_xmit, tx_ring_tail_update, At, RingInv, TypeInv, TypeOK, Threads
<1>1. CASE hw_ring_tx_xmit
  <2>1. /\ cur.frags > 0 /\ sw_tail' = aq_ring_next_dx(sw_tail) /\ UNCHANGED <<pc, reg_tail>>
        /\ cur'.skb = cur.skb /\ cur'.frags = cur.frags - 1
        /\ sw_tail \in Dx /\ sw_head \in Dx
    BY <1>1 DEF hw_ring_tx_xmit, RingInv, TypeInv, TypeOK
  <2>2. D(sw_tail)' = D(sw_tail) + 1
    <3>1. D(sw_tail) + cur.frags <= Size - 1 /\ D(sw_tail) \in Nat
      BY <1>0, <2>1, DType DEF Pending
    <3>2. D(sw_tail) < Size - 1
      BY <1>0, <2>1, <3>1, SizeAssumption
    <3> QED BY <1>0, <2>1, <3>2, DistNextFar DEF D
  <2>3. \A i : D(i)' = D(i)
    BY <1>0 DEF D
  <2>4. Live' = Live
    <3>1. D(sw_tail)' + Pending' = D(sw_tail) + Pending
      BY <1>0, <2>1, <2>2, DType DEF Pending
    <3> QED BY <2>3, <3>1 DEF Live
  <2>5. D(reg_tail)' = D(reg_tail)
    BY <1>0, <2>1 DEF D
  <2>6. PICK e \in Live :
            /\ buff_ring[e].eop /\ buff_ring[e].skb = cur.skb /\ D(reg_tail) <= D(e)
            /\ \A i \in Live : buff_ring[i].eop /\ D(reg_tail) <= D(i) => i = e
    BY <1>0, Zenon DEF FifoInv, OneEnd
  <2>7. /\ e \in Live' /\ buff_ring'[e].eop /\ buff_ring'[e].skb = cur'.skb
        /\ D(reg_tail)' <= D(e)'
        /\ \A i \in Live' : buff_ring'[i].eop /\ D(reg_tail)' <= D(i)' => i = e
    BY <1>0, <2>1, <2>3, <2>4, <2>5, <2>6
  <2> QED BY <1>0, <2>1, <2>7 DEF FifoInv, OneEnd, AllPosted
<1>2. CASE tx_ring_tail_update
  BY <1>0, <1>2 DEF tx_ring_tail_update, Goto, FifoInv, AllPosted, OneEnd
<1> QED BY <1>1, <1>2

LEMMA CleanFifo ==
    ASSUME RingInv, RingInv', PacketInv, FifoInv, aq_ring_tx_clean
    PROVE  FifoInv'
<1>1. UNCHANGED <<pc, cur, sw_tail, reg_tail>>
  BY DEF aq_ring_tx_clean, regs
<1>2. AllPosted'
  BY <1>1 DEF FifoInv, AllPosted
<1>3. ASSUME pc["xmit"] = "post" PROVE OneEnd'
  <2>1. D(reg_tail) > 0 /\ reg_tail \in Dx \ {sw_head} /\ D(reg_tail)' = D(reg_tail) - 1
        /\ D(reg_tail) \in Nat
    <3>1. D(reg_tail) > 0 /\ reg_tail \in Dx \ {sw_head}
      BY CleanIs, DType
    <3> QED BY <1>1, <3>1, CleanIs, DType DEF D
  <2>2. PICK e \in Live :
            /\ buff_ring[e].eop /\ buff_ring[e].skb = cur.skb /\ D(reg_tail) <= D(e)
            /\ \A i \in Live : buff_ring[i].eop /\ D(reg_tail) <= D(i) => i = e
    BY <1>3, Zenon DEF FifoInv, OneEnd
  <2>3. \A i \in Live' : /\ i \in Live /\ i \in Dx /\ D(i)' = D(i) - 1 /\ D(i) \in Nat
                         /\ buff_ring'[i] = buff_ring[i]
    BY CleanIs, DType
  <2>4. e \in Live'
    BY <2>1, <2>2, CleanIs
  <2>5. /\ buff_ring'[e].eop /\ buff_ring'[e].skb = cur'.skb
        /\ D(reg_tail)' <= D(e)'
        /\ \A i \in Live' : buff_ring'[i].eop /\ D(reg_tail)' <= D(i)' => i = e
    BY <1>1, <2>1, <2>2, <2>3, <2>4
  <2> QED BY <2>4, <2>5 DEF OneEnd
<1> QED BY <1>1, <1>2, <1>3 DEF FifoInv, OneEnd

LEMMA StepFifo ==
    ASSUME 1 \notin FailAt
    PROVE  RingInv /\ RingInv' /\ PacketInv /\ FifoInv /\ [Next]_vars => FifoInv'
<1> SUFFICES ASSUME RingInv, RingInv', PacketInv, FifoInv, [Next]_vars PROVE FifoInv' OBVIOUS
<1>1. CASE \E fail \in FailAt \cup {0} : aq_nic_map_skb(fail)
  BY <1>1, MapFifo
<1>2. CASE hw_ring_tx_xmit \/ tx_ring_tail_update
  BY <1>2, PostFifo
<1>3. CASE aq_ring_tx_clean
  BY <1>3, CleanFifo
<1>4. CASE aq_nic_start
  <2>1. sw_tail' = reg_tail' /\ pc' = pc /\ pc["xmit"] # "post"
    BY <1>4 DEF aq_nic_start, RingInv, Places
  <2> QED BY <2>1 DEF FifoInv, AllPosted, OneEnd
<1>5. CASE UNCHANGED vars
  <2>1. UNCHANGED <<sw_head, sw_tail, reg_tail, buff_ring, pc, cur>>
    BY <1>5 DEF vars, ring, regs
  <2> QED BY <2>1, QuietFifo
<1>6. CASE \/ \E s \in Skbs, sh \in Shapes : XmitEnter(s, sh)
           \/ \E t \in Threads : aq_ring_update_queue_state(t)
           \/ XmitTest \/ hw_ring_tx_head_update \/ CleanReturn
           \/ HwFetch \/ Link \/ aq_nic_stop
  BY <1>6, OtherFifo
<1> QED BY <1>1, <1>2, <1>3, <1>4, <1>5, <1>6 DEF Next, Xmit, Poll, Life, Threads

-----------------------------------------------------------------------------
(* The ring seen as the queue of TxQueue. *)

Queued == EndingIn(sw_head, reg_tail)
Sent == Cardinality(Ends(sw_head, reg_head))
Names == Skbs \cup {NoSkb}     \* what the skb field of a buffer holds
Held == {s \in Skbs : skbs[s] = "driver"}

\* The packets from the oldest up to a slot b end in these slots.
LEMMA EndsAre ==
    ASSUME NEW b \in Dx
    PROVE  /\ Ends(sw_head, b) = {i \in Dx : D(i) < D(b) /\ buff_ring[i].eop}
           /\ Ends(sw_head, b) \in SUBSET Dx
  BY DEF Ends, Slots, D

\* The queue is as long as there are such slots, each with its skb.
LEMMA QueuedIs ==
    ASSUME RingInv, NEW N, N = Cardinality(Ends(sw_head, reg_tail))
    PROVE  /\ N \in Nat /\ Len(Queued) = N /\ Queued \in [1 .. N -> Names]
           /\ \A n \in 1 .. N :
                /\ Nth(Ends(sw_head, reg_tail), sw_head, n) \in Ends(sw_head, reg_tail)
                /\ Queued[n] = buff_ring[Nth(Ends(sw_head, reg_tail), sw_head, n)].skb
<1> DEFINE E == Ends(sw_head, reg_tail)
<1>1. E \in SUBSET Dx /\ sw_head \in Dx
  BY DType, EndsAre
<1>2. N \in Nat
  BY <1>1, SlotSets
<1>3. Queued = [n \in 1 .. N |-> buff_ring[Nth(E, sw_head, n)].skb]
  BY DEF Queued, EndingIn
<1>4. \A n \in 1 .. N : Nth(E, sw_head, n) \in E
  BY <1>1, NthType
<1>5. \A i \in E : buff_ring[i].skb \in Names
  BY <1>1 DEF RingInv, TypeInv, TypeOK, Buffs, Names
<1> HIDE DEF E
<1>6. /\ Queued \in [1 .. N -> Names]
      /\ \A n \in 1 .. N : Queued[n] = buff_ring[Nth(E, sw_head, n)].skb
  BY <1>3, <1>4, <1>5
<1>7. Len(Queued) = N
  BY <1>2, <1>6, LenIs
<1> QED BY <1>2, <1>4, <1>6, <1>7 DEF E

\* A step that leaves the handed packets alone leaves the queue alone.
LEMMA QueuedStays ==
    ASSUME RingInv, RingInv', UNCHANGED <<sw_head, reg_tail>>,
           \A i \in Dx : D(i) < D(reg_tail) => buff_ring'[i] = buff_ring[i]
    PROVE  Queued' = Queued /\ (reg_head' = reg_head => Sent' = Sent)
<1> DEFINE E == Ends(sw_head, reg_tail)
<1>1. \A i \in Dx : D(i)' = D(i) /\ D(i) \in Nat
  BY DType DEF D
<1>2. {sw_head, reg_head, reg_tail} \subseteq Dx /\ D(reg_head) <= D(reg_tail)
  BY DType
<1>3. ASSUME NEW b \in Dx, D(b) <= D(reg_tail)
      PROVE  {i \in Dx : D(i)' < D(b)' /\ buff_ring'[i].eop} = Ends(sw_head, b)
  <2>1. \A i \in Dx : D(i)' < D(b)' /\ buff_ring'[i].eop <=> D(i) < D(b) /\ buff_ring[i].eop
    BY <1>1, <1>2, <1>3
  <2> QED BY <2>1, EndsAre
<1>5. Ends(sw_head, reg_tail)' = E
  BY <1>2, <1>3 DEF Ends, Slots, D
<1>6. E \in SUBSET Dx
  BY <1>2, EndsAre
<1>7. \A n \in 1 .. Cardinality(E) :
          buff_ring'[Nth(E, sw_head, n)].skb = buff_ring[Nth(E, sw_head, n)].skb
  <2> SUFFICES ASSUME NEW n \in 1 .. Cardinality(E)
               PROVE  buff_ring'[Nth(E, sw_head, n)] = buff_ring[Nth(E, sw_head, n)]
    OBVIOUS
  <2>1. PICK i \in E : i = Nth(E, sw_head, n)
    BY <1>2, <1>6, NthType
  <2>2. i \in Dx /\ D(i) < D(reg_tail)
    BY <1>2, EndsAre
  <2> QED BY <2>1, <2>2
<1>8. Queued' = [n \in 1 .. Cardinality(E) |-> buff_ring'[Nth(E, sw_head, n)].skb]
  BY <1>5 DEF Queued, EndingIn
<1>9. Queued = [n \in 1 .. Cardinality(E) |-> buff_ring[Nth(E, sw_head, n)].skb]
  BY DEF Queued, EndingIn
<1>10. Queued' = Queued
  <2> HIDE DEF E
  <2> QED BY <1>7, <1>8, <1>9
<1>11. ASSUME reg_head' = reg_head PROVE Sent' = Sent
  <2>1. Ends(sw_head, reg_head)' = Ends(sw_head, reg_head)
    BY <1>2, <1>3, <1>11 DEF Ends, Slots, D
  <2> QED BY <2>1 DEF Sent
<1> QED BY <1>10, <1>11

\* The stack's and the poll's other steps, and those of the link.
LEMMA QuietQueue ==
    ASSUME RingInv, RingInv', PacketInv,
           \/ \E s \in Skbs, sh \in Shapes : XmitEnter(s, sh)
           \/ \E t \in Threads : aq_ring_update_queue_state(t)
           \/ XmitTest \/ \E fail \in FailAt \cup {0} : aq_nic_map_skb(fail)
           \/ hw_ring_tx_xmit \/ hw_ring_tx_head_update \/ CleanReturn
           \/ Link \/ aq_nic_stop
    PROVE  UNCHANGED <<Queued, Sent, Held>>
<1> USE DEF ring, regs, queue
<1>1. /\ UNCHANGED <<sw_head, reg_head, reg_tail>>
      /\ buff_ring' = buff_ring \/ \E fail \in FailAt \cup {0} : aq_nic_map_skb(fail)
  <2>1. CASE \E s \in Skbs, sh \in Shapes : XmitEnter(s, sh)
    BY <2>1 DEF XmitEnter
  <2>2. CASE \E t \in Threads : aq_ring_update_queue_state(t)
    BY <2>2 DEF aq_ring_update_queue_state, UpdateWhole, UpdateReadLow,
       UpdateReadHigh, aq_ring_queue_stop, aq_ring_queue_wake
  <2>3. CASE XmitTest
    BY <2>3 DEF XmitTest
  <2>4. CASE \E fail \in FailAt \cup {0} : aq_nic_map_skb(fail)
    BY <2>4 DEF aq_nic_map_skb
  <2>5. CASE hw_ring_tx_xmit \/ hw_ring_tx_head_update \/ CleanReturn \/ Link \/ aq_nic_stop
    BY <2>5 DEF hw_ring_tx_xmit, hw_ring_tx_head_update, CleanReturn, Link, LinkUp, LinkDown,
       aq_nic_stop
  <2> QED BY <2>1, <2>2, <2>3, <2>4, <2>5
<1>2. \A i \in Dx : D(i) < D(reg_tail) => buff_ring'[i] = buff_ring[i]
  <2> SUFFICES ASSUME NEW fail \in FailAt \cup {0}, aq_nic_map_skb(fail),
                      NEW i \in Dx, D(i) < D(reg_tail)
               PROVE  buff_ring'[i] = buff_ring[i]
    BY <1>1
  <2>1. D(i) < D(sw_tail)
    BY DType
  <2> QED BY <2>1, MapIs
<1>3. \A s \in Skbs : skbs'[s] = "driver" <=> skbs[s] = "driver"
  <2>0. /\ skbs \in [Skbs -> {"stack", "xmit", "driver", "lost"}]
        /\ pc["xmit"] # "idle" => cur.skb \in Skbs /\ skbs[cur.skb] = "xmit"
    BY DEF RingInv, TypeInv, TypeOK, XmitHolds, PacketInv, Sending
  <2>1. CASE \E s \in Skbs, sh \in Shapes : XmitEnter(s, sh)
    BY <2>0, <2>1 DEF XmitEnter
  <2>2. CASE \E t \in Threads : aq_ring_update_queue_state(t)
    BY <2>2 DEF aq_ring_update_queue_state, UpdateWhole, UpdateReadLow,
       UpdateReadHigh, aq_ring_queue_stop, aq_ring_queue_wake
  <2>3. CASE XmitTest
    BY <2>0, <2>3 DEF XmitTest, XmitBusy, At
  <2>4. CASE \E fail \in FailAt \cup {0} : aq_nic_map_skb(fail)
    <3>1. PICK fail \in FailAt \cup {0} : aq_nic_map_skb(fail)
      BY <2>4
    <3>2. pc["xmit"] = "map" /\ (UNCHANGED skbs \/ XmitBusy)
      BY <3>1 DEF aq_nic_map_skb, At
    <3> QED BY <2>0, <3>2 DEF XmitBusy
  <2>5. CASE hw_ring_tx_xmit \/ hw_ring_tx_head_update \/ CleanReturn \/ Link \/ aq_nic_stop
    BY <2>5 DEF hw_ring_tx_xmit, hw_ring_tx_head_update, CleanReturn, Link, LinkUp, LinkDown,
       aq_nic_stop
  <2> QED BY <2>1, <2>2, <2>3, <2>4, <2>5
<1>4. Held' = Held
  BY <1>3 DEF Held
<1> QED BY <1>1, <1>2, <1>4, QueuedStays

\* tx_ring_tail_update hands the packet over, behind all others.
LEMMA TailPosts ==
    ASSUME RingInv, RingInv', PacketInv, FifoInv, tx_ring_tail_update
    PROVE  /\ cur.skb \in Skbs \ Held
           /\ Queued' = Append(Queued, cur.skb) /\ Held' = Held \cup {cur.skb}
           /\ Sent' = Sent
<1> DEFINE E == Ends(sw_head, reg_tail)
           N == Cardinality(E)
<1>1. /\ pc["xmit"] = "post" /\ UNCHANGED <<sw_head, buff_ring, reg_head>> /\ cur.frags = 0
      /\ reg_tail' = sw_tail /\ skbs' = [skbs EXCEPT ![cur.skb] = "driver"]
      /\ cur.skb \in Skbs /\ skbs \in [Skbs -> {"stack", "xmit", "driver", "lost"}]
  BY DEF tx_ring_tail_update, At, ring, RingInv, TypeInv, TypeOK, XmitHolds
<1>2. skbs[cur.skb] = "xmit"
  BY <1>1 DEF PacketInv, Sending
<1>3. cur.skb \in Skbs \ Held /\ Held' = Held \cup {cur.skb}
  BY <1>1, <1>2 DEF Held
<1>4. /\ \A i \in Dx : D(i)' = D(i) /\ D(i) \in Nat
      /\ {sw_head, sw_tail, reg_head, reg_tail} \subseteq Dx /\ D(reg_tail) <= D(sw_tail)
  BY <1>1, DType DEF D
<1>5. Sent' = Sent
  BY <1>1 DEF Sent, Ends
<1>6. Live = {i \in Dx : D(i) < D(sw_tail)}
  BY <1>1, <1>4 DEF Live, Pending
<1>7. PICK e \in Live :
          /\ buff_ring[e].eop /\ buff_ring[e].skb = cur.skb /\ D(reg_tail) <= D(e)
          /\ \A i \in Live : buff_ring[i].eop /\ D(reg_tail) <= D(i) => i = e
  BY <1>1, Zenon DEF FifoInv, OneEnd
<1>8. E = {i \in Dx : D(i) < D(reg_tail) /\ buff_ring[i].eop} /\ E \in SUBSET Dx
  BY <1>4, EndsAre
<1>9. Ends(sw_head, reg_tail)' = {i \in Dx : D(i) < D(sw_tail) /\ buff_ring[i].eop}
  BY <1>1 DEF Ends, Slots, D
<1>10. e \in Dx /\ \A i \in E : Dist(sw_head, i) < Dist(sw_head, e)
  BY <1>4, <1>6, <1>7, <1>8 DEF D
<1>11. Ends(sw_head, reg_tail)' = E \cup {e}
  <2> HIDE DEF E
  <2>1. \A i \in Dx : D(i) < D(sw_tail) /\ buff_ring[i].eop <=> i \in E \/ i = e
    BY <1>4, <1>6, <1>7, <1>8
  <2> QED BY <1>8, <1>9, <1>10, <2>1
<1>12. /\ N \in Nat /\ Queued \in [1 .. N -> Names]
       /\ \A n \in 1 .. N : Queued[n] = buff_ring[Nth(E, sw_head, n)].skb
  BY QueuedIs
<1>13. /\ Cardinality(E \cup {e}) = N + 1
       /\ Nth(E \cup {e}, sw_head, N + 1) = e
       /\ \A n \in 1 .. N : Nth(E \cup {e}, sw_head, n) = Nth(E, sw_head, n)
  <2>1. E \in SUBSET Dx /\ sw_head \in Dx
    BY <1>4, <1>8
  <2> HIDE DEF E
  <2> QED BY <1>10, <2>1, NthAdd
<1>14. Queued' = [n \in 1 .. Cardinality(E \cup {e}) |->
                     buff_ring[Nth(E \cup {e}, sw_head, n)].skb]
  BY <1>1, <1>11 DEF Queued, EndingIn
<1> DEFINE q == Queued
           r == [n \in 1 .. N + 1 |-> buff_ring[Nth(E \cup {e}, sw_head, n)].skb]
<1>15. \A n \in 1 .. N : r[n] = q[n]
  <2> HIDE DEF E, N
  <2>1. \A n \in 1 .. N : n \in 1 .. N + 1
    BY <1>12
  <2> QED BY <1>12, <1>13, <2>1
<1>16. r[N + 1] = cur.skb
  <2> HIDE DEF E, N
  <2> QED BY <1>7, <1>12, <1>13
<1>17. r \in [1 .. N + 1 -> Names] /\ q \in [1 .. N -> Names]
  <2> HIDE DEF E, N, q
  <2>1. \A n \in 1 .. N + 1 : n \in 1 .. N \/ n = N + 1
    BY <1>12
  <2>2. q \in [1 .. N -> Names] /\ cur.skb \in Names
    BY <1>1, <1>12 DEF q, Names
  <2>3. \A n \in 1 .. N + 1 : r[n] \in Names
    BY <1>15, <1>16, <2>1, <2>2
  <2> QED BY <2>2, <2>3
<1>18. r = Append(q, cur.skb)
  <2> HIDE DEF E, N, q, r
  <2>1. r = Append(q, r[N + 1])
    BY <1>12, <1>15, <1>17, AppendIs
  <2> QED BY <1>16, <2>1
<1>19. Queued' = r
  BY <1>13, <1>14
<1> QED BY <1>3, <1>5, <1>18, <1>19

\* HwFetch sends the packet that ends where the device's head stands, if any.
LEMMA FetchSends ==
    ASSUME RingInv, RingInv', HwFetch
    PROVE  /\ UNCHANGED <<Queued, Held>>
           /\ Sent' = Sent \/ (Sent < Len(Queued) /\ Sent' = Sent + 1)
<1> DEFINE E == Ends(sw_head, reg_head)
           F == Ends(sw_head, reg_tail)
<1>1. /\ reg_head # reg_tail /\ reg_head' = aq_ring_next_dx(reg_head)
      /\ UNCHANGED <<sw_head, reg_tail, buff_ring, skbs>>
  BY DEF HwFetch, ring
<1>2. Queued' = Queued /\ Held' = Held
  BY <1>1, QueuedStays DEF Held
<1>3. /\ \A i \in Dx : D(i) \in Nat /\ D(i) < Size
      /\ {sw_head, reg_head, reg_tail} \subseteq Dx /\ D(reg_head) <= D(reg_tail)
      /\ \A i, j \in Dx : D(i) = D(j) => i = j
  BY DType
<1>4. D(reg_head) < D(reg_tail)
  BY <1>1, <1>3
<1>5. D(reg_head)' = D(reg_head) + 1
  BY <1>1, <1>3, <1>4, DistNextFar, SizeAssumption DEF D
<1>6. E = {i \in Dx : D(i) < D(reg_head) /\ buff_ring[i].eop} /\ E \in SUBSET Dx
  BY <1>3, EndsAre
<1>7. F = {i \in Dx : D(i) < D(reg_tail) /\ buff_ring[i].eop} /\ F \in SUBSET Dx
  BY <1>3, EndsAre
<1>8. Ends(sw_head, reg_head)' = {i \in Dx : D(i) < D(reg_head) + 1 /\ buff_ring[i].eop}
  <2>1. Ends(sw_head, reg_head)' = {i \in Dx : D(i) < D(reg_head)' /\ buff_ring[i].eop}
    BY <1>1 DEF Ends, Slots, D
  <2> QED BY <1>5, <2>1
<1>9. Len(Queued) = Cardinality(F)
  BY QueuedIs
<1>10. CASE ~buff_ring[reg_head].eop
  <2>1. Ends(sw_head, reg_head)' = E
    <3>1. \A i \in Dx : D(i) < D(reg_head) + 1 /\ buff_ring[i].eop
                          <=> D(i) < D(reg_head) /\ buff_ring[i].eop
      BY <1>3, <1>10
    <3> QED BY <1>6, <1>8, <3>1
  <2> QED BY <1>2, <2>1 DEF Sent
<1>11. CASE buff_ring[reg_head].eop
  <2>1. Ends(sw_head, reg_head)' = E \cup {reg_head}
    <3>1. \A i \in Dx : D(i) < D(reg_head) + 1 /\ buff_ring[i].eop
                          <=> (D(i) < D(reg_head) /\ buff_ring[i].eop) \/ i = reg_head
      BY <1>3, <1>11
    <3> QED BY <1>3, <1>6, <1>8, <3>1
  <2>2. \A i \in E : Dist(sw_head, i) < Dist(sw_head, reg_head)
    BY <1>6 DEF D
  <2>3. Cardinality(E \cup {reg_head}) = Cardinality(E) + 1
    BY <1>3, <1>6, <2>2, NthAdd
  <2>4. E \cup {reg_head} \in SUBSET F
    BY <1>3, <1>4, <1>6, <1>7, <1>11
  <2>5. Cardinality(E \cup {reg_head}) <= Cardinality(F)
    BY <1>7, <2>4, SlotSets, FS_Subset
  <2>6. Cardinality(E) \in Nat /\ Cardinality(F) \in Nat
    BY <1>6, <1>7, SlotSets
  <2>7. Sent' = Cardinality(E) + 1 /\ Sent = Cardinality(E)
    BY <2>1, <2>3 DEF Sent
  <2>8. Sent < Len(Queued)
    BY <1>9, <2>3, <2>5, <2>6, <2>7
  <2> QED BY <1>2, <2>7, <2>8
<1> QED BY <1>10, <1>11

\* A round of aq_ring_tx_clean gives back the oldest packet, where one ends.
LEMMA CleanCompletes ==
    ASSUME RingInv, RingInv', PacketInv, aq_ring_tx_clean
    PROVE  \/ UNCHANGED <<Queued, Sent, Held>>
           \/ /\ Sent > 0 /\ Queued' = Tail(Queued) /\ Sent' = Sent - 1
              /\ Held' = Held \ {Head(Queued)}
<1> DEFINE E == Ends(sw_head, reg_tail)
           F == Ends(sw_head, reg_head)
           N == Cardinality(E)
           G == E \ {sw_head}
<1>0. /\ sw_head' = aq_ring_next_dx(sw_head) /\ UNCHANGED <<reg_head, reg_tail>>
      /\ buff_ring' = [buff_ring EXCEPT ![sw_head] = Cleaned(buff_ring[sw_head])]
      /\ buff_ring \in [Dx -> Buffs]
  BY DEF aq_ring_tx_clean, regs, RingInv, TypeInv, TypeOK
<1>1. /\ \A i \in Dx : D(i) \in Nat /\ D(i) < Size /\ (D(i) = 0 <=> i = sw_head)
      /\ {sw_head, reg_head, reg_tail} \subseteq Dx
  BY DType
<1>2. /\ \A i \in Dx \ {sw_head} : D(i)' = D(i) - 1 /\ buff_ring'[i] = buff_ring[i]
      /\ {reg_head, reg_tail} \subseteq Dx \ {sw_head}
  <2>1. D(hw_head) > 0 /\ D(reg_head) > 0 /\ D(reg_tail) > 0
    BY <1>1, CleanIs, DType
  <2> QED BY <1>1, <2>1, CleanIs
<1>3. sw_head' \in Dx /\ Dist(sw_head', sw_head) = Size - 1
  <2>0. sw_head \in Dx
    BY <1>1
  <2>1. sw_head' \in Dx
    BY <1>0, <1>1, NextDx
  <2>2. Dist(sw_head', sw_head) = Size - 1
    BY <1>0, <2>0, SizeAssumption DEF Dist, Dx, aq_ring_next_dx
  <2> QED BY <2>1, <2>2
<1>4. \A i \in Dx : buff_ring'[i].eop = buff_ring[i].eop /\ buff_ring'[i].skb = buff_ring[i].skb
  BY <1>0, <1>1 DEF Cleaned
<1>5. ASSUME NEW b \in Dx \ {sw_head}
      PROVE  {i \in Dx : Dist(sw_head', i) < Dist(sw_head', b) /\ buff_ring'[i].eop}
               = Ends(sw_head, b) \ {sw_head}
  <2>1. \A i \in Dx \ {sw_head} : Dist(sw_head', i) = D(i) - 1
    BY <1>2 DEF D
  <2>2. ASSUME NEW i \in Dx
        PROVE  Dist(sw_head', i) < Dist(sw_head', b) <=> D(i) < D(b) /\ i # sw_head
    <3>1. CASE i = sw_head
      BY <1>1, <1>3, <2>1, <3>1, SizeAssumption
    <3>2. CASE i # sw_head
      BY <1>1, <2>1, <3>2
    <3> QED BY <3>1, <3>2
  <2>3. Ends(sw_head, b) = {i \in Dx : D(i) < D(b) /\ buff_ring[i].eop}
    BY EndsAre
  <2> QED BY <1>4, <2>2, <2>3
<1>6. /\ Ends(sw_head, reg_tail)' = G
      /\ Ends(sw_head, reg_head)' = F \ {sw_head}
  BY <1>0, <1>2, <1>5 DEF Ends, Slots
<1>7. E \in SUBSET Dx /\ F \in SUBSET Dx
  BY <1>1, EndsAre
<1>8. \A i \in Dx \ {sw_head} : Dist(sw_head', i) = Dist(sw_head, i) - 1
  BY <1>2 DEF D
<1>9. /\ N \in Nat /\ Queued \in [1 .. N -> Names]
      /\ \A n \in 1 .. N : Nth(E, sw_head, n) \in E
                           /\ Queued[n] = buff_ring[Nth(E, sw_head, n)].skb
  BY QueuedIs
<1>10. Queued' = [n \in 1 .. Cardinality(G) |-> buff_ring'[Nth(G, sw_head', n)].skb]
  BY <1>6 DEF Queued, EndingIn
<1>11. sw_head \in E <=> buff_ring[sw_head].eop
  BY <1>1, <1>2, EndsAre
<1>12. sw_head \in F <=> buff_ring[sw_head].eop
  BY <1>1, <1>2, EndsAre
<1>13. CASE ~buff_ring[sw_head].eop
  <2>1. G = E /\ F \ {sw_head} = F
    BY <1>11, <1>12, <1>13
  <2>2. \A n \in 1 .. N : Nth(G, sw_head', n) = Nth(E, sw_head, n)
    <3>1. \A i \in E : Dist(sw_head', i) = Dist(sw_head, i) - 1
      BY <1>7, <1>8, <1>11, <1>13
    <3> HIDE DEF E, N, G
    <3>2. \A n \in 1 .. Cardinality(E) : Nth(E, sw_head', n) = Nth(E, sw_head, n)
      BY <1>1, <1>3, <1>7, <3>1, NthShift
    <3> QED BY <2>1, <3>2 DEF N
  <2>3. Queued' = Queued
    <3> HIDE DEF E, G
    <3>1. \A n \in 1 .. N : buff_ring'[Nth(G, sw_head', n)].skb = Queued[n]
      BY <1>4, <1>7, <1>9, <2>2
    <3> QED BY <1>9, <1>10, <2>1, <3>1
  <2>4. Sent' = Sent
    BY <1>6, <2>1 DEF Sent
  <2>5. Held' = Held
    <3>1. skbs' = skbs
      BY <1>13, CleanData
    <3> QED BY <3>1 DEF Held
  <2> QED BY <2>3, <2>4, <2>5
<1>14. CASE buff_ring[sw_head].eop
  <2>1. sw_head \in E /\ sw_head \in F
    BY <1>11, <1>12, <1>14
  <2>2. /\ Cardinality(G) = N - 1 /\ N > 0
        /\ Nth(E, sw_head, 1) = sw_head
        /\ \A n \in 1 .. N - 1 : Nth(G, sw_head', n) = Nth(E, sw_head, n + 1)
    <3>1. \A i \in E \ {sw_head} : Dist(sw_head', i) = Dist(sw_head, i) - 1
      BY <1>7, <1>8
    <3> QED BY <1>3, <1>7, <2>1, <3>1, NthDrop
  <2>3. Cardinality(F \ {sw_head}) = Cardinality(F) - 1 /\ Cardinality(F) > 0
    <3>1. \A i \in F \ {sw_head} : Dist(sw_head', i) = Dist(sw_head, i) - 1
      BY <1>7, <1>8
    <3> QED BY <1>3, <1>7, <2>1, <3>1, NthDrop
  <2>4. Sent > 0 /\ Sent' = Sent - 1
    BY <1>6, <2>3 DEF Sent
  <2> DEFINE q == Queued
             r == [n \in 1 .. N - 1 |-> buff_ring'[Nth(G, sw_head', n)].skb]
  <2>6. \A n \in 1 .. N - 1 : r[n] = q[n + 1]
    <3> HIDE DEF E, N, G
    <3>1. \A n \in 1 .. N - 1 : n + 1 \in 1 .. N
      BY <1>9
    <3>2. \A n \in 1 .. N - 1 : Nth(E, sw_head, n + 1) \in Dx
      BY <1>7, <1>9, <3>1
    <3> QED BY <1>4, <1>9, <2>2, <3>1, <3>2
  <2>5. r \in [1 .. N - 1 -> Names] /\ q \in [1 .. N -> Names]
    <3> HIDE DEF E, N, G, q
    <3>1. q \in [1 .. N -> Names]
      BY <1>9 DEF q
    <3>2. \A n \in 1 .. N - 1 : n + 1 \in 1 .. N
      BY <1>9
    <3>3. \A n \in 1 .. N - 1 : r[n] \in Names
      BY <2>6, <3>1, <3>2
    <3> QED BY <3>1, <3>3
  <2>7. Queued' = r
    <3> HIDE DEF E, N, G
    <3> QED BY <1>10, <2>2
  <2>8. r = Tail(q) /\ Head(q) = q[1]
    <3> HIDE DEF E, N, G, q, r
    <3> QED BY <1>9, <2>2, <2>5, <2>6, TailIs
  <2>9. Head(Queued) = buff_ring[sw_head].skb
    <3> HIDE DEF E, N, G
    <3> QED BY <1>9, <2>2, <2>8 DEF q
  <2>10. PaOf(sw_head) # NoPa /\ buff_ring[sw_head].skb = PaOf(sw_head)[1]
    BY <1>14, CleanIs DEF PacketInv, Forms
  <2>11. Held' = Held \ {Head(Queued)}
    <3>1. /\ skbs' = [skbs EXCEPT ![PaOf(sw_head)[1]] = "stack"] /\ PaOf(sw_head)[1] \in Skbs
          /\ skbs \in [Skbs -> {"stack", "xmit", "driver", "lost"}]
      BY <1>14, <2>10, CleanData DEF RingInv, TypeInv, TypeOK
    <3> QED BY <2>9, <2>10, <3>1 DEF Held
  <2> QED BY <2>4, <2>7, <2>8, <2>11
<1> QED BY <1>13, <1>14

\* A restart forgets what is left.
LEMMA StartResets ==
    ASSUME RingInv, RingInv', aq_nic_start
    PROVE  Queued' = <<>> /\ Sent' = 0 /\ Held' = {}
<1>1. /\ sw_head' = 0 /\ reg_head' = 0 /\ reg_tail' = 0
      /\ skbs' = [s \in Skbs |-> IF skbs[s] = "driver" THEN "lost" ELSE skbs[s]]
  BY DEF aq_nic_start
<1>2. \A i \in Dx : Dist(0, i) \in Nat /\ Dist(0, 0) = 0
  BY DistType, SizeAssumption DEF Dx
<1>3. Ends(sw_head, reg_tail)' = {} /\ Ends(sw_head, reg_head)' = {}
  BY <1>1, <1>2 DEF Ends, Slots
<1>4. Cardinality({}) = 0
  BY FS_EmptySet
<1>5. Queued' = [n \in 1 .. 0 |-> buff_ring'[Nth({}, sw_head', n)].skb]
  BY <1>3, <1>4 DEF Queued, EndingIn
<1>6. Queued' = <<>>
  BY <1>5
<1>7. Held' = {}
  BY <1>1 DEF Held
<1> QED BY <1>3, <1>4, <1>6, <1>7 DEF Sent

\* The ring of aq_ring_init is the empty queue.
LEMMA InitQueue == Init => Queue!Init
<1> SUFFICES ASSUME Init PROVE Queue!Init OBVIOUS
<1>1. sw_head = 0 /\ reg_head = 0 /\ reg_tail = 0 /\ skbs = [s \in Skbs |-> "stack"]
  BY DEF Init
<1>2. \A i \in Dx : Dist(0, i) \in Nat /\ Dist(0, 0) = 0
  BY DistType, SizeAssumption DEF Dx
<1>3. Ends(sw_head, reg_tail) = {} /\ Ends(sw_head, reg_head) = {}
  BY <1>1, <1>2 DEF Ends, Slots
<1>4. Cardinality({}) = 0
  BY FS_EmptySet
<1>5. Queued = [n \in 1 .. 0 |-> buff_ring[Nth({}, sw_head, n)].skb]
  BY <1>3, <1>4 DEF Queued, EndingIn
<1>6. Queued = <<>>
  BY <1>5
<1>7. Sent = 0 /\ Held = {}
  BY <1>1, <1>3, <1>4 DEF Sent, Held
<1> QED BY <1>6, <1>7 DEF Queue!Init, Queued, Sent, Held

\* Each step of the ring is one of the queue's, or none.
LEMMA StepQueue ==
    ASSUME RingInv, RingInv', PacketInv, FifoInv, [Next]_vars
    PROVE  [Queue!Next]_Queue!qvars
<1> SUFFICES \/ UNCHANGED <<Queued, Sent, Held>>
             \/ \E p \in Skbs : /\ p \notin Held /\ Queued' = Append(Queued, p)
                                /\ Held' = Held \cup {p} /\ Sent' = Sent
             \/ UNCHANGED <<Queued, Held>> /\ Sent < Len(Queued) /\ Sent' = Sent + 1
             \/ /\ Sent > 0 /\ Queued' = Tail(Queued) /\ Sent' = Sent - 1
                /\ Held' = Held \ {Head(Queued)}
             \/ Queued' = <<>> /\ Sent' = 0 /\ Held' = {}
  BY DEF Queue!Next, Queue!qvars, Queue!Post, Queue!Send, Queue!Complete, Queue!Reset,
     Queued, Sent, Held
<1>1. CASE tx_ring_tail_update
  BY <1>1, TailPosts
<1>2. CASE HwFetch
  BY <1>2, FetchSends
<1>3. CASE aq_ring_tx_clean
  BY <1>3, CleanCompletes
<1>4. CASE aq_nic_start
  BY <1>4, StartResets
<1>5. CASE UNCHANGED vars
  BY <1>5 DEF vars, ring, regs, Queued, Sent, Held, EndingIn, Ends
<1>6. CASE \/ \E s \in Skbs, sh \in Shapes : XmitEnter(s, sh)
           \/ \E t \in Threads : aq_ring_update_queue_state(t)
           \/ XmitTest \/ \E fail \in FailAt \cup {0} : aq_nic_map_skb(fail)
           \/ hw_ring_tx_xmit \/ hw_ring_tx_head_update \/ CleanReturn
           \/ Link \/ aq_nic_stop
  BY <1>6, QuietQueue
<1> QED BY <1>1, <1>2, <1>3, <1>4, <1>5, <1>6 DEF Next, Xmit, Poll, Life, Threads

(***************************************************************************)
(* Where a poll is not overtaken in aq_ring_update_queue_state and the     *)
(* first piece of a packet can always be mapped, a Tx ring of any size is  *)
(* the queue the stack is promised: aq_ring_tx_clean gives the skbs back   *)
(* in the order of tx_ring_tail_update, each once, and none before the     *)
(* device has fetched its last descriptor.                                 *)
(***************************************************************************)
THEOREM RingIsQueue ==
    ASSUME "poll" \notin Torn, 1 \notin FailAt
    PROVE  Spec => InOrderService
<1>1. Init => RingInv /\ PacketInv /\ FifoInv /\ Queue!Init
  BY InitRing, InitPacket, InitFifo, InitQueue
<1>2. RingInv /\ PacketInv /\ FifoInv /\ [Next]_vars => (RingInv /\ PacketInv /\ FifoInv)'
  BY StepRing, StepPacket, StepFifo
<1>3. RingInv /\ PacketInv /\ FifoInv /\ [Next]_vars => [Queue!Next]_Queue!qvars
  BY <1>2, StepQueue
<1> QED BY <1>1, <1>2, <1>3, PTL DEF Spec, InOrderService, Queue!Spec

=============================================================================

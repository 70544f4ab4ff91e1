---------------------------- MODULE RxRingProofs ----------------------------
(***************************************************************************)
(* Proofs about RxRing, for every ring size, threshold, budget, number of  *)
(* page parts and set of pages.                                            *)
(***************************************************************************)
EXTENDS RxRing, WellFoundedInduction, TLAPS

-----------------------------------------------------------------------------
(* The index arithmetic of the ring, for every size. *)

\* Stepping an index keeps it in the ring (aq_ring_next_dx).
LEMMA NextDx ==
    ASSUME NEW a \in Dx
    PROVE  aq_ring_next_dx(a) \in Dx
  BY SizeAssumption DEF Dx, aq_ring_next_dx

\* A distance is shorter than the ring, and 0 only from a slot to itself.
LEMMA DistType ==
    ASSUME NEW a \in Dx, NEW b \in Dx
    PROVE  /\ Dist(a, b) \in Nat
           /\ Dist(a, b) < Size
           /\ Dist(a, b) = 0 <=> a = b
  BY SizeAssumption DEF Dx, Dist

\* The free slots are those from the tail to just before the head.
LEMMA AvailDist ==
    ASSUME NEW a \in Dx, NEW b \in Dx
    PROVE  aq_ring_avail_dx(a, b) = Size - 1 - Dist(a, b)
  BY SizeAssumption DEF Dx, Dist, aq_ring_avail_dx

\* Moving the far end of a distance by one slot.
LEMMA DistNextFar ==
    ASSUME NEW a \in Dx, NEW b \in Dx, Dist(a, b) < Size - 1
    PROVE  Dist(a, aq_ring_next_dx(b)) = Dist(a, b) + 1
  BY SizeAssumption DEF Dx, Dist, aq_ring_next_dx

\* Moving the near end of a distance by one slot.
LEMMA DistNextNear ==
    ASSUME NEW a \in Dx, NEW b \in Dx, a # b
    PROVE  Dist(aq_ring_next_dx(a), b) = Dist(a, b) - 1
  BY SizeAssumption DEF Dx, Dist, aq_ring_next_dx

\* Two slots at the same distance are the same slot.
LEMMA DistInjective ==
    ASSUME NEW a \in Dx, NEW b \in Dx, NEW c \in Dx, Dist(a, b) = Dist(a, c)
    PROVE  b = c
  BY SizeAssumption DEF Dx, Dist

\* In a ring whose ends differ, the test of the code is one of distances.
LEMMA InRange ==
    ASSUME NEW a \in Dx, NEW i \in Dx, NEW b \in Dx, a # b, aq_ring_dx_in_range(a, i, b)
    PROVE  Dist(a, i) < Dist(a, b)
  BY SizeAssumption DEF aq_ring_dx_in_range, Dist, Dx

\* The slots from a to b, told by their distance from a slot h before both.
LEMMA SlotsFrom ==
    ASSUME NEW h \in Dx, NEW a \in Dx, NEW b \in Dx, NEW i \in Dx, Dist(h, a) <= Dist(h, b)
    PROVE  i \in Slots(a, b) <=> Dist(h, a) <= Dist(h, i) /\ Dist(h, i) < Dist(h, b)
  BY SizeAssumption DEF Slots, Dist, Dx

\* Among some numbers there is a least one.
LEMMA Least ==
    ASSUME NEW T, T \subseteq Nat, T # {}
    PROVE  \E n \in T : \A m \in T : n <= m
<1> DEFINE R == OpToRel(<, Nat)
<1>1. PICK n \in T : \A m \in T : ~(<<m, n>> \in R)
  <2>1. IsWellFoundedOn(R, Nat)
    BY NatLessThanWellFounded
  <2> HIDE DEF R
  <2> QED BY <2>1, WFMin
<1>2. \A m, k \in Nat : m < k => <<m, k>> \in R
  BY DEF OpToRel
<1> HIDE DEF R
<1>3. n \in Nat /\ \A m \in T : m \in Nat /\ ~(m < n)
  BY <1>1, <1>2
<1>4. \A m \in T : n <= m
  BY <1>3
<1> QED BY <1>4

\* Among some slots one is the nearest, and one the farthest.
LEMMA NearestSlot ==
    ASSUME NEW h \in Dx, NEW S, S \subseteq Dx, S # {}
    PROVE  \E i \in S : \A j \in S : Dist(h, i) <= Dist(h, j)
<1> DEFINE T == {Dist(h, i) : i \in S}
<1>1. T \subseteq Nat /\ T # {}
  BY DistType
<1> HIDE DEF T
<1>2. PICK n \in T : \A m \in T : n <= m
  BY <1>1, Least
<1> QED BY <1>2 DEF T

LEMMA FarthestSlot ==
    ASSUME NEW h \in Dx, NEW S, S \subseteq Dx, S # {}
    PROVE  \E i \in S : \A j \in S : Dist(h, j) <= Dist(h, i)
<1> DEFINE T == {Size - Dist(h, i) : i \in S}
<1>0. \A i \in S : Dist(h, i) \in Nat /\ Size - Dist(h, i) \in Nat
  BY DistType, SizeAssumption
<1>1. T \subseteq Nat /\ T # {}
  BY <1>0
<1> HIDE DEF T
<1>2. PICK n \in T : \A m \in T : n <= m
  BY <1>1, Least
<1>3. PICK i \in S : n = Size - Dist(h, i)
  BY <1>2 DEF T
<1>4. \A j \in S : Size - Dist(h, i) <= Size - Dist(h, j)
  BY <1>2, <1>3 DEF T
<1> QED BY <1>0, <1>3, <1>4, SizeAssumption

-----------------------------------------------------------------------------
(* Type correctness.  An skb may reference a buffer of the ring only if    *)
(* the buffer has a page: so has every slot from sw_head to sw_tail.       *)

D(i) == Dist(sw_head, i)
Running == device \in {"up", "init"}

\* Where the poll can be in each part of the ring's life.
Phases ==
    /\ device \in {"down", "freed"} => pc = "idle" /\ sw_head = sw_tail
    /\ device = "init" => pc \in {"fill", "post"} /\ sw_head = 0 /\ hw_head = 0
    /\ device = "stopping" <=> pc = "deinit"
    /\ device # "up" => open = {}

\* The poll takes no descriptor as received that was not filled, and posts
\* only such.
Heads == Running => /\ D(hw_head) <= D(sw_tail)
                    /\ pc \in {"fill", "post"} => /\ D(hw_head) <= D(sw_tail_old)
                                                  /\ D(sw_tail_old) <= D(sw_tail)

\* A slot that was filled and not cleaned yet has a page.
Held == \A i \in Dx : D(i) < D(sw_tail) => buff_ring[i].page # NoPage

BaseInv == TypeOK /\ Phases /\ Heads /\ Held

BuffT == [page : Pages \cup {NoPage}, off : 0 .. Parts - 1, taken : BOOLEAN,
          eop : BOOLEAN, next : Dx, error : BOOLEAN, first : Dx, cleaned : BOOLEAN]

DescT == [addr : Addrs, done : BOOLEAN, wb : Wbs]

LEMMA BuffType ==
    ASSUME NEW page \in Pages \cup {NoPage}, NEW off \in 0 .. Parts - 1,
           NEW taken \in BOOLEAN, NEW cleaned \in BOOLEAN, NEW wb,
           wb.eop \in BOOLEAN, wb.next \in Dx, wb.error \in BOOLEAN, wb.first \in Dx
    PROVE  Buff(page, off, taken, wb, cleaned) \in BuffT
  BY DEF Buff, BuffT

LEMMA NoWbType == NoWb \in Wbs
  BY SizeAssumption DEF NoWb, Wbs, Dx

LEMMA ZeroDx == 0 \in Dx /\ 0 \in 0 .. Parts - 1
  BY SizeAssumption, RxAssumption DEF Dx

LEMMA NoBuffType ==
    ASSUME NEW page \in Pages \cup {NoPage}, NEW off \in 0 .. Parts - 1,
           NEW taken \in BOOLEAN, NEW cleaned \in BOOLEAN
    PROVE  Buff(page, off, taken, NoWb, cleaned) \in BuffT
  BY BuffType, NoWbType DEF Wbs

\* What a buffer record holds.
LEMMA BuffFields ==
    ASSUME NEW page, NEW off, NEW taken, NEW wb, NEW cleaned,
           NEW b, b = Buff(page, off, taken, wb, cleaned)
    PROVE  /\ b.page = page /\ b.off = off /\ b.taken = taken /\ b.cleaned = cleaned
           /\ b.eop = wb.eop /\ b.next = wb.next /\ b.first = wb.first /\ b.error = wb.error
  BY DEF Buff

LEMMA BuffsAre ==
    ASSUME TypeOK
    PROVE  /\ buff_ring \in [Dx -> BuffT] /\ DOMAIN buff_ring = Dx
           /\ \A i \in Dx : buff_ring[i] \in BuffT
  BY DEF TypeOK, BuffT

\* The records the clean leaves differ from b in the taken and cleaned flags.
LEMMA CleanedIs ==
    ASSUME NEW b \in BuffT
    PROVE  /\ Cleaned(b) \in BuffT /\ Cleaned(b).cleaned = TRUE /\ Cleaned(b).page = b.page
           /\ Cleaned(b).off = b.off /\ Cleaned(b).taken = b.taken /\ Cleaned(b).eop = b.eop
           /\ Cleaned(b).next = b.next /\ Cleaned(b).first = b.first
  BY DEF Cleaned, Buff, BuffT

LEMMA TakenIs ==
    ASSUME NEW b \in BuffT
    PROVE  /\ Taken(b) \in BuffT /\ Taken(b).cleaned = b.cleaned /\ Taken(b).page = b.page
           /\ Taken(b).off = b.off /\ Taken(b).taken = Vmklnx /\ Taken(b).eop = b.eop
           /\ Taken(b).next = b.next /\ Taken(b).first = b.first
  BY RxAssumption DEF Taken, Buff, BuffT

LEMMA DType ==
    ASSUME TypeOK
    PROVE  /\ \A i \in Dx : D(i) \in Nat /\ D(i) < Size /\ (D(i) = 0 <=> i = sw_head)
           /\ \A i, j \in Dx : D(i) = D(j) => i = j
           /\ {sw_head, sw_tail, hw_head, reg_head, reg_tail, sw_tail_old} \subseteq Dx
           /\ Avail = Size - 1 - D(sw_tail)
  BY DistType, DistInjective, AvailDist DEF TypeOK, D, Avail

\* One step of sw_head, and of sw_tail.
LEMMA HeadMoves ==
    ASSUME TypeOK, sw_head' = aq_ring_next_dx(sw_head)
    PROVE  /\ sw_head' \in Dx
           /\ \A i \in Dx \ {sw_head} : Dist(sw_head', i) = D(i) - 1
           /\ Dist(sw_head', sw_head) = Size - 1
<1>1. sw_head \in Dx BY DEF TypeOK
<1>2. Dist(sw_head', sw_head) = Size - 1
  BY <1>1, SizeAssumption DEF Dist, Dx, aq_ring_next_dx
<1> QED BY <1>1, <1>2, NextDx, DistNextNear DEF D

LEMMA TailMoves ==
    ASSUME TypeOK, Avail > 0, sw_tail' = aq_ring_next_dx(sw_tail)
    PROVE  /\ sw_tail' \in Dx /\ Dist(sw_head, sw_tail') = D(sw_tail) + 1
           /\ D(sw_tail) < Size - 1
<1>1. sw_tail \in Dx /\ sw_head \in Dx /\ D(sw_tail) \in Nat /\ Avail = Size - 1 - D(sw_tail)
  BY DType
<1>2. D(sw_tail) < Size - 1
  BY <1>1, SizeAssumption
<1> QED BY <1>1, <1>2, NextDx, DistNextFar DEF D

\* Chain is the least set that follows next from slot i.
LEMMA ChainIs ==
    ASSUME TypeOK, NEW i \in Dx
    PROVE  /\ Chain(i) \subseteq Dx /\ Follows(Chain(i), i)
           /\ \A S \in SUBSET Dx : Follows(S, i) => Chain(i) \subseteq S
<1>1. \A j \in Dx : buff_ring[j].next \in Dx
  BY DEF TypeOK
<1> QED BY <1>1 DEF Chain, Follows

\* The slots of a completed chain lie between sw_head and hw_head.
LEMMA ChainInRing ==
    ASSUME TypeOK, Cleaning, IsRscCompleted(Chain(sw_head)), NEW j \in Chain(sw_head)
    PROVE  j \in Dx /\ D(j) < D(hw_head)
<1>1. sw_head \in Dx /\ hw_head \in Dx /\ sw_head # hw_head
  BY DEF TypeOK, Cleaning
<1>2. j \in Dx
  BY <1>1, ChainIs
<1>3. CASE j = sw_head
  BY <1>1, <1>3, DType
<1>4. CASE j # sw_head
  BY <1>1, <1>2, <1>4, InRange DEF IsRscCompleted, D
<1> QED BY <1>2, <1>3, <1>4

LEMMA InitBase == Init => BaseInv
<1> SUFFICES ASSUME Init PROVE BaseInv OBVIOUS
<1>1. /\ buff_ring = [i \in Dx |-> Buff(NoPage, 0, FALSE, NoWb, FALSE)]
      /\ Buff(NoPage, 0, FALSE, NoWb, FALSE) \in BuffT
  BY NoBuffType, ZeroDx DEF Init
<1>2. buff_ring \in [Dx -> BuffT]
  BY <1>1
<1>3. dx_ring \in [Dx -> DescT]
  BY NoWbType DEF Init, Posted, Addrs, DescT
<1>4. /\ sw_head = 0 /\ sw_tail = 0 /\ hw_head = 0 /\ reg_head = 0 /\ reg_tail = 0
      /\ open = {} /\ ringref = {} /\ skbrefs = {} /\ pc = "idle" /\ budget = Budget
      /\ sw_tail_old = 0 /\ device = "down"
  BY DEF Init
<1>5. TypeOK
  BY <1>2, <1>3, <1>4, ZeroDx, RxAssumption DEF TypeOK, BuffT, DescT
<1>6. D(sw_tail) = 0 /\ D(hw_head) = 0 /\ \A i \in Dx : D(i) \in Nat
  BY <1>4, <1>5, DType
<1>7. Phases /\ Heads
  BY <1>4 DEF Phases, Heads, Running
<1>8. Held
  BY <1>6 DEF Held
<1> QED BY <1>5, <1>7, <1>8 DEF BaseInv

\* Steps that move no index and touch neither buffers nor descriptors.
LEMMA QuietBase ==
    ASSUME BaseInv,
           \/ PollStart \/ ReceiveReturn \/ CleanNoMem \/ CleanReturn \/ FillReturn
           \/ DeinitReturn \/ aq_ring_free \/ aq_vec_stop
           \/ \E a \in skbrefs : StackFree(a)
           \/ UNCHANGED vars
    PROVE  BaseInv'
<1> USE DEF ring, regs, mem, poll
<1>1. /\ UNCHANGED <<sw_head, sw_tail, hw_head, buff_ring, dx_ring, reg_head, reg_tail, ringref>>
      /\ skbrefs' \subseteq skbrefs /\ open' \subseteq open
      /\ budget' \in {budget, Budget} /\ sw_tail_old' \in {sw_tail_old, sw_tail}
      /\ device' = "up" => device = "up"
  BY DEF PollStart, ReceiveReturn, CleanNoMem, CleanReturn, FillReturn, DeinitReturn,
     aq_ring_free, aq_vec_stop, StackFree, vars
<1>2. /\ pc' \in {"idle", "receive", "clean", "fill", "post", "deinit"}
      /\ device' \in {"down", "init", "up", "stopping", "freed"}
      /\ Phases' /\ (Running' => Running)
      /\ pc' \in {"fill", "post"} =>
            \/ sw_tail_old' = sw_tail
            \/ (pc \in {"fill", "post"} /\ sw_tail_old' = sw_tail_old)
  BY DEF PollStart, ReceiveReturn, CleanNoMem, CleanReturn, FillReturn, DeinitReturn,
     aq_ring_free, aq_vec_stop, StackFree, vars, BaseInv, Phases, TypeOK, Running, Cleaning
<1>3. TypeOK'
  BY <1>1, <1>2, RxAssumption DEF BaseInv, TypeOK
<1>4. Heads'
  <2>1. D(sw_tail) \in Nat
    BY DType DEF BaseInv
  <2>2. D(sw_tail)' = D(sw_tail) /\ D(hw_head)' = D(hw_head)
        /\ D(sw_tail_old)' = Dist(sw_head, sw_tail_old')
    BY <1>1 DEF D
  <2>3. ASSUME Running', pc' \in {"fill", "post"} 
        PROVE  D(hw_head)' <= D(sw_tail_old)' /\ D(sw_tail_old)' <= D(sw_tail)'
    <3>1. CASE sw_tail_old' = sw_tail
      BY <1>2, <2>1, <2>2, <2>3, <3>1 DEF D, BaseInv, Heads
    <3>2. CASE pc \in {"fill", "post"} /\ sw_tail_old' = sw_tail_old
      BY <1>2, <2>2, <2>3, <3>2 DEF BaseInv, Heads, D
    <3> QED BY <1>2, <2>3, <3>1, <3>2
  <2> QED BY <1>2, <2>2, <2>3 DEF BaseInv, Heads
<1> QED BY <1>1, <1>2, <1>3, <1>4 DEF BaseInv, Held, D

LEMMA DescType ==
    ASSUME NEW addr \in Addrs, NEW done \in BOOLEAN, NEW wb \in Wbs
    PROVE  [addr |-> addr, done |-> done, wb |-> wb] \in DescT
  BY DEF DescT

\* A descriptor of the device's write-back is well formed.
LEMMA DoneType ==
    ASSUME NEW eop \in BOOLEAN, NEW next \in Dx, NEW error \in BOOLEAN, NEW first \in Dx
    PROVE  Done([eop |-> eop, next |-> next, error |-> error, first |-> first])
             \in DescT
<1>1. [eop |-> eop, next |-> next, error |-> error, first |-> first] \in Wbs
  BY DEF Wbs
<1>2. NoAddr \in Addrs
  BY DEF Addrs
<1> QED BY <1>1, <1>2, DescType DEF Done

LEMMA DeviceBase ==
    ASSUME BaseInv, Device
    PROVE  BaseInv'
<1> USE DEF ring, mem, poll
<1>0. /\ reg_head \in Dx /\ open \subseteq [first : Dx, last : Dx]
      /\ dx_ring \in [Dx -> DescT]
  BY DEF BaseInv, TypeOK, DescT
<1>1. /\ UNCHANGED <<sw_head, sw_tail, hw_head, buff_ring, reg_tail, ringref, skbrefs, pc,
                     budget, sw_tail_old, device>>
      /\ device = "up"
  BY DEF Device, HwStart, HwContinue, HwEnd
<1>2. reg_head' \in Dx
  BY <1>0, NextDx DEF Device, HwStart, HwContinue, HwEnd
<1>3. open' \subseteq [first : Dx, last : Dx]
  <2>1. CASE HwStart
    BY <1>0, <2>1 DEF HwStart
  <2>2. ASSUME NEW p \in open, HwContinue(p) PROVE open' \subseteq [first : Dx, last : Dx]
    <3>1. [first |-> p.first, last |-> reg_head] \in [first : Dx, last : Dx]
      BY <1>0
    <3> QED BY <1>0, <2>2, <3>1 DEF HwContinue
  <2>3. ASSUME NEW p \in open, NEW error \in BOOLEAN, HwEnd(p, error)
        PROVE  open' \subseteq [first : Dx, last : Dx]
    BY <1>0, <2>3 DEF HwEnd
  <2> QED BY <2>1, <2>2, <2>3 DEF Device
<1>4. dx_ring' \in [Dx -> DescT]
  <2>1. CASE HwStart
    BY <1>0, <2>1 DEF HwStart
  <2>2. ASSUME NEW p \in open, HwContinue(p) PROVE dx_ring' \in [Dx -> DescT]
    <3>1. p.first \in Dx /\ p.last \in Dx
      BY <1>0
    <3> DEFINE w == Done([eop |-> FALSE, next |-> reg_head, error |-> FALSE, first |-> p.first])
    <3>2. w \in DescT
      BY <1>0, <3>1, DoneType
    <3>3. dx_ring' = [dx_ring EXCEPT ![p.last] = w]
      BY <2>2 DEF HwContinue
    <3> HIDE DEF w
    <3> QED BY <1>0, <3>2, <3>3
  <2>3. ASSUME NEW p \in open, NEW error \in BOOLEAN, HwEnd(p, error) PROVE dx_ring' \in [Dx -> DescT]
    <3>1. p.first \in Dx /\ p.last \in Dx
      BY <1>0
    <3> DEFINE w == Done([eop |-> TRUE, next |-> 0, error |-> error, first |-> p.first])
    <3>2. w \in DescT
      BY <3>1, DoneType, ZeroDx
    <3>3. dx_ring' = [dx_ring EXCEPT ![p.last] = w]
      BY <2>3 DEF HwEnd
    <3> HIDE DEF w
    <3> QED BY <1>0, <3>2, <3>3
  <2> QED BY <2>1, <2>2, <2>3 DEF Device
<1>5. TypeOK'
  BY <1>1, <1>2, <1>3, <1>4 DEF BaseInv, TypeOK, DescT
<1> QED BY <1>1, <1>5 DEF BaseInv, Phases, Heads, Held, Running, D

\* A round of hw_ring_rx_receive: a buffer keeps its page.
LEMMA ReceivePages ==
    ASSUME BaseInv, hw_ring_rx_receive
    PROVE  /\ UNCHANGED <<sw_head, sw_tail, dx_ring, reg_head, reg_tail, open, ringref, skbrefs, pc,
                          budget, sw_tail_old, device>>
           /\ pc = "receive" /\ hw_head # sw_tail /\ dx_ring[hw_head].done
           /\ hw_head' = aq_ring_next_dx(hw_head)
           /\ buff_ring' \in [Dx -> BuffT]
           /\ \A i \in Dx : /\ buff_ring'[i].page = buff_ring[i].page
                            /\ buff_ring'[i].off = buff_ring[i].off
                            /\ buff_ring'[i].taken = buff_ring[i].taken
                            /\ i # hw_head => buff_ring'[i] = buff_ring[i]
           /\ buff_ring'[hw_head].cleaned = FALSE
           /\ buff_ring'[hw_head].eop = dx_ring[hw_head].wb.eop
           /\ buff_ring'[hw_head].next = dx_ring[hw_head].wb.next
           /\ buff_ring'[hw_head].first = dx_ring[hw_head].wb.first
           /\ Running /\ {hw_head, sw_tail} \subseteq Dx
           /\ D(hw_head) < D(sw_tail) /\ D(hw_head)' = D(hw_head) + 1
<1> USE DEF regs, mem, poll
<1> DEFINE b == buff_ring[hw_head]
           n == Buff(b.page, b.off, b.taken, dx_ring[hw_head].wb, FALSE)
<1>1. /\ UNCHANGED <<sw_head, sw_tail, dx_ring, reg_head, reg_tail, open, ringref, skbrefs, pc,
                     budget, sw_tail_old, device>>
      /\ pc = "receive" /\ hw_head # sw_tail /\ dx_ring[hw_head].done
      /\ hw_head' = aq_ring_next_dx(hw_head)
      /\ buff_ring' = [buff_ring EXCEPT ![hw_head] = n]
  BY DEF hw_ring_rx_receive, RxdDone
<1>2. /\ TypeOK /\ hw_head \in Dx /\ sw_tail \in Dx /\ dx_ring[hw_head].wb \in Wbs /\ b \in BuffT
      /\ buff_ring \in [Dx -> BuffT]
  BY BuffsAre DEF BaseInv, TypeOK
<1>3. /\ n \in BuffT /\ n.page = b.page /\ n.off = b.off /\ n.taken = b.taken /\ n.cleaned = FALSE
      /\ n.eop = dx_ring[hw_head].wb.eop /\ n.next = dx_ring[hw_head].wb.next
      /\ n.first = dx_ring[hw_head].wb.first
  <2> DEFINE w == dx_ring[hw_head].wb
  <2>1. b \in BuffT /\ w \in Wbs /\ n = Buff(b.page, b.off, b.taken, w, FALSE)
    BY <1>2
  <2> HIDE DEF b, w, n
  <2>2. /\ n \in BuffT /\ n.page = b.page /\ n.off = b.off /\ n.taken = b.taken /\ n.cleaned = FALSE
        /\ n.eop = w.eop /\ n.next = w.next /\ n.first = w.first
    BY <2>1 DEF Buff, BuffT, Wbs
  <2> QED BY <2>2 DEF w
<1> HIDE DEF n
<1>4. buff_ring' \in [Dx -> BuffT] /\ buff_ring'[hw_head] = n
  BY <1>1, <1>2, <1>3
<1>5. \A i \in Dx : i # hw_head => buff_ring'[i] = buff_ring[i]
  BY <1>1, <1>2
<1>6. \A i \in Dx : /\ buff_ring'[i].page = buff_ring[i].page
                    /\ buff_ring'[i].off = buff_ring[i].off
                    /\ buff_ring'[i].taken = buff_ring[i].taken
  BY <1>3, <1>4, <1>5
<1>7. Running
  BY <1>1 DEF BaseInv, Phases, TypeOK, Running
<1>8. D(hw_head) < D(sw_tail) /\ D(hw_head) \in Nat /\ D(sw_tail) \in Nat /\ D(sw_tail) < Size
  BY <1>1, <1>2, <1>7, DType DEF BaseInv, Heads
<1>9. D(hw_head)' = D(hw_head) + 1
  <2>1. Dist(sw_head, hw_head) < Size - 1 /\ sw_head \in Dx
    BY <1>2, <1>8, SizeAssumption DEF D, TypeOK
  <2> QED BY <1>1, <1>2, <2>1, DistNextFar DEF D
<1> QED BY <1>1, <1>2, <1>3, <1>4, <1>5, <1>6, <1>7, <1>8, <1>9

LEMMA ReceiveBase ==
    ASSUME BaseInv, hw_ring_rx_receive
    PROVE  BaseInv'
<1>1. hw_head' \in Dx
  BY ReceivePages, NextDx
<1>2. TypeOK'
  <2>1. /\ UNCHANGED <<sw_head, sw_tail, dx_ring, reg_head, reg_tail, open, ringref, skbrefs, pc,
                       budget, sw_tail_old, device>>
        /\ buff_ring' \in [Dx -> BuffT]
    BY ReceivePages
  <2> QED BY <1>1, <2>1 DEF BaseInv, TypeOK, BuffT
<1>3. Heads'
  <2>1. D(hw_head) \in Nat /\ D(sw_tail) \in Nat /\ D(sw_tail)' = D(sw_tail)
    BY ReceivePages, DType DEF BaseInv, D
  <2> QED BY <2>1, ReceivePages DEF Heads
<1>4. Phases'
  BY ReceivePages DEF BaseInv, Phases
<1>5. Held'
  BY ReceivePages DEF BaseInv, Held, D
<1> QED BY <1>2, <1>3, <1>4, <1>5 DEF BaseInv

\* What a round of the loop of aq_ring_rx_clean does to the buffers.
LEMMA CleanIs ==
    ASSUME BaseInv, CleanSkip \/ CleanError \/ (\E copied \in BOOLEAN : CleanDeliver(copied))
    PROVE  /\ Cleaning /\ Running /\ sw_head' = aq_ring_next_dx(sw_head)
           /\ UNCHANGED <<sw_tail, hw_head, dx_ring, reg_head, reg_tail, open, pc,
                          sw_tail_old, device>>
           /\ budget' = budget - 1
           /\ buff_ring' \in [Dx -> BuffT]
           /\ \A i \in Dx : /\ buff_ring'[i].page = buff_ring[i].page
                            /\ buff_ring'[i].off = buff_ring[i].off
                            /\ buff_ring'[i].eop = buff_ring[i].eop
                            /\ buff_ring'[i].next = buff_ring[i].next
                            /\ buff_ring'[i].first = buff_ring[i].first
           /\ D(sw_head) = 0 /\ D(hw_head) \in Nat \ {0}
<1> USE DEF regs, mem
<1>1. /\ Cleaning /\ NextSlot
  BY DEF CleanSkip, CleanError, CleanDeliver
<1>2. TypeOK /\ Running
  BY <1>1 DEF BaseInv, Phases, TypeOK, Running, Cleaning
<1>3. D(sw_head) = 0 /\ D(hw_head) \in Nat \ {0}
  BY <1>1, <1>2, DType DEF Cleaning
<1> DEFINE Same(f) == /\ f \in [Dx -> BuffT]
                      /\ \A i \in Dx : /\ f[i].page = buff_ring[i].page
                                       /\ f[i].off = buff_ring[i].off
                                       /\ f[i].eop = buff_ring[i].eop
                                       /\ f[i].next = buff_ring[i].next
                                       /\ f[i].first = buff_ring[i].first
<1>4. CASE CleanSkip
  BY <1>1, <1>2, <1>3, <1>4, BuffsAre DEF CleanSkip, NextSlot
<1>5. CASE CleanError
  <2>1. buff_ring' = [j \in Dx |-> IF j \in Chain(sw_head) \ {sw_head}
                                   THEN Cleaned(buff_ring[j]) ELSE buff_ring[j]]
    BY <1>5 DEF CleanError
  <2>2. Same(buff_ring')
    BY <1>2, <2>1, CleanedIs, BuffsAre
  <2> QED BY <1>1, <1>2, <1>3, <2>2 DEF NextSlot
<1>6. ASSUME NEW copied \in BOOLEAN, CleanDeliver(copied) PROVE Same(buff_ring')
  <2> DEFINE C == Chain(sw_head)
             R == IF copied THEN C \ {sw_head} ELSE C
             g(j) == IF j \in R THEN Taken(buff_ring[j]) ELSE buff_ring[j]
  <2>1. buff_ring' = [j \in Dx |-> IF j \in C \ {sw_head} THEN Cleaned(g(j)) ELSE g(j)]
    BY <1>6 DEF CleanDeliver
  <2>2. \A j \in Dx : /\ g(j) \in BuffT /\ g(j).page = buff_ring[j].page
                      /\ g(j).off = buff_ring[j].off /\ g(j).eop = buff_ring[j].eop
                      /\ g(j).next = buff_ring[j].next /\ g(j).first = buff_ring[j].first
    BY <1>2, TakenIs, BuffsAre
  <2> HIDE DEF R, g
  <2> DEFINE h(j) == IF j \in C \ {sw_head} THEN Cleaned(g(j)) ELSE g(j)
  <2>3. \A j \in Dx : /\ h(j) \in BuffT /\ h(j).page = buff_ring[j].page
                      /\ h(j).off = buff_ring[j].off /\ h(j).eop = buff_ring[j].eop
                      /\ h(j).next = buff_ring[j].next /\ h(j).first = buff_ring[j].first
    BY <2>2, CleanedIs
  <2>4. buff_ring' = [j \in Dx |-> h(j)]
    BY <2>1
  <2> HIDE DEF h
  <2> QED BY <2>3, <2>4
<1> QED BY <1>1, <1>2, <1>3, <1>4, <1>5, <1>6 DEF NextSlot

LEMMA CleanBase ==
    ASSUME BaseInv, CleanSkip \/ CleanError \/ (\E copied \in BOOLEAN : CleanDeliver(copied))
    PROVE  BaseInv'
<1>0. TypeOK /\ Cleaning /\ Running
  BY CleanIs DEF BaseInv
<1>1. skbrefs' \subseteq Pages \X (0 .. Parts - 1) /\ ringref' \subseteq Pages
  <2>1. CASE CleanSkip \/ CleanError
    BY <1>0, <2>1 DEF TypeOK, CleanSkip, CleanError, mem
  <2>2. ASSUME NEW copied \in BOOLEAN, CleanDeliver(copied)
        PROVE  skbrefs' \subseteq Pages \X (0 .. Parts - 1) /\ ringref' \subseteq Pages
    <3> DEFINE C == Chain(sw_head)
               R == IF copied THEN C \ {sw_head} ELSE C
    <3>1. /\ skbrefs' = skbrefs \cup {aq_buf_daddr(buff_ring[j]) : j \in R}
          /\ ringref' \subseteq ringref
          /\ IsRscCompleted(C) /\ R \subseteq C
      BY <2>2 DEF CleanDeliver
    <3> HIDE DEF R
    <3>2. ASSUME NEW j \in R
          PROVE  aq_buf_daddr(buff_ring[j]) \in Pages \X (0 .. Parts - 1)
      <4>1. j \in Dx /\ D(j) < D(hw_head)
        BY <1>0, <3>1, ChainInRing
      <4>2. D(hw_head) <= D(sw_tail) /\ {D(j), D(hw_head), D(sw_tail)} \subseteq Nat
        BY <1>0, <4>1, DType DEF BaseInv, Heads
      <4>3. D(j) < D(sw_tail)
        BY <4>1, <4>2
      <4>4. buff_ring[j].page # NoPage /\ buff_ring[j] \in BuffT
        BY <1>0, <4>1, <4>3, BuffsAre DEF BaseInv, Held
      <4> QED BY <4>4 DEF aq_buf_daddr, BuffT
    <3> QED BY <1>0, <3>1, <3>2 DEF TypeOK
  <2> QED BY <2>1, <2>2
<1>2. sw_head' \in Dx /\ budget' \in 0 .. Budget
  <2>1. sw_head' \in Dx
    BY <1>0, CleanIs, HeadMoves
  <2>2. budget' = budget - 1 /\ budget > 0 /\ budget \in 0 .. Budget
    BY <1>0, CleanIs DEF TypeOK, Cleaning
  <2> QED BY <2>1, <2>2, RxAssumption
<1>3. TypeOK'
  BY <1>0, <1>1, <1>2, CleanIs DEF TypeOK, BuffT
<1>4. Phases'
  BY <1>0, CleanIs DEF BaseInv, Phases, Cleaning
<1>5. D(hw_head) \in Nat /\ D(hw_head) <= D(sw_tail) /\ D(sw_tail) \in Nat
      /\ sw_tail # sw_head /\ hw_head # sw_head /\ {sw_tail, hw_head} \subseteq Dx
  BY <1>0, CleanIs, DType DEF BaseInv, Heads
<1>6. D(hw_head)' = D(hw_head) - 1 /\ D(sw_tail)' = D(sw_tail) - 1
  BY <1>0, <1>5, CleanIs, HeadMoves DEF D
<1>7. Heads'
  BY <1>0, <1>5, <1>6, CleanIs DEF Heads, Cleaning
<1>8. ASSUME NEW i \in Dx, D(i)' < D(sw_tail)' PROVE buff_ring'[i].page # NoPage
  <2>1. i # sw_head
    <3>1. Dist(sw_head', sw_head) = Size - 1 /\ D(sw_tail) < Size
      BY <1>0, <1>5, CleanIs, HeadMoves, DType
    <3>2. Dist(sw_head', i) < D(sw_tail) - 1
      BY <1>6, <1>8 DEF D
    <3> QED BY <1>5, <3>1, <3>2, SizeAssumption
  <2>2. D(i)' = D(i) - 1 /\ D(i) \in Nat
    BY <1>0, <2>1, CleanIs, HeadMoves, DType DEF D
  <2>3. D(i) < D(sw_tail)
    BY <1>5, <1>6, <1>8, <2>2
  <2> QED BY <2>3, CleanIs DEF BaseInv, Held
<1> QED BY <1>3, <1>4, <1>7, <1>8 DEF BaseInv, Held

\* A round of aq_ring_rx_fill, whichever page the slot gets.
LEMMA FillBase ==
    ASSUME BaseInv, Filling, NEW page \in Pages, NEW off \in 0 .. Parts - 1, Fill(page, off),
           ringref' \subseteq Pages
    PROVE  BaseInv'
<1> USE DEF regs, poll
<1> DEFINE n == Buff(page, off, FALSE, NoWb, FALSE)
<1>1. /\ UNCHANGED <<sw_head, hw_head, dx_ring, reg_head, reg_tail, open, skbrefs, pc, budget,
                     sw_tail_old, device>>
      /\ buff_ring' = [buff_ring EXCEPT ![sw_tail] = n]
      /\ sw_tail' = aq_ring_next_dx(sw_tail) /\ pc = "fill" /\ Avail > 0
  BY DEF Fill, Filling
<1>2. n \in BuffT /\ n.page # NoPage
  <2>1. n.page = page
    BY DEF Buff
  <2> QED BY <2>1, NoBuffType, RxAssumption
<1> HIDE DEF n
<1>3. TypeOK /\ sw_tail \in Dx /\ buff_ring \in [Dx -> BuffT]
  BY BuffsAre DEF BaseInv, TypeOK
<1>4. sw_tail' \in Dx /\ Dist(sw_head, sw_tail') = D(sw_tail) + 1
  BY <1>1, <1>3, TailMoves
<1>5. buff_ring' \in [Dx -> BuffT]
  BY <1>1, <1>2, <1>3
<1>6. TypeOK'
  BY <1>1, <1>3, <1>4, <1>5 DEF TypeOK, BuffT
<1>7. Phases'
  BY <1>1 DEF BaseInv, Phases
<1>8. D(sw_tail)' = D(sw_tail) + 1 /\ D(hw_head)' = D(hw_head) /\ D(sw_tail) \in Nat
      /\ D(hw_head) \in Nat
  BY <1>1, <1>3, <1>4, DType DEF D
<1>9. Heads'
  <2>1. D(sw_tail_old)' = D(sw_tail_old) /\ D(sw_tail_old) \in Nat
    BY <1>1, <1>3, DType DEF D
  <2> QED BY <1>1, <1>8, <2>1 DEF BaseInv, Heads, Running
<1>10. ASSUME NEW i \in Dx, D(i)' < D(sw_tail)' PROVE buff_ring'[i].page # NoPage
  <2>1. CASE i = sw_tail
    BY <1>1, <1>2, <1>3, <2>1
  <2>2. CASE i # sw_tail
    <3>1. D(i) # D(sw_tail) /\ D(i) \in Nat /\ D(i)' = D(i)
      BY <1>1, <1>3, <2>2, DType DEF D
    <3>2. D(i) < D(sw_tail)
      BY <1>8, <1>10, <3>1
    <3> QED BY <1>1, <1>3, <2>2, <3>2 DEF BaseInv, Held
  <2> QED BY <2>1, <2>2
<1> QED BY <1>6, <1>7, <1>9, <1>10 DEF BaseInv, Held

\* Every successful round of aq_ring_rx_fill is one of FillBase.
LEMMA FillIs ==
    ASSUME BaseInv, FillReuse \/ FillFlip \/ \E page \in Pages : FillAlloc(page)
    PROVE  /\ Filling /\ ringref' \subseteq Pages
           /\ \E page \in Pages, off \in 0 .. Parts - 1 : Fill(page, off)
<1>1. buff_ring[sw_tail] \in BuffT /\ ringref \subseteq Pages
  BY BuffsAre DEF BaseInv, TypeOK
<1>2. CASE FillReuse
  <2>1. PICK b \in BuffT : b = buff_ring[sw_tail] /\ b.page # NoPage
                           /\ Fill(b.page, IF Vmklnx THEN b.off ELSE 0)
    BY <1>1, <1>2 DEF FillReuse
  <2>2. b.page \in Pages /\ (IF Vmklnx THEN b.off ELSE 0) \in 0 .. Parts - 1
    BY <2>1, ZeroDx DEF BuffT
  <2> QED BY <1>1, <1>2, <2>1, <2>2 DEF FillReuse
<1>3. CASE FillFlip
  <2>1. PICK b \in BuffT : b = buff_ring[sw_tail] /\ b.page # NoPage /\ b.off + 1 < Parts
                           /\ Fill(b.page, b.off + 1)
    BY <1>1, <1>3 DEF FillFlip
  <2>2. b.page \in Pages /\ b.off + 1 \in 0 .. Parts - 1
    BY <2>1, RxAssumption DEF BuffT
  <2> QED BY <1>1, <1>3, <2>1, <2>2 DEF FillFlip
<1>4. ASSUME NEW page \in Pages, FillAlloc(page)
      PROVE  Filling /\ ringref' \subseteq Pages /\ Fill(page, 0)
  BY <1>1, <1>4 DEF FillAlloc, Kept
<1> QED BY <1>2, <1>3, <1>4, ZeroDx

LEMMA NoMemBase ==
    ASSUME BaseInv, FillNoMem
    PROVE  BaseInv'
<1> USE DEF ring, regs
<1> DEFINE b == buff_ring[sw_tail]
           n == Buff(IF Vmklnx THEN b.page ELSE NoPage, b.off, b.taken, NoWb, FALSE)
<1>1. /\ UNCHANGED <<sw_head, sw_tail, hw_head, dx_ring, reg_head, reg_tail, open, skbrefs,
                     budget, sw_tail_old>>
      /\ buff_ring' = [buff_ring EXCEPT ![sw_tail] = n]
      /\ ringref' \subseteq ringref /\ pc = "fill" /\ pc' = "idle" /\ device' = "up"
  BY DEF FillNoMem, Filling, Kept
<1>2. TypeOK /\ sw_tail \in Dx /\ buff_ring \in [Dx -> BuffT] /\ b \in BuffT
  BY BuffsAre DEF BaseInv, TypeOK
<1>3. n \in BuffT
  <2>1. b.page \in Pages \cup {NoPage} /\ b.off \in 0 .. Parts - 1 /\ b.taken \in BOOLEAN
    BY <1>2 DEF BuffT
  <2> HIDE DEF b
  <2> QED BY <2>1, NoBuffType
<1> HIDE DEF n
<1>4. Running
  BY <1>1, <1>2 DEF BaseInv, Phases, Running, TypeOK
<1>5. TypeOK'
  BY <1>1, <1>2, <1>3 DEF TypeOK, BuffT
<1>6. Phases' /\ Heads'
  BY <1>1, <1>4 DEF BaseInv, Phases, Heads, D
<1>7. Held'
  <2> SUFFICES ASSUME NEW i \in Dx, D(i)' < D(sw_tail)' PROVE buff_ring'[i].page # NoPage
    BY DEF Held
  <2>1. D(i)' = D(i) /\ D(sw_tail)' = D(sw_tail) /\ D(sw_tail) \in Nat
    BY <1>1, <1>2, DType DEF D
  <2>2. i # sw_tail
    BY <2>1
  <2> QED BY <1>1, <1>2, <2>1, <2>2 DEF BaseInv, Held
<1> QED BY <1>5, <1>6, <1>7 DEF BaseInv

LEMMA PostBase ==
    ASSUME BaseInv, hw_ring_rx_fill
    PROVE  BaseInv'
<1> USE DEF ring, mem
<1>1. /\ UNCHANGED <<sw_head, sw_tail, hw_head, buff_ring, reg_head, open, ringref, skbrefs,
                     budget, sw_tail_old>>
      /\ reg_tail' = sw_tail /\ pc = "post" /\ pc' = "idle" /\ device' = "up"
  BY DEF hw_ring_rx_fill
<1>2. TypeOK /\ Running /\ dx_ring \in [Dx -> DescT]
  BY <1>1 DEF BaseInv, TypeOK, DescT, Phases, Running
<1>3. \A i \in Slots(sw_tail_old, sw_tail) : Posted(aq_buf_daddr(buff_ring[i])) \in DescT
  <2> SUFFICES ASSUME NEW i \in Slots(sw_tail_old, sw_tail)
               PROVE  Posted(aq_buf_daddr(buff_ring[i])) \in DescT
    OBVIOUS
  <2>1. i \in Dx /\ {sw_head, sw_tail_old, sw_tail} \subseteq Dx
    BY <1>2, DType DEF Slots
  <2>2. D(sw_tail_old) <= D(sw_tail)
    BY <1>1, <1>2 DEF BaseInv, Heads
  <2>3. D(i) < D(sw_tail)
    BY <2>1, <2>2, SlotsFrom DEF D
  <2>4. buff_ring[i].page # NoPage /\ buff_ring[i] \in BuffT
    BY <1>2, <2>1, <2>3, BuffsAre DEF BaseInv, Held
  <2>5. aq_buf_daddr(buff_ring[i]) \in Addrs
    BY <2>4 DEF aq_buf_daddr, Addrs, BuffT
  <2> QED BY <2>5, NoWbType, DescType DEF Posted
<1>4. dx_ring' \in [Dx -> DescT]
  BY <1>2, <1>3 DEF hw_ring_rx_fill
<1>5. TypeOK'
  BY <1>1, <1>2, <1>4 DEF TypeOK, DescT
<1> QED BY <1>1, <1>2, <1>5 DEF BaseInv, Phases, Heads, Held, D

LEMMA StartBase ==
    ASSUME BaseInv, aq_vec_init
    PROVE  BaseInv'
<1> USE DEF mem
<1>1. /\ sw_head' = 0 /\ sw_tail' = 0 /\ hw_head' = 0 /\ reg_head' = 0 /\ reg_tail' = 0
      /\ sw_tail_old' = 0 /\ pc' = "fill" /\ device' = "init" /\ device = "down"
      /\ UNCHANGED <<buff_ring, dx_ring, open, ringref, skbrefs, budget>>
  BY DEF aq_vec_init
<1>2. TypeOK'
  BY <1>1, ZeroDx DEF BaseInv, TypeOK
<1>3. D(sw_tail)' = 0 /\ D(hw_head)' = 0 /\ D(sw_tail_old)' = 0 /\ \A i \in Dx : Dist(0, i) \in Nat
  BY <1>1, ZeroDx, DistType DEF D
<1>4. Held'
  BY <1>1, <1>3 DEF Held, D
<1> QED BY <1>1, <1>2, <1>3, <1>4 DEF BaseInv, Phases, Heads, Running

LEMMA DeinitBase ==
    ASSUME BaseInv, aq_ring_rx_deinit
    PROVE  BaseInv'
<1> USE DEF regs, poll
<1> DEFINE b == buff_ring[sw_head]
           n == Buff(NoPage, b.off, b.taken, NoWb, b.cleaned)
<1>1. /\ UNCHANGED <<sw_tail, hw_head, dx_ring, reg_head, reg_tail, open, skbrefs, pc, budget,
                     sw_tail_old, device>>
      /\ ringref' \subseteq ringref /\ buff_ring' = [buff_ring EXCEPT ![sw_head] = n]
      /\ sw_head' = aq_ring_next_dx(sw_head) /\ pc = "deinit" /\ sw_head # sw_tail
  BY DEF aq_ring_rx_deinit
<1>2. TypeOK /\ sw_head \in Dx /\ sw_tail \in Dx /\ buff_ring \in [Dx -> BuffT] /\ b \in BuffT
  BY BuffsAre DEF BaseInv, TypeOK
<1>3. n \in BuffT
  <2>1. b.off \in 0 .. Parts - 1 /\ b.taken \in BOOLEAN /\ b.cleaned \in BOOLEAN
    BY <1>2 DEF BuffT
  <2> HIDE DEF b
  <2> QED BY <2>1, NoBuffType
<1> HIDE DEF n
<1>4. TypeOK'
  BY <1>1, <1>2, <1>3, HeadMoves DEF TypeOK, BuffT
<1>5. Phases' /\ Heads'
  BY <1>1 DEF BaseInv, Phases, Heads, Running
<1>6. Held'
  <2> SUFFICES ASSUME NEW i \in Dx, D(i)' < D(sw_tail)' PROVE buff_ring'[i].page # NoPage
    BY DEF Held
  <2>1. D(sw_tail)' = D(sw_tail) - 1 /\ D(sw_tail) \in Nat /\ D(sw_tail) < Size
    BY <1>1, <1>2, HeadMoves, DType DEF D
  <2>2. i # sw_head
    BY <1>1, <1>2, <2>1, HeadMoves, SizeAssumption DEF D
  <2>3. D(i)' = D(i) - 1 /\ D(i) \in Nat
    BY <1>1, <1>2, <2>2, HeadMoves, DType DEF D
  <2>4. D(i) < D(sw_tail)
    BY <2>1, <2>3
  <2> QED BY <1>1, <1>2, <2>2, <2>4 DEF BaseInv, Held
<1> QED BY <1>4, <1>5, <1>6 DEF BaseInv

LEMMA StepBase == BaseInv /\ [Next]_vars => BaseInv'
<1> SUFFICES ASSUME BaseInv, [Next]_vars PROVE BaseInv' OBVIOUS
<1>1. CASE \/ PollStart \/ ReceiveReturn \/ CleanNoMem \/ CleanReturn \/ FillReturn
           \/ DeinitReturn \/ aq_ring_free \/ aq_vec_stop
           \/ \E a \in skbrefs : StackFree(a)
           \/ UNCHANGED vars
  BY <1>1, QuietBase
<1>2. CASE Device
  BY <1>2, DeviceBase
<1>3. CASE hw_ring_rx_receive
  BY <1>3, ReceiveBase
<1>4. CASE CleanSkip \/ CleanError \/ (\E copied \in BOOLEAN : CleanDeliver(copied))
  BY <1>4, CleanBase
<1>5. CASE FillReuse \/ FillFlip \/ \E page \in Pages : FillAlloc(page)
  BY <1>5, FillIs, FillBase
<1>6. CASE FillNoMem \/ hw_ring_rx_fill
  BY <1>6, NoMemBase, PostBase
<1>7. CASE aq_vec_init \/ aq_ring_rx_deinit
  BY <1>7, StartBase, DeinitBase
<1> QED BY <1>1, <1>2, <1>3, <1>4, <1>5, <1>6, <1>7 DEF Next, Poll, Clean, Refill, Life

(***************************************************************************)
(* TypeOK of the Rx ring, in both builds and wherever allocations fail: in *)
(* particular no skb is given a buffer without a page.                     *)
(***************************************************************************)
THEOREM TypeCorrect == Spec => []TypeOK
  <1>1. BaseInv => TypeOK
    BY DEF BaseInv
  <1> QED BY InitBase, StepBase, <1>1, PTL DEF Spec

-----------------------------------------------------------------------------
(* The order of the indices, when no allocation fails. *)

Ordered == /\ D(hw_head) <= D(reg_head) /\ D(reg_head) <= D(reg_tail)
           /\ D(reg_tail) <= D(sw_tail)

\* What the poll filled is what hw_ring_rx_fill will post.
Tails == IF pc \in {"fill", "post"} THEN sw_tail_old = reg_tail ELSE sw_tail = reg_tail

\* A descriptor the device has not fetched is not written back.
Fresh == \A i \in Dx : D(reg_head) <= D(i) /\ D(i) < D(reg_tail) => ~dx_ring[i].done

\* The device has one buffer open per packet, not written back and so ahead of
\* hw_head.
OpenAhead ==
    /\ \A p \in open : /\ D(hw_head) <= D(p.last) /\ D(p.last) < D(reg_head)
                       /\ ~dx_ring[p.last].done
    /\ \A p, q \in open : p.last = q.last => p = q

OrderInv == Running => Ordered /\ Tails /\ Fresh /\ OpenAhead

\* The steps of QuietBase, as far as the later invariants see them.
LEMMA QuietIs ==
    ASSUME BaseInv,
           \/ PollStart \/ ReceiveReturn \/ CleanNoMem \/ CleanReturn \/ FillReturn
           \/ \E a \in skbrefs : StackFree(a)
           \/ UNCHANGED vars
    PROVE  /\ UNCHANGED <<sw_head, sw_tail, hw_head, buff_ring, dx_ring, reg_head, reg_tail, open,
                          ringref, device>>
           /\ skbrefs' \subseteq skbrefs
           /\ pc' \in {"fill", "post"} =>
                 \/ pc \notin {"fill", "post"} /\ sw_tail_old' = sw_tail
                 \/ pc \in {"fill", "post"} /\ sw_tail_old' = sw_tail_old
           /\ pc' \notin {"fill", "post"} => pc \notin {"fill", "post"}
           /\ pc' = "deinit" <=> pc = "deinit"
  BY DEF ring, regs, mem, poll, PollStart, ReceiveReturn, CleanNoMem, CleanReturn, FillReturn,
     StackFree, vars, Cleaning

\* The steps after which the ring is not running.
LEMMA HaltIs ==
    ASSUME BaseInv, aq_vec_stop \/ aq_ring_rx_deinit \/ DeinitReturn \/ aq_ring_free
    PROVE  ~Running'
  BY DEF aq_vec_stop, aq_ring_rx_deinit, DeinitReturn, aq_ring_free, Running, BaseInv, Phases

LEMMA QuietOrder ==
    ASSUME BaseInv, OrderInv,
           \/ PollStart \/ ReceiveReturn \/ CleanNoMem \/ CleanReturn \/ FillReturn
           \/ \E a \in skbrefs : StackFree(a)
           \/ UNCHANGED vars
    PROVE  OrderInv'
<1>1. (Running' => Running) /\ (Tails => Tails')
  BY QuietIs DEF Tails, Running
<1> QED BY <1>1, QuietIs DEF OrderInv, Ordered, Fresh, OpenAhead, D

LEMMA DeviceOrder ==
    ASSUME BaseInv, OrderInv, Device
    PROVE  OrderInv'
<1> USE DEF ring, mem, poll
<1>0. /\ TypeOK /\ {sw_head, hw_head, reg_head, reg_tail, sw_tail} \subseteq Dx
      /\ \A p \in open : p.last \in Dx
      /\ dx_ring \in [Dx -> DescT]
  BY DEF BaseInv, TypeOK, DescT
<1>1. /\ UNCHANGED <<sw_head, sw_tail, hw_head, reg_tail, pc, sw_tail_old, device>>
      /\ Running
  BY DEF Device, HwStart, HwContinue, HwEnd, Running
<1>2. Ordered /\ Tails /\ Fresh /\ OpenAhead
  BY <1>1 DEF OrderInv
<1>3. \A i \in Dx : D(i)' = D(i) /\ D(i) \in Nat
  BY <1>0, <1>1, DType DEF D
<1>4. Tails'
  BY <1>1, <1>2 DEF Tails
<1>5. ASSUME reg_head # reg_tail, reg_head' = aq_ring_next_dx(reg_head)
      PROVE  /\ D(reg_head)' = D(reg_head) + 1 /\ Ordered' /\ D(reg_head) < D(reg_tail)
             /\ ~dx_ring[reg_head].done
  <2>1. D(reg_head) < D(reg_tail) /\ D(reg_tail) < Size
    BY <1>0, <1>2, <1>5, DType DEF Ordered
  <2>2. D(reg_head)' = D(reg_head) + 1
    BY <1>0, <1>1, <1>3, <1>5, <2>1, DistNextFar, SizeAssumption DEF D
  <2>3. D(hw_head)' = D(hw_head) /\ D(reg_tail)' = D(reg_tail) /\ D(sw_tail)' = D(sw_tail)
    BY <1>1 DEF D
  <2>4. Ordered'
    BY <1>0, <1>2, <1>3, <2>1, <2>2, <2>3 DEF Ordered
  <2>5. ~dx_ring[reg_head].done
    BY <1>0, <1>2, <1>3, <2>1 DEF Fresh
  <2> QED BY <2>1, <2>2, <2>4, <2>5
<1>6. CASE HwStart
  <2> DEFINE n == [first |-> reg_head, last |-> reg_head]
  <2>1. /\ open' = open \cup {n} /\ UNCHANGED dx_ring
        /\ reg_head # reg_tail /\ reg_head' = aq_ring_next_dx(reg_head)
    BY <1>6 DEF HwStart
  <2>2. n.last = reg_head
    OBVIOUS
  <2> HIDE DEF n
  <2>3. Fresh'
    BY <1>0, <1>1, <1>2, <1>3, <1>5, <2>1 DEF Fresh, D
  <2>4. OpenAhead'
    <3>1. D(hw_head)' = D(hw_head)
      BY <1>1 DEF D
    <3>2. \A p \in open : p.last # reg_head
      BY <1>0, <1>2, <1>3 DEF OpenAhead
    <3> QED BY <1>0, <1>2, <1>3, <1>5, <2>1, <2>2, <3>1, <3>2 DEF OpenAhead, Ordered
  <2> QED BY <1>2, <1>4, <1>5, <2>1, <2>3, <2>4 DEF OrderInv
<1>7. ASSUME NEW p \in open, HwContinue(p) PROVE OrderInv'
  <2> DEFINE n == [first |-> p.first, last |-> reg_head]
             w == Done([eop |-> FALSE, next |-> reg_head, error |-> FALSE, first |-> p.first])
  <2>1. /\ open' = (open \ {p}) \cup {n} /\ dx_ring' = [dx_ring EXCEPT ![p.last] = w]
        /\ reg_head # reg_tail /\ reg_head' = aq_ring_next_dx(reg_head)
    BY <1>7 DEF HwContinue
  <2>2. n.last = reg_head
    OBVIOUS
  <2> HIDE DEF n, w
  <2>3. \A i \in Dx : i # p.last => dx_ring'[i] = dx_ring[i]
    BY <1>0, <2>1
  <2>4. p.last \in Dx /\ D(p.last) < D(reg_head)
    BY <1>0, <1>2 DEF OpenAhead
  <2>5. Fresh'
    <3>1. D(reg_tail)' = D(reg_tail)
      BY <1>1 DEF D
    <3> SUFFICES ASSUME NEW i \in Dx, D(reg_head) + 1 <= D(i), D(i) < D(reg_tail)
                 PROVE  ~dx_ring'[i].done
      BY <1>3, <1>5, <2>1, <3>1 DEF Fresh
    <3>2. i # p.last /\ D(reg_head) <= D(i)
      BY <1>0, <1>3, <2>4
    <3> QED BY <1>2, <2>3, <3>2 DEF Fresh
  <2>6. OpenAhead'
    <3>1. D(hw_head)' = D(hw_head)
      BY <1>1 DEF D
    <3>2. \A q \in open : q.last # reg_head /\ q.last \in Dx
      BY <1>0, <1>2, <1>3 DEF OpenAhead
    <3>3. \A q \in open \ {p} : dx_ring'[q.last] = dx_ring[q.last]
      BY <1>2, <2>3, <3>2 DEF OpenAhead
    <3>4. dx_ring'[reg_head] = dx_ring[reg_head]
      BY <1>0, <2>3, <3>2
    <3>5. ASSUME NEW q \in open'
          PROVE  D(hw_head)' <= D(q.last)' /\ D(q.last)' < D(reg_head)' /\ ~dx_ring'[q.last].done
      <4>1. CASE q = n
        <5>1. q.last = reg_head /\ Dist(sw_head', reg_head) = D(reg_head)
          BY <1>0, <1>3, <2>2, <4>1 DEF D
        <5> QED BY <1>0, <1>2, <1>3, <1>5, <2>1, <3>1, <3>4, <5>1 DEF Ordered, D
      <4>2. CASE q \in open \ {p}
        BY <1>0, <1>2, <1>3, <1>5, <2>1, <3>1, <3>2, <3>3, <4>2 DEF OpenAhead
      <4> QED BY <2>1, <4>1, <4>2
    <3>6. \A q, r \in open' : q.last = r.last => q = r
      BY <1>2, <2>1, <2>2, <3>2 DEF OpenAhead
    <3> QED BY <3>5, <3>6 DEF OpenAhead
  <2> QED BY <1>2, <1>4, <1>5, <2>1, <2>5, <2>6 DEF OrderInv
<1>8. ASSUME NEW p \in open, NEW error \in BOOLEAN, HwEnd(p, error) PROVE OrderInv'
  <2> DEFINE w == Done([eop |-> TRUE, next |-> 0, error |-> error, first |-> p.first])
  <2>1. /\ open' = open \ {p} /\ dx_ring' = [dx_ring EXCEPT ![p.last] = w]
        /\ UNCHANGED reg_head
    BY <1>8 DEF HwEnd
  <2> HIDE DEF w
  <2>2. \A i \in Dx : i # p.last => dx_ring'[i] = dx_ring[i]
    BY <1>0, <2>1
  <2>3. p.last \in Dx /\ D(p.last) < D(reg_head)
    BY <1>0, <1>2 DEF OpenAhead
  <2>4. D(hw_head)' = D(hw_head) /\ D(reg_tail)' = D(reg_tail) /\ D(sw_tail)' = D(sw_tail)
        /\ D(reg_head)' = D(reg_head)
    BY <1>1, <2>1 DEF D
  <2>5. Ordered'
    BY <1>2, <2>4 DEF Ordered
  <2>6. Fresh'
    <3> SUFFICES ASSUME NEW i \in Dx, D(reg_head) <= D(i), D(i) < D(reg_tail)
                 PROVE  ~dx_ring'[i].done
      BY <1>3, <2>4 DEF Fresh
    <3>1. i # p.last
      BY <1>0, <1>3, <2>3
    <3> QED BY <1>2, <2>2, <3>1 DEF Fresh
  <2>7. OpenAhead'
    <3>1. \A q \in open \ {p} : dx_ring'[q.last] = dx_ring[q.last]
      BY <1>0, <1>2, <2>2 DEF OpenAhead
    <3> QED BY <1>0, <1>2, <1>3, <2>1, <2>4, <3>1 DEF OpenAhead
  <2> QED BY <1>4, <2>5, <2>6, <2>7 DEF OrderInv
<1> QED BY <1>6, <1>7, <1>8 DEF Device

\* What a round of hw_ring_rx_receive does: the slot it takes is behind the
\* device's head.
LEMMA ReceiveIs ==
    ASSUME BaseInv, OrderInv, hw_ring_rx_receive
    PROVE  /\ UNCHANGED <<sw_head, sw_tail, dx_ring, reg_head, reg_tail, open, ringref, skbrefs, pc,
                          sw_tail_old, device>>
           /\ Running /\ hw_head \in Dx /\ dx_ring[hw_head].done
           /\ D(hw_head) < D(reg_head) /\ D(hw_head)' = D(hw_head) + 1
           /\ \A i \in Dx : D(i)' = D(i) /\ D(i) \in Nat
<1> USE DEF regs, mem, poll
<1>0. TypeOK /\ {sw_head, hw_head, reg_head, reg_tail, sw_tail} \subseteq Dx
  BY DEF BaseInv, TypeOK
<1>1. /\ UNCHANGED <<sw_head, sw_tail, dx_ring, reg_head, reg_tail, open, ringref, skbrefs, pc,
                     sw_tail_old, device>>
      /\ pc = "receive" /\ hw_head # sw_tail /\ dx_ring[hw_head].done
      /\ hw_head' = aq_ring_next_dx(hw_head)
  BY DEF hw_ring_rx_receive, RxdDone
<1>2. Running
  BY <1>0, <1>1 DEF BaseInv, Phases, Running, TypeOK
<1>3. Ordered /\ Fresh /\ sw_tail = reg_tail
  BY <1>1, <1>2 DEF OrderInv, Tails
<1>4. \A i \in Dx : D(i)' = D(i) /\ D(i) \in Nat /\ D(i) < Size
  BY <1>0, <1>1, DType DEF D
<1>5. D(hw_head) # D(reg_head)
  <2> SUFFICES ASSUME D(hw_head) = D(reg_head) PROVE FALSE OBVIOUS
  <2>1. D(reg_head) <= D(hw_head) /\ D(hw_head) < D(reg_tail)
    <3>1. D(hw_head) # D(reg_tail)
      BY <1>0, <1>1, <1>3, DType
    <3> QED BY <1>0, <1>3, <1>4, <3>1 DEF Ordered
  <2> QED BY <1>0, <1>1, <1>3, <2>1 DEF Fresh
<1>6. D(hw_head) < D(reg_head)
  BY <1>0, <1>3, <1>4, <1>5 DEF Ordered
<1>7. D(hw_head)' = D(hw_head) + 1
  <2>1. Dist(sw_head, hw_head) < Size - 1
    BY <1>0, <1>4, <1>6, SizeAssumption DEF D
  <2> QED BY <1>0, <1>1, <2>1, DistNextFar DEF D
<1> QED BY <1>0, <1>1, <1>2, <1>4, <1>6, <1>7

LEMMA ReceiveOrder ==
    ASSUME BaseInv, OrderInv, hw_ring_rx_receive
    PROVE  OrderInv'
<1>0. {sw_head, hw_head, reg_head, reg_tail, sw_tail} \subseteq Dx /\ \A p \in open : p.last \in Dx
  BY DEF BaseInv, TypeOK
<1>1. Ordered /\ Tails /\ Fresh /\ OpenAhead /\ UNCHANGED <<reg_head, reg_tail, sw_tail>>
  BY ReceiveIs DEF OrderInv
<1>2. D(reg_head)' = D(reg_head) /\ D(reg_tail)' = D(reg_tail) /\ D(sw_tail)' = D(sw_tail)
  BY ReceiveIs DEF D
<1>3. Ordered'
  BY <1>0, <1>1, <1>2, ReceiveIs DEF Ordered
<1>4. Tails' /\ Fresh'
  BY <1>1, <1>2, ReceiveIs DEF Tails, Fresh
<1>5. ASSUME NEW p \in open PROVE D(hw_head)' <= D(p.last)'
  <2>1. D(hw_head) <= D(p.last) /\ p.last # hw_head /\ p.last \in Dx
    BY <1>0, <1>1, ReceiveIs DEF OpenAhead
  <2>2. D(hw_head) # D(p.last)
    BY <1>0, <2>1, DType DEF BaseInv
  <2> QED BY <1>0, <2>1, <2>2, ReceiveIs
<1>6. OpenAhead'
  BY <1>0, <1>1, <1>2, <1>5, ReceiveIs DEF OpenAhead
<1> QED BY <1>3, <1>4, <1>6 DEF OrderInv

\* A round of aq_ring_rx_clean takes one off every distance ahead.
LEMMA CleanMoves ==
    ASSUME BaseInv, OrderInv,
           CleanSkip \/ CleanError \/ (\E copied \in BOOLEAN : CleanDeliver(copied))
    PROVE  /\ Ordered /\ Tails /\ Fresh /\ OpenAhead
           /\ \A i \in Dx : D(i) \in Nat /\ D(i) < Size /\ (D(i) = 0 <=> i = sw_head)
           /\ \A i \in Dx \ {sw_head} : D(i)' = D(i) - 1
           /\ D(sw_head) = 0 /\ Dist(sw_head', sw_head) = Size - 1
           /\ D(hw_head)' = D(hw_head) - 1 /\ D(reg_head)' = D(reg_head) - 1
           /\ D(reg_tail)' = D(reg_tail) - 1 /\ D(sw_tail)' = D(sw_tail) - 1
           /\ {sw_head, hw_head, reg_head, reg_tail, sw_tail} \subseteq Dx
           /\ 0 < D(hw_head)
<1>0. TypeOK /\ {sw_head, hw_head, reg_head, reg_tail, sw_tail} \subseteq Dx
  BY DEF BaseInv, TypeOK
<1>1. Ordered /\ Tails /\ Fresh /\ OpenAhead
  BY CleanIs DEF OrderInv
<1>2. \A i \in Dx : D(i) \in Nat /\ D(i) < Size /\ (D(i) = 0 <=> i = sw_head)
  BY <1>0, DType
<1>3. sw_head \notin {hw_head, reg_head, reg_tail, sw_tail} /\ 0 < D(hw_head)
  BY <1>0, <1>1, <1>2, CleanIs DEF Ordered
<1>4. \A i \in Dx \ {sw_head} : Dist(sw_head', i) = D(i) - 1
  BY <1>0, CleanIs, HeadMoves
<1>5. /\ D(hw_head)' = D(hw_head) - 1 /\ D(reg_head)' = D(reg_head) - 1
      /\ D(reg_tail)' = D(reg_tail) - 1 /\ D(sw_tail)' = D(sw_tail) - 1
  BY <1>0, <1>3, <1>4, CleanIs DEF D
<1>6. \A i \in Dx \ {sw_head} : D(i)' = D(i) - 1
  BY <1>4 DEF D
<1> QED BY <1>0, <1>1, <1>2, <1>3, <1>5, <1>6, CleanIs, HeadMoves

LEMMA CleanOrder ==
    ASSUME BaseInv, OrderInv,
           CleanSkip \/ CleanError \/ (\E copied \in BOOLEAN : CleanDeliver(copied))
    PROVE  OrderInv'
<1>1. Ordered'
  BY CleanMoves DEF Ordered
<1>2. Tails'
  BY CleanMoves, CleanIs DEF Tails
<1>3. ASSUME NEW i \in Dx, D(reg_head)' <= D(i)', D(i)' < D(reg_tail)' PROVE ~dx_ring'[i].done
  <2>1. i # sw_head
    <3>1. Dist(sw_head', i) < Size - 1
      BY <1>3, CleanMoves, SizeAssumption DEF D
    <3> QED BY <3>1, CleanMoves, SizeAssumption
  <2>2. D(reg_head) <= D(i) /\ D(i) < D(reg_tail)
    BY <1>3, <2>1, CleanMoves
  <2> QED BY <2>2, CleanMoves, CleanIs DEF Fresh
<1>4. ASSUME NEW p \in open
      PROVE  D(hw_head)' <= D(p.last)' /\ D(p.last)' < D(reg_head)'
  <2>1. p.last \in Dx /\ D(hw_head) <= D(p.last) /\ D(p.last) < D(reg_head)
    BY CleanMoves DEF OpenAhead, BaseInv, TypeOK
  <2>2. p.last # sw_head
    BY <2>1, CleanMoves
  <2> QED BY <2>1, <2>2, CleanMoves
<1>5. OpenAhead'
  BY <1>4, CleanMoves, CleanIs DEF OpenAhead
<1> QED BY <1>1, <1>2, <1>3, <1>5 DEF OrderInv, Fresh

LEMMA FillOrder ==
    ASSUME BaseInv, OrderInv, FillReuse \/ FillFlip \/ \E page \in Pages : FillAlloc(page)
    PROVE  OrderInv'
<1>0. TypeOK /\ {sw_head, hw_head, reg_head, reg_tail, sw_tail} \subseteq Dx
  BY DEF BaseInv, TypeOK
<1>1. /\ UNCHANGED <<sw_head, hw_head, dx_ring, reg_head, reg_tail, open, pc, sw_tail_old, device>>
      /\ sw_tail' = aq_ring_next_dx(sw_tail) /\ pc = "fill" /\ Avail > 0
  BY FillIs DEF Fill, Filling, regs, poll
<1>2. D(sw_tail)' = D(sw_tail) + 1 /\ \A i \in Dx : D(i) \in Nat /\ D(i)' = D(i)
  BY <1>0, <1>1, TailMoves, DType DEF D
<1>3. D(hw_head)' = D(hw_head) /\ D(reg_head)' = D(reg_head) /\ D(reg_tail)' = D(reg_tail)
  BY <1>1 DEF D
<1> SUFFICES ASSUME Running PROVE Ordered' /\ Tails' /\ Fresh' /\ OpenAhead'
  BY <1>1 DEF OrderInv, Running
<1>4. Ordered /\ Tails /\ Fresh /\ OpenAhead
  BY DEF OrderInv
<1>5. Ordered'
  BY <1>0, <1>2, <1>3, <1>4 DEF Ordered
<1>6. Tails' /\ Fresh'
  BY <1>1, <1>2, <1>3, <1>4 DEF Tails, Fresh
<1>7. OpenAhead'
  BY <1>1, <1>2, <1>3, <1>4 DEF OpenAhead, BaseInv, TypeOK
<1> QED BY <1>5, <1>6, <1>7

\* What hw_ring_rx_fill does to the descriptors.
LEMMA PostIs ==
    ASSUME BaseInv, OrderInv, hw_ring_rx_fill
    PROVE  /\ UNCHANGED <<sw_head, sw_tail, hw_head, buff_ring, reg_head, open, ringref, skbrefs>>
           /\ reg_tail' = sw_tail /\ pc' = "idle" /\ Running
           /\ Ordered /\ Fresh /\ OpenAhead
           /\ \A i \in Dx : dx_ring'[i] = IF D(reg_tail) <= D(i) /\ D(i) < D(sw_tail)
                                           THEN Posted(aq_buf_daddr(buff_ring[i]))
                                           ELSE dx_ring[i]
<1> USE DEF ring, mem
<1>0. {sw_head, hw_head, reg_head, reg_tail, sw_tail} \subseteq Dx
  BY DEF BaseInv, TypeOK
<1>1. /\ UNCHANGED <<sw_head, sw_tail, hw_head, buff_ring, reg_head, open, ringref, skbrefs>>
      /\ reg_tail' = sw_tail /\ pc = "post" /\ pc' = "idle"
      /\ dx_ring' = [i \in Dx |-> IF i \in Slots(sw_tail_old, sw_tail)
                                  THEN Posted(aq_buf_daddr(buff_ring[i]))
                                  ELSE dx_ring[i]]
  BY DEF hw_ring_rx_fill
<1>2. Running
  BY <1>1 DEF BaseInv, Phases, Running, TypeOK
<1>3. Ordered /\ Fresh /\ OpenAhead /\ sw_tail_old = reg_tail
  BY <1>1, <1>2 DEF OrderInv, Tails
<1>4. \A i \in Dx : i \in Slots(reg_tail, sw_tail) <=> D(reg_tail) <= D(i) /\ D(i) < D(sw_tail)
  BY <1>0, <1>3, SlotsFrom DEF D, Ordered
<1>5. \A i \in Dx : dx_ring'[i] = IF D(reg_tail) <= D(i) /\ D(i) < D(sw_tail)
                                  THEN Posted(aq_buf_daddr(buff_ring[i]))
                                  ELSE dx_ring[i]
  BY <1>1, <1>3, <1>4
<1> QED BY <1>1, <1>2, <1>3, <1>5

LEMMA PostOrder ==
    ASSUME BaseInv, OrderInv, hw_ring_rx_fill
    PROVE  OrderInv'
<1>0. {sw_head, hw_head, reg_head, reg_tail, sw_tail} \subseteq Dx /\ \A p \in open : p.last \in Dx
  BY DEF BaseInv, TypeOK
<1>1. \A i \in Dx : D(i)' = D(i) /\ D(i) \in Nat
  BY PostIs, DType DEF D, BaseInv
<1>2. /\ D(hw_head)' = D(hw_head) /\ D(reg_head)' = D(reg_head)
      /\ D(reg_tail)' = D(sw_tail) /\ D(sw_tail)' = D(sw_tail)
  BY PostIs DEF D
<1>3. Ordered'
  BY <1>0, <1>1, <1>2, PostIs DEF Ordered
<1>4. Tails'
  BY PostIs DEF Tails
<1>5. ASSUME NEW i \in Dx, D(reg_head) <= D(i), D(i) < D(sw_tail) PROVE ~dx_ring'[i].done
  <2>1. CASE D(reg_tail) <= D(i)
    <3>1. dx_ring'[i] = Posted(aq_buf_daddr(buff_ring[i]))
      BY <1>5, <2>1, PostIs
    <3> QED BY <3>1 DEF Posted
  <2>2. CASE ~(D(reg_tail) <= D(i))
    <3>1. dx_ring'[i] = dx_ring[i] /\ D(i) < D(reg_tail)
      BY <1>0, <1>1, <2>2, PostIs
    <3> QED BY <1>5, <3>1, PostIs DEF Fresh
  <2> QED BY <2>1, <2>2
<1>6. Fresh'
  BY <1>1, <1>2, <1>5 DEF Fresh
<1>7. ASSUME NEW p \in open PROVE dx_ring'[p.last] = dx_ring[p.last]
  <2>1. p.last \in Dx /\ D(p.last) < D(reg_head) /\ D(reg_head) <= D(reg_tail)
    BY <1>0, PostIs DEF OpenAhead, Ordered
  <2>2. ~(D(reg_tail) <= D(p.last))
    BY <1>0, <1>1, <2>1
  <2> QED BY <2>1, <2>2, PostIs
<1>8. OpenAhead'
  BY <1>0, <1>1, <1>2, <1>7, PostIs DEF OpenAhead
<1> QED BY <1>3, <1>4, <1>6, <1>8 DEF OrderInv

LEMMA StartOrder ==
    ASSUME BaseInv, aq_vec_init
    PROVE  OrderInv'
<1>1. /\ sw_head' = 0 /\ sw_tail' = 0 /\ hw_head' = 0 /\ reg_head' = 0 /\ reg_tail' = 0
      /\ sw_tail_old' = 0 /\ pc' = "fill" /\ open' = {}
  BY DEF aq_vec_init, BaseInv, Phases
<1>2. /\ D(sw_tail)' = 0 /\ D(hw_head)' = 0 /\ D(reg_head)' = 0 /\ D(reg_tail)' = 0
      /\ \A i \in Dx : D(i)' \in Nat
  BY <1>1, ZeroDx, DistType DEF D
<1> QED BY <1>1, <1>2 DEF OrderInv, Ordered, Tails, Fresh, OpenAhead

LEMMA StepOrder ==
    ASSUME AllocFails = {}
    PROVE  BaseInv /\ OrderInv /\ [Next]_vars => OrderInv'
<1> SUFFICES ASSUME BaseInv, OrderInv, [Next]_vars PROVE OrderInv' OBVIOUS
<1>1. CASE \/ PollStart \/ ReceiveReturn \/ CleanNoMem \/ CleanReturn \/ FillReturn
           \/ \E a \in skbrefs : StackFree(a)
           \/ UNCHANGED vars
  BY <1>1, QuietOrder
<1>2. CASE Device
  BY <1>2, DeviceOrder
<1>3. CASE hw_ring_rx_receive
  BY <1>3, ReceiveOrder
<1>4. CASE CleanSkip \/ CleanError \/ (\E copied \in BOOLEAN : CleanDeliver(copied))
  BY <1>4, CleanOrder
<1>5. CASE FillReuse \/ FillFlip \/ \E page \in Pages : FillAlloc(page)
  BY <1>5, FillOrder
<1>6. CASE hw_ring_rx_fill
  BY <1>6, PostOrder
<1>7. CASE aq_vec_init
  BY <1>7, StartOrder
<1>8. CASE aq_vec_stop \/ aq_ring_rx_deinit \/ DeinitReturn \/ aq_ring_free
  BY <1>8, HaltIs DEF OrderInv
<1>9. ~FillNoMem
  BY DEF FillNoMem, AllocFailed
<1> QED BY <1>1, <1>2, <1>3, <1>4, <1>5, <1>6, <1>7, <1>8, <1>9
        DEF Next, Poll, Clean, Refill, Life

(***************************************************************************)
(* When no allocation fails the indices of the Rx ring keep their order in *)
(* both builds, for every size, threshold and budget: the poll never takes *)
(* a descriptor the device has not written back, and never refills a slot  *)
(* that still holds a frame.                                               *)
(***************************************************************************)
THEOREM RingKeepsOrder ==
    ASSUME AllocFails = {}
    PROVE  Spec => []RingOrder
  <1>1. Init => BaseInv /\ OrderInv
    BY InitBase DEF Init, OrderInv, Running
  <1>2. BaseInv /\ OrderInv /\ [Next]_vars => (BaseInv /\ OrderInv)'
    BY StepBase, StepOrder
  <1>3. BaseInv /\ OrderInv => RingOrder
    BY DEF OrderInv, Ordered, RingOrder, InOrder, Running, D
  <1> QED BY <1>1, <1>2, <1>3, PTL DEF Spec

-----------------------------------------------------------------------------
(* The pages of the Linux build, wherever allocations fail. *)

\* Every page in the ring is one the ring holds, ...
Own == \A i \in Dx : buff_ring[i].page # NoPage => buff_ring[i].page \in ringref

\* ... and no page is in two slots.
OnePage == \A i, j \in Dx : buff_ring[i].page # NoPage /\ buff_ring[i].page = buff_ring[j].page
                              => i = j

\* The slots that were filled and that the poll has not taken as received.
Ahead(i) == Running /\ D(hw_head) <= D(i) /\ D(i) < D(sw_tail)

\* skbs reference no part of a page beyond the one in its slot, and that one
\* only when the slot was received.
Used == \A a \in skbrefs, i \in Dx : buff_ring[i].page = a[1] =>
            a[2] <= buff_ring[i].off /\ (Ahead(i) => a[2] < buff_ring[i].off)

\* A descriptor names the buffer of its slot only between the fill and the
\* receive.
Named == \A i \in Dx :
    dx_ring[i].addr = aq_buf_daddr(buff_ring[i]) /\ buff_ring[i].page # NoPage =>
        D(i) < D(sw_tail) /\ (Running => D(hw_head) <= D(i))

\* A write-back overwrites the address.
Blank == \A i \in Dx : dx_ring[i].done => dx_ring[i].addr = NoAddr

LinuxInv == Own /\ OnePage /\ Used /\ Named /\ Blank

LEMMA SkbRef ==
    ASSUME TypeOK, NEW a \in skbrefs
    PROVE  a[1] \in Pages /\ a[2] \in Nat /\ a = <<a[1], a[2]>> /\ a[1] # NoPage
  BY RxAssumption DEF TypeOK

LEMMA DaddrIs ==
    ASSUME NEW b
    PROVE  /\ aq_buf_daddr(b)[1] = b.page /\ aq_buf_daddr(b)[2] = b.off
           /\ aq_buf_daddr(b) = NoAddr => b.page = NoPage
  BY DEF aq_buf_daddr, NoAddr

LEMMA InitLinux == Init => LinuxInv
<1> SUFFICES ASSUME Init PROVE LinuxInv OBVIOUS
<1>1. \A i \in Dx : buff_ring[i].page = NoPage
  BY DEF Init, Buff
<1>2. skbrefs = {} /\ \A i \in Dx : ~dx_ring[i].done
  BY DEF Init, Posted
<1> QED BY <1>1, <1>2 DEF LinuxInv, Own, OnePage, Used, Named, Blank

\* Steps that leave indices, buffers and descriptors alone.
LEMMA QuietLinux ==
    ASSUME BaseInv, LinuxInv,
           UNCHANGED <<sw_head, sw_tail, hw_head, buff_ring, dx_ring, ringref>>,
           skbrefs' \subseteq skbrefs, Running' => Running
    PROVE  LinuxInv'
<1>1. (\A i \in Dx : Ahead(i)' => Ahead(i)) /\ UNCHANGED <<D(hw_head), D(sw_tail)>>
  BY DEF Ahead, D
<1>2. Own' /\ OnePage' /\ Blank'
  BY DEF LinuxInv, Own, OnePage, Blank
<1>3. Used'
  BY <1>1 DEF LinuxInv, Used
<1>4. Named'
  BY <1>1 DEF LinuxInv, Named, D
<1> QED BY <1>2, <1>3, <1>4 DEF LinuxInv

LEMMA DeviceLinux ==
    ASSUME BaseInv, LinuxInv, Device
    PROVE  LinuxInv'
<1> USE DEF ring, mem, poll
<1>1. UNCHANGED <<sw_head, sw_tail, hw_head, buff_ring, ringref, skbrefs, device>>
  BY DEF Device, HwStart, HwContinue, HwEnd
<1>2. dx_ring \in [Dx -> DescT] /\ \A p \in open : p.last \in Dx
  BY DEF BaseInv, TypeOK, DescT
<1>3. \A i \in Dx : dx_ring'[i] = dx_ring[i] \/ dx_ring'[i].addr = NoAddr
  <2>1. CASE HwStart
    BY <2>1 DEF HwStart
  <2>2. ASSUME NEW wb, (Done(wb)).addr = NoAddr, NEW p \in open,
               dx_ring' = [dx_ring EXCEPT ![p.last] = Done(wb)], NEW i \in Dx
        PROVE  dx_ring'[i] = dx_ring[i] \/ dx_ring'[i].addr = NoAddr
    BY <1>2, <2>2
  <2>3. \A wb : (Done(wb)).addr = NoAddr
    BY DEF Done
  <2>4. ASSUME NEW p \in open, HwContinue(p), NEW i \in Dx
        PROVE  dx_ring'[i] = dx_ring[i] \/ dx_ring'[i].addr = NoAddr
    BY <2>2, <2>3, <2>4 DEF HwContinue
  <2>5. ASSUME NEW p \in open, NEW error \in BOOLEAN, HwEnd(p, error), NEW i \in Dx
        PROVE  dx_ring'[i] = dx_ring[i] \/ dx_ring'[i].addr = NoAddr
    BY <2>2, <2>3, <2>5 DEF HwEnd
  <2> QED BY <2>1, <2>4, <2>5 DEF Device
<1>4. Own' /\ OnePage' /\ Used'
  BY <1>1 DEF LinuxInv, Own, OnePage, Used, Ahead, Running, D
<1>5. Named'
  <2> SUFFICES ASSUME NEW i \in Dx, dx_ring'[i].addr = aq_buf_daddr(buff_ring[i]),
                      buff_ring[i].page # NoPage
               PROVE  D(i) < D(sw_tail) /\ (Running => D(hw_head) <= D(i))
    BY <1>1 DEF Named, Running, D
  <2>1. dx_ring'[i] = dx_ring[i]
    BY <1>3, DaddrIs
  <2> QED BY <2>1 DEF LinuxInv, Named
<1>6. Blank'
  BY <1>3 DEF LinuxInv, Blank
<1> QED BY <1>4, <1>5, <1>6 DEF LinuxInv

LEMMA ReceiveLinux ==
    ASSUME BaseInv, LinuxInv, hw_ring_rx_receive
    PROVE  LinuxInv'
<1> USE DEF regs, mem, poll
<1>1. /\ UNCHANGED <<sw_head, sw_tail, dx_ring, ringref, skbrefs, device>>
      /\ dx_ring[hw_head].done /\ hw_head' = aq_ring_next_dx(hw_head)
      /\ \A i \in Dx : /\ buff_ring'[i].page = buff_ring[i].page
                       /\ buff_ring'[i].off = buff_ring[i].off
      /\ Running /\ hw_head \in Dx /\ D(hw_head)' = D(hw_head) + 1
  BY ReceivePages
<1>2. \A i \in Dx : D(i)' = D(i) /\ D(i) \in Nat
  BY <1>1, DType DEF D, BaseInv
<1>3. \A i \in Dx : Ahead(i)' => Ahead(i)
  BY <1>1, <1>2 DEF Ahead, Running, D
<1>4. Own' /\ OnePage' /\ Blank'
  BY <1>1 DEF LinuxInv, Own, OnePage, Blank
<1>5. Used'
  BY <1>1, <1>3 DEF LinuxInv, Used
<1>6. Named'
  <2> SUFFICES ASSUME NEW i \in Dx, dx_ring[i].addr = aq_buf_daddr(buff_ring[i]),
                      buff_ring[i].page # NoPage
               PROVE  D(i) < D(sw_tail) /\ D(hw_head) + 1 <= D(i)
    BY <1>1, <1>2 DEF Named, D, aq_buf_daddr
  <2>1. D(i) < D(sw_tail) /\ D(hw_head) <= D(i)
    BY <1>1 DEF LinuxInv, Named
  <2>2. i # hw_head
    BY <1>1, DaddrIs DEF LinuxInv, Blank
  <2>3. D(i) # D(hw_head)
    BY <1>1, <2>2, DType DEF BaseInv
  <2> QED BY <1>1, <1>2, <2>1, <2>3
<1> QED BY <1>4, <1>5, <1>6 DEF LinuxInv

LEMMA CleanLinux ==
    ASSUME Vmklnx = FALSE, BaseInv, LinuxInv,
           CleanSkip \/ CleanError \/ (\E copied \in BOOLEAN : CleanDeliver(copied))
    PROVE  LinuxInv'
<1>0. TypeOK /\ Cleaning /\ Running /\ {sw_head, sw_tail, hw_head} \subseteq Dx
  BY CleanIs DEF BaseInv, TypeOK
<1>1. /\ ringref' = ringref
      /\ \A a \in skbrefs' : a \in skbrefs \/ \E j \in Dx : /\ D(j) < D(hw_head)
                                                            /\ a = aq_buf_daddr(buff_ring[j])
                                                            /\ buff_ring[j].page # NoPage
  <2>1. CASE CleanSkip \/ CleanError
    BY <2>1 DEF CleanSkip, CleanError, mem
  <2>2. ASSUME NEW copied \in BOOLEAN, CleanDeliver(copied) PROVE <1>1!1 /\ <1>1!2
    <3> DEFINE C == Chain(sw_head)
               R == IF copied THEN C \ {sw_head} ELSE C
    <3>1. /\ skbrefs' = skbrefs \cup {aq_buf_daddr(buff_ring[j]) : j \in R}
          /\ ringref' = ringref /\ IsRscCompleted(C) /\ R \subseteq C
      BY <2>2 DEF CleanDeliver
    <3> HIDE DEF R
    <3>2. ASSUME NEW j \in R PROVE j \in Dx /\ D(j) < D(hw_head) /\ buff_ring[j].page # NoPage
      <4>1. j \in Dx /\ D(j) < D(hw_head)
        BY <1>0, <3>1, ChainInRing
      <4>2. D(hw_head) <= D(sw_tail) /\ {D(j), D(hw_head), D(sw_tail)} \subseteq Nat
        BY <1>0, <4>1, DType DEF BaseInv, Heads
      <4>3. D(j) < D(sw_tail)
        BY <4>1, <4>2
      <4> QED BY <4>1, <4>3 DEF BaseInv, Held
    <3> QED BY <3>1, <3>2
  <2> QED BY <2>1, <2>2
<1>2. \A i \in Dx : D(i) \in Nat /\ (i # sw_head => D(i)' = D(i) - 1)
  BY <1>0, CleanIs, HeadMoves, DType DEF D
<1>3. D(hw_head)' = D(hw_head) - 1 /\ D(sw_tail)' = D(sw_tail) - 1 /\ D(hw_head) <= D(sw_tail)
      /\ D(hw_head) \in Nat \ {0} /\ D(sw_tail) \in Nat /\ D(sw_tail) < Size
  <2>1. hw_head # sw_head /\ sw_tail # sw_head /\ D(hw_head) <= D(sw_tail) /\ D(sw_tail) < Size
    BY <1>0, CleanIs, DType DEF BaseInv, Heads
  <2> QED BY <1>0, <1>2, <2>1, CleanIs, HeadMoves DEF D
<1>4. \A i \in Dx : Ahead(i)' => Ahead(i)
  <2> SUFFICES ASSUME NEW i \in Dx, Ahead(i)' PROVE Ahead(i) OBVIOUS
  <2>1. i # sw_head
    <3>1. Dist(sw_head', i) < D(sw_tail) - 1
      BY <1>3 DEF Ahead, D
    <3> QED BY <1>0, <1>3, <3>1, CleanIs, HeadMoves, SizeAssumption
  <2> QED BY <1>0, <1>2, <1>3, <2>1 DEF Ahead
<1>5. Own' /\ OnePage' /\ Blank'
  BY <1>1, CleanIs DEF LinuxInv, Own, OnePage, Blank
<1>6. Used'
  <2> SUFFICES ASSUME NEW a \in skbrefs', NEW i \in Dx, buff_ring[i].page = a[1]
               PROVE  a[2] <= buff_ring[i].off /\ (Ahead(i)' => a[2] < buff_ring[i].off)
    BY CleanIs DEF Used
  <2>1. CASE a \in skbrefs
    BY <1>4, <2>1 DEF LinuxInv, Used
  <2>2. CASE \E j \in Dx : /\ D(j) < D(hw_head) /\ a = aq_buf_daddr(buff_ring[j])
                           /\ buff_ring[j].page # NoPage
    <3>1. PICK j \in Dx : /\ D(j) < D(hw_head) /\ a = aq_buf_daddr(buff_ring[j])
                          /\ buff_ring[j].page # NoPage
      BY <2>2
    <3>2. j = i /\ a[2] = buff_ring[i].off
      BY <3>1, DaddrIs DEF LinuxInv, OnePage
    <3>3. buff_ring[i].off \in Nat
      BY DEF BaseInv, TypeOK
    <3>4. ~Ahead(i)'
      BY <1>2, <1>3, <1>4, <3>1, <3>2 DEF Ahead
    <3> QED BY <3>2, <3>3, <3>4
  <2> QED BY <1>1, <2>1, <2>2
<1>7. Named'
  <2> SUFFICES ASSUME NEW i \in Dx, dx_ring[i].addr = aq_buf_daddr(buff_ring[i]),
                      buff_ring[i].page # NoPage
               PROVE  D(i)' < D(sw_tail)' /\ D(hw_head)' <= D(i)'
    BY <1>0, CleanIs DEF Named, aq_buf_daddr
  <2>1. D(i) < D(sw_tail) /\ D(hw_head) <= D(i)
    BY <1>0 DEF LinuxInv, Named
  <2>2. i # sw_head
    BY <1>3, <2>1, CleanIs
  <2> QED BY <1>2, <1>3, <2>1, <2>2
<1> QED BY <1>5, <1>6, <1>7 DEF LinuxInv

\* A slot is given a page no other slot has, and no skb references the part
\* of it that is posted.
LEMMA FillLinux ==
    ASSUME BaseInv, LinuxInv, Filling, NEW page \in Pages, NEW off \in 0 .. Parts - 1,
           Fill(page, off), page \in ringref',
           \A j \in Dx \ {sw_tail} : buff_ring[j].page # NoPage =>
               buff_ring[j].page \in ringref' /\ buff_ring[j].page # page,
           \A a \in skbrefs : a[1] = page => a[2] < off
    PROVE  LinuxInv'
<1> USE DEF regs, poll
<1> DEFINE n == Buff(page, off, FALSE, NoWb, FALSE)
<1>1. /\ UNCHANGED <<sw_head, hw_head, dx_ring, skbrefs, device>>
      /\ buff_ring' = [buff_ring EXCEPT ![sw_tail] = n]
      /\ sw_tail' = aq_ring_next_dx(sw_tail) /\ Avail > 0 /\ pc = "fill"
  BY DEF Fill, Filling
<1>2. n.page = page /\ n.off = off
  BY DEF Buff
<1> HIDE DEF n
<1>3. TypeOK /\ sw_tail \in Dx /\ hw_head \in Dx /\ buff_ring \in [Dx -> BuffT] /\ page # NoPage
  BY BuffsAre, RxAssumption DEF BaseInv, TypeOK
<1>4. buff_ring'[sw_tail] = n /\ \A i \in Dx : i # sw_tail => buff_ring'[i] = buff_ring[i]
  BY <1>1, <1>3
<1>5. /\ D(sw_tail)' = D(sw_tail) + 1 /\ D(hw_head)' = D(hw_head)
      /\ \A i \in Dx : D(i)' = D(i) /\ D(i) \in Nat /\ (i # sw_tail => D(i) # D(sw_tail))
  BY <1>1, <1>3, TailMoves, DType DEF D
<1>6. Running /\ D(hw_head) <= D(sw_tail)
  BY <1>1 DEF BaseInv, Phases, Running, TypeOK, Heads
<1>7. \A i \in Dx : i # sw_tail /\ Ahead(i)' => Ahead(i)
  BY <1>3, <1>5, <1>6 DEF Ahead
<1>8. Own'
  BY <1>2, <1>4 DEF Own
<1>9. OnePage'
  BY <1>2, <1>4 DEF LinuxInv, OnePage
<1>10. Used'
  <2> SUFFICES ASSUME NEW a \in skbrefs, NEW i \in Dx, buff_ring'[i].page = a[1]
               PROVE  a[2] <= buff_ring'[i].off /\ (Ahead(i)' => a[2] < buff_ring'[i].off)
    BY <1>1 DEF Used
  <2>1. CASE i = sw_tail
    <3>1. a[2] < off /\ a[2] \in Nat /\ buff_ring'[i].off = off
      BY <1>2, <1>3, <1>4, <2>1, SkbRef
    <3> QED BY <3>1
  <2>2. CASE i # sw_tail
    BY <1>4, <1>7, <2>2 DEF LinuxInv, Used
  <2> QED BY <2>1, <2>2
<1>11. Named'
  <2> SUFFICES ASSUME NEW i \in Dx, dx_ring[i].addr = aq_buf_daddr(buff_ring'[i]),
                      buff_ring'[i].page # NoPage
               PROVE  D(i) < D(sw_tail) + 1 /\ D(hw_head) <= D(i)
    BY <1>1, <1>5, <1>6 DEF Named, aq_buf_daddr
  <2>1. CASE i = sw_tail
    BY <1>3, <1>5, <1>6, <2>1
  <2>2. CASE i # sw_tail
    <3>1. D(i) < D(sw_tail) /\ D(hw_head) <= D(i)
      BY <1>4, <1>6, <2>2 DEF LinuxInv, Named
    <3> QED BY <1>3, <1>5, <3>1
  <2> QED BY <2>1, <2>2
<1>12. Blank'
  BY <1>1 DEF LinuxInv, Blank
<1> QED BY <1>8, <1>9, <1>10, <1>11, <1>12 DEF LinuxInv

LEMMA RefillLinux ==
    ASSUME Vmklnx = FALSE, BaseInv, LinuxInv,
           FillReuse \/ FillFlip \/ \E page \in Pages : FillAlloc(page)
    PROVE  LinuxInv'
<1>0. TypeOK /\ sw_tail \in Dx /\ ringref \subseteq Pages
  BY DEF BaseInv, TypeOK
<1>1. PICK b \in BuffT : b = buff_ring[sw_tail]
  BY <1>0, BuffsAre
<1>2. b.page \in Pages \cup {NoPage} /\ b.off \in 0 .. Parts - 1
  BY <1>1 DEF BuffT
<1>3. \A j \in Dx \ {sw_tail} : buff_ring[j].page # NoPage =>
          buff_ring[j].page \in ringref /\ buff_ring[j].page # b.page
  BY <1>0, <1>1 DEF LinuxInv, Own, OnePage
<1>4. CASE FillReuse
  <2>1. /\ Filling /\ b.page # NoPage /\ Fill(b.page, 0) /\ ringref' = ringref
        /\ \A a \in skbrefs : PageOf(a) # b.page
    BY <1>1, <1>4 DEF FillReuse, InUse
  <2>2. b.page \in Pages /\ b.page \in ringref
    BY <1>0, <1>1, <1>2, <2>1 DEF LinuxInv, Own
  <2> QED BY <1>3, <2>1, <2>2, ZeroDx, FillLinux DEF PageOf
<1>5. CASE FillFlip
  <2>1. /\ Filling /\ b.page # NoPage /\ b.off + 1 < Parts /\ Fill(b.page, b.off + 1)
        /\ ringref' = ringref
    BY <1>1, <1>5 DEF FillFlip
  <2>2. b.page \in Pages /\ b.page \in ringref /\ b.off + 1 \in 0 .. Parts - 1
    BY <1>0, <1>1, <1>2, <2>1, RxAssumption DEF LinuxInv, Own
  <2>3. ASSUME NEW a \in skbrefs, a[1] = b.page PROVE a[2] < b.off + 1
    <3>1. a[2] <= b.off /\ a[2] \in Nat
      BY <1>0, <1>1, <2>3, SkbRef DEF LinuxInv, Used
    <3> QED BY <1>2, <3>1
  <2> QED BY <1>3, <2>1, <2>2, <2>3, FillLinux
<1>6. ASSUME NEW page \in Pages, FillAlloc(page) PROVE LinuxInv'
  <2>1. /\ Filling /\ Fill(page, 0) /\ page \notin ringref
        /\ ringref' = (ringref \ {b.page}) \cup {page}
        /\ \A a \in skbrefs : PageOf(a) # page
    BY <1>1, <1>6 DEF FillAlloc, Kept, FreePages
  <2>2. \A j \in Dx \ {sw_tail} : buff_ring[j].page # NoPage =>
            buff_ring[j].page \in ringref' /\ buff_ring[j].page # page
    BY <1>3, <2>1
  <2> QED BY <2>1, <2>2, ZeroDx, FillLinux DEF PageOf
<1> QED BY <1>4, <1>5, <1>6

LEMMA NoMemLinux ==
    ASSUME Vmklnx = FALSE, BaseInv, LinuxInv, FillNoMem
    PROVE  LinuxInv'
<1> USE DEF ring, regs
<1>0. TypeOK /\ sw_tail \in Dx /\ buff_ring \in [Dx -> BuffT]
  BY BuffsAre DEF BaseInv, TypeOK
<1> DEFINE b == buff_ring[sw_tail]
           n == Buff(NoPage, b.off, b.taken, NoWb, FALSE)
<1>1. /\ UNCHANGED <<sw_head, sw_tail, hw_head, dx_ring, skbrefs>>
      /\ buff_ring' = [buff_ring EXCEPT ![sw_tail] = n]
      /\ ringref' = ringref \ {b.page} /\ pc = "fill"
  BY DEF FillNoMem, Filling, Kept
<1>2. n.page = NoPage
  BY DEF Buff
<1> HIDE DEF n
<1>3. buff_ring'[sw_tail].page = NoPage /\ \A i \in Dx : i # sw_tail => buff_ring'[i] = buff_ring[i]
  BY <1>0, <1>1, <1>2
<1>4. Running
  BY <1>0, <1>1 DEF BaseInv, Phases, Running, TypeOK
<1>5. (\A i \in Dx : D(i)' = D(i)) /\ UNCHANGED <<D(hw_head), D(sw_tail)>>
  BY <1>1 DEF D
<1>6. \A i \in Dx : Ahead(i)' => Ahead(i)
  BY <1>4, <1>5 DEF Ahead
<1>7. Own'
  BY <1>0, <1>1, <1>3 DEF LinuxInv, Own, OnePage
<1>8. OnePage' /\ Blank'
  BY <1>0, <1>1, <1>3 DEF LinuxInv, OnePage, Blank
<1>9. Used'
  BY <1>0, <1>1, <1>3, <1>6, SkbRef DEF LinuxInv, Used
<1>10. Named'
  BY <1>1, <1>3, <1>4, <1>5 DEF LinuxInv, Named
<1> QED BY <1>7, <1>8, <1>9, <1>10 DEF LinuxInv

LEMMA PostLinux ==
    ASSUME BaseInv, LinuxInv, hw_ring_rx_fill
    PROVE  LinuxInv'
<1> USE DEF ring, mem
<1>0. TypeOK /\ {sw_head, sw_tail, hw_head, sw_tail_old} \subseteq Dx
  BY DEF BaseInv, TypeOK
<1>1. /\ UNCHANGED <<sw_head, sw_tail, hw_head, buff_ring, ringref, skbrefs>> /\ pc = "post"
      /\ dx_ring' = [i \in Dx |-> IF i \in Slots(sw_tail_old, sw_tail)
                                  THEN Posted(aq_buf_daddr(buff_ring[i]))
                                  ELSE dx_ring[i]]
  BY DEF hw_ring_rx_fill
<1>2. Running
  BY <1>0, <1>1 DEF BaseInv, Phases, Running, TypeOK
<1>3. (\A i \in Dx : D(i)' = D(i) /\ D(i) \in Nat) /\ UNCHANGED <<D(hw_head), D(sw_tail)>>
  BY <1>0, <1>1, DType DEF D
<1>4. \A i \in Dx : Ahead(i)' => Ahead(i)
  BY <1>2, <1>3 DEF Ahead
<1>5. Own' /\ OnePage'
  BY <1>1 DEF LinuxInv, Own, OnePage
<1>6. Used'
  BY <1>1, <1>4 DEF LinuxInv, Used
<1>7. Named'
  <2> SUFFICES ASSUME NEW i \in Dx, dx_ring'[i].addr = aq_buf_daddr(buff_ring[i]),
                      buff_ring[i].page # NoPage
               PROVE  D(i) < D(sw_tail) /\ D(hw_head) <= D(i)
    BY <1>1, <1>3 DEF Named
  <2>1. CASE i \in Slots(sw_tail_old, sw_tail)
    <3>1. D(hw_head) <= D(sw_tail_old) /\ D(sw_tail_old) <= D(sw_tail)
      BY <1>1, <1>2 DEF BaseInv, Heads
    <3>2. D(sw_tail_old) <= D(i) /\ D(i) < D(sw_tail)
      BY <1>0, <2>1, <3>1, SlotsFrom DEF D
    <3> QED BY <1>0, <1>3, <3>1, <3>2
  <2>2. CASE i \notin Slots(sw_tail_old, sw_tail)
    <3>1. dx_ring'[i] = dx_ring[i]
      BY <1>1, <2>2
    <3> QED BY <1>2, <3>1 DEF LinuxInv, Named
  <2> QED BY <2>1, <2>2
<1>8. Blank'
  BY <1>1 DEF LinuxInv, Blank, Posted
<1> QED BY <1>5, <1>6, <1>7, <1>8 DEF LinuxInv

LEMMA StartLinux ==
    ASSUME BaseInv, LinuxInv, aq_vec_init
    PROVE  LinuxInv'
<1> USE DEF mem
<1>1. /\ UNCHANGED <<buff_ring, dx_ring, ringref, skbrefs>>
      /\ sw_head' = 0 /\ sw_tail' = 0 /\ sw_head = sw_tail
  BY DEF aq_vec_init, BaseInv, Phases
<1>2. D(sw_tail) = 0 /\ D(sw_tail)' = 0 /\ \A i \in Dx : D(i) \in Nat /\ D(i)' \in Nat
  BY <1>1, ZeroDx, DistType, DType DEF D, BaseInv
<1>3. Own' /\ OnePage' /\ Blank'
  BY <1>1 DEF LinuxInv, Own, OnePage, Blank
<1>4. Used'
  BY <1>1, <1>2 DEF LinuxInv, Used, Ahead
<1>5. Named'
  BY <1>1, <1>2 DEF LinuxInv, Named
<1> QED BY <1>3, <1>4, <1>5 DEF LinuxInv

LEMMA DeinitLinux ==
    ASSUME BaseInv, LinuxInv, aq_ring_rx_deinit
    PROVE  LinuxInv'
<1> USE DEF regs, poll
<1>0. TypeOK /\ sw_head \in Dx /\ sw_tail \in Dx /\ buff_ring \in [Dx -> BuffT]
  BY BuffsAre DEF BaseInv, TypeOK
<1> DEFINE b == buff_ring[sw_head]
           n == Buff(NoPage, b.off, b.taken, NoWb, b.cleaned)
<1>1. /\ UNCHANGED <<sw_tail, dx_ring, skbrefs>>
      /\ buff_ring' = [buff_ring EXCEPT ![sw_head] = n] /\ sw_head' = aq_ring_next_dx(sw_head)
      /\ ringref' = ringref \ {b.page} /\ sw_head # sw_tail
  BY DEF aq_ring_rx_deinit
<1>2. n.page = NoPage
  BY DEF Buff
<1> HIDE DEF n
<1>3. buff_ring'[sw_head].page = NoPage /\ \A i \in Dx : i # sw_head => buff_ring'[i] = buff_ring[i]
  BY <1>0, <1>1, <1>2
<1>4. ~Running'
  BY HaltIs
<1>5. \A i \in Dx : D(i) \in Nat /\ (i # sw_head => D(i)' = D(i) - 1)
  BY <1>0, <1>1, HeadMoves, DType DEF D
<1>6. D(sw_tail)' = D(sw_tail) - 1
  BY <1>0, <1>1, HeadMoves DEF D
<1>7. Own'
  BY <1>0, <1>1, <1>3 DEF LinuxInv, Own, OnePage
<1>8. OnePage' /\ Blank'
  BY <1>0, <1>1, <1>3 DEF LinuxInv, OnePage, Blank
<1>9. Used'
  BY <1>0, <1>1, <1>3, <1>4, SkbRef DEF LinuxInv, Used, Ahead
<1>10. Named'
  <2> SUFFICES ASSUME NEW i \in Dx, dx_ring[i].addr = aq_buf_daddr(buff_ring'[i]),
                      buff_ring'[i].page # NoPage
               PROVE  D(i)' < D(sw_tail)'
    BY <1>1, <1>4 DEF Named
  <2>1. i # sw_head /\ buff_ring'[i] = buff_ring[i]
    BY <1>3
  <2>2. D(i) < D(sw_tail)
    BY <2>1 DEF LinuxInv, Named
  <2> QED BY <1>0, <1>5, <1>6, <2>1, <2>2
<1> QED BY <1>7, <1>8, <1>9, <1>10 DEF LinuxInv

LEMMA StepLinux ==
    ASSUME Vmklnx = FALSE
    PROVE  BaseInv /\ LinuxInv /\ [Next]_vars => LinuxInv'
<1> SUFFICES ASSUME BaseInv, LinuxInv, [Next]_vars PROVE LinuxInv' OBVIOUS
<1>1. CASE \/ PollStart \/ ReceiveReturn \/ CleanNoMem \/ CleanReturn \/ FillReturn
           \/ \E a \in skbrefs : StackFree(a)
           \/ UNCHANGED vars
  BY <1>1, QuietIs, QuietLinux DEF Running
<1>2. CASE aq_vec_stop \/ DeinitReturn \/ aq_ring_free
  <2>1. UNCHANGED <<sw_head, sw_tail, hw_head, buff_ring, dx_ring, ringref, skbrefs>>
    BY <1>2 DEF aq_vec_stop, DeinitReturn, aq_ring_free, ring, mem
  <2> QED BY <1>2, <2>1, HaltIs, QuietLinux
<1>3. CASE Device
  BY <1>3, DeviceLinux
<1>4. CASE hw_ring_rx_receive
  BY <1>4, ReceiveLinux
<1>5. CASE CleanSkip \/ CleanError \/ (\E copied \in BOOLEAN : CleanDeliver(copied))
  BY <1>5, CleanLinux
<1>6. CASE FillReuse \/ FillFlip \/ \E page \in Pages : FillAlloc(page)
  BY <1>6, RefillLinux
<1>7. CASE FillNoMem \/ hw_ring_rx_fill
  BY <1>7, NoMemLinux, PostLinux
<1>8. CASE aq_vec_init \/ aq_ring_rx_deinit
  BY <1>8, StartLinux, DeinitLinux
<1> QED BY <1>1, <1>2, <1>3, <1>4, <1>5, <1>6, <1>7, <1>8 DEF Next, Poll, Clean, Refill, Life

\* The slots in the device's hands.
LEMMA DeviceSlotsDx ==
    ASSUME TypeOK
    PROVE  DeviceSlots \subseteq Dx
  BY DEF TypeOK, DeviceSlots, Slots

(***************************************************************************)
(* On Linux the device never writes to a buffer an skb references, and     *)
(* never to a page the ring gave back, through a descriptor that names the *)
(* buffer of its slot: wherever page and skb allocations fail, and whenever *)
(* the stack frees its skbs.                                               *)
(***************************************************************************)
THEOREM SkbsStayUntouched ==
    ASSUME Vmklnx = FALSE
    PROVE  Spec => []SkbUntouched
  <1>1. Init => BaseInv /\ LinuxInv
    BY InitBase, InitLinux
  <1>2. BaseInv /\ LinuxInv /\ [Next]_vars => (BaseInv /\ LinuxInv)'
    BY StepBase, StepLinux
  <1>3. BaseInv /\ LinuxInv => SkbUntouched
    <2> SUFFICES ASSUME BaseInv, LinuxInv, device = "up", NEW i \in DeviceSlots,
                        dx_ring[i].addr = aq_buf_daddr(buff_ring[i]),
                        PageOf(dx_ring[i].addr) # NoPage
                 PROVE  PageOf(dx_ring[i].addr) \in ringref /\ dx_ring[i].addr \notin skbrefs
      BY DEF SkbUntouched
    <2>1. i \in Dx /\ TypeOK
      BY DeviceSlotsDx DEF BaseInv
    <2>2. PageOf(dx_ring[i].addr) = buff_ring[i].page /\ buff_ring[i].page # NoPage
      BY DaddrIs DEF PageOf
    <2>3. Ahead(i)
      BY <2>1, <2>2 DEF LinuxInv, Named, Ahead, Running
    <2>4. ASSUME aq_buf_daddr(buff_ring[i]) \in skbrefs PROVE FALSE
      <3>1. buff_ring[i].off < buff_ring[i].off
        BY <2>1, <2>3, <2>4, DaddrIs DEF LinuxInv, Used
      <3>2. buff_ring[i].off \in Nat
        BY <2>1 DEF TypeOK
      <3> QED BY <3>1, <3>2
    <2> QED BY <2>1, <2>2, <2>4 DEF LinuxInv, Own
  <1> QED BY <1>1, <1>2, <1>3, PTL DEF Spec

(***************************************************************************)
(* On Linux aq_ring_rx_deinit gives back only pages the ring holds: no     *)
(* page is freed twice, wherever allocations fail.                         *)
(***************************************************************************)
THEOREM OwnPagesFreed ==
    ASSUME Vmklnx = FALSE
    PROVE  Spec => []FreesOwnPages
  <1>1. Init => BaseInv /\ LinuxInv
    BY InitBase, InitLinux
  <1>2. BaseInv /\ LinuxInv /\ [Next]_vars => (BaseInv /\ LinuxInv)'
    BY StepBase, StepLinux
  <1>3. BaseInv /\ LinuxInv => FreesOwnPages
    <2> SUFFICES ASSUME BaseInv, LinuxInv, sw_head # sw_tail
                 PROVE  buff_ring[sw_head].page \in ringref
      BY DEF FreesOwnPages
    <2>1. {sw_head, sw_tail} \subseteq Dx /\ D(sw_head) < D(sw_tail)
      BY DType DEF BaseInv
    <2> QED BY <2>1 DEF BaseInv, Held, LinuxInv, Own
  <1> QED BY <1>1, <1>2, <1>3, PTL DEF Spec

-----------------------------------------------------------------------------
(***************************************************************************)
(* Packets, when no allocation fails.  A slot is live from its write-back  *)
(* until its packet is cleaned.  What the device wrote of it is in the     *)
(* descriptor first and in the buffer once it was received.                *)
(***************************************************************************)
Received(k) == D(k) < D(hw_head)

Live(k) == \/ Received(k) /\ ~buff_ring[k].cleaned
           \/ D(hw_head) <= D(k) /\ D(k) < D(reg_head) /\ dx_ring[k].done

Eop(k)   == IF Received(k) THEN buff_ring[k].eop ELSE dx_ring[k].wb.eop
Nxt(k)   == IF Received(k) THEN buff_ring[k].next ELSE dx_ring[k].wb.next
First(k) == IF Received(k) THEN buff_ring[k].first ELSE dx_ring[k].wb.first

\* Slot n holds a further part of the packet that began in slot f.
Joined(n, f) == \/ Live(n) /\ First(n) = f
                \/ \E p \in open : p.last = n /\ p.first = f

\* Some slot of the packet that began in slot f links to slot k.
Came(k, f) == \E m \in Dx : Live(m) /\ ~Eop(m) /\ Nxt(m) = k /\ First(m) = f

\* The links of a packet go forward and stay in the packet ...
Linked == \A k \in Dx : Live(k) /\ ~Eop(k) => D(k) < D(Nxt(k)) /\ Joined(Nxt(k), First(k))

\* ... and reach all of it.
Reached == \A k \in Dx : Live(k) /\ First(k) # k => Came(k, First(k))
ReachedOpen == \A p \in open : p.first # p.last => Came(p.last, p.first)

\* Only the further slots of a packet are passed over as cleaned.
PassedOver == \A k \in Dx : Received(k) /\ buff_ring[k].cleaned => buff_ring[k].first # k

PktInv == Running => Linked /\ Reached /\ ReachedOpen /\ PassedOver

LEMMA NxtDx ==
    ASSUME TypeOK, NEW k \in Dx
    PROVE  Nxt(k) \in Dx /\ First(k) \in Dx
<1>1. buff_ring[k].next \in Dx /\ buff_ring[k].first \in Dx
  BY DEF TypeOK
<1>2. dx_ring[k].wb \in Wbs
  BY DEF TypeOK
<1> QED BY <1>1, <1>2 DEF Nxt, First, Wbs

\* The links survive a step that at most ends the packets that began in G.
LEMMA KeepLinks ==
    ASSUME TypeOK, Linked, Reached, ReachedOpen, open' = open, NEW G,
           \A k \in Dx : Live(k)' <=> Live(k) /\ First(k) \notin G,
           \A k \in Dx : Live(k)' => Eop(k)' = Eop(k) /\ Nxt(k)' = Nxt(k) /\ First(k)' = First(k),
           \A p \in open : p.first \notin G,
           \A k, n \in Dx : Live(k)' /\ D(k) < D(n) => Dist(sw_head', k) < Dist(sw_head', n)
    PROVE  Linked' /\ Reached' /\ ReachedOpen'
<1>1. \A k \in Dx : Nxt(k) \in Dx
  BY NxtDx
<1>2. ASSUME NEW k \in Dx, NEW f, f \notin G, Joined(k, f) PROVE Joined(k, f)'
  BY <1>2 DEF Joined
<1>3. ASSUME NEW k \in Dx, NEW f, f \notin G, Came(k, f) PROVE Came(k, f)'
  <2>1. PICK m \in Dx : Live(m) /\ ~Eop(m) /\ Nxt(m) = k /\ First(m) = f
    BY <1>3 DEF Came
  <2>2. Live(m)' /\ ~Eop(m)' /\ Nxt(m)' = k /\ First(m)' = f
    BY <1>3, <2>1
  <2> QED BY <2>2 DEF Came
<1>4. ASSUME NEW k \in Dx, Live(k)', ~Eop(k)'
      PROVE  Dist(sw_head', k) < Dist(sw_head', Nxt(k)') /\ Joined(Nxt(k), First(k))'
  <2>1. Live(k) /\ ~Eop(k) /\ First(k) \notin G /\ Nxt(k)' = Nxt(k) /\ First(k)' = First(k)
    BY <1>4
  <2>2. D(k) < D(Nxt(k)) /\ Joined(Nxt(k), First(k))
    BY <2>1 DEF Linked
  <2>3. Dist(sw_head', k) < Dist(sw_head', Nxt(k))
    BY <1>1, <1>4, <2>2
  <2> DEFINE n == Nxt(k)
             f == First(k)
  <2>4. Joined(n, f)'
    BY <1>1, <1>2, <2>1, <2>2
  <2> QED BY <2>1, <2>3, <2>4 DEF Joined
<1>5. Linked'
  BY <1>4 DEF Linked, D
<1>6. Reached'
  <2> SUFFICES ASSUME NEW k \in Dx, Live(k)', First(k)' # k PROVE Came(k, First(k))'
    BY DEF Reached
  <2>1. First(k)' = First(k) /\ First(k) \notin G /\ Came(k, First(k))
    BY DEF Reached
  <2>2. PICK f : f = First(k)
    OBVIOUS
  <2>3. Came(k, f)'
    BY <1>3, <2>1, <2>2
  <2> QED BY <2>1, <2>2, <2>3 DEF Came
<1>7. ReachedOpen'
  <2> SUFFICES ASSUME NEW p \in open, p.first # p.last PROVE Came(p.last, p.first)'
    BY DEF ReachedOpen
  <2>1. Came(p.last, p.first) /\ p.last \in Dx
    BY DEF ReachedOpen, TypeOK
  <2> QED BY <1>3, <2>1
<1> QED BY <1>5, <1>6, <1>7

\* A step that ends no packet.
LEMMA SameLinks ==
    ASSUME TypeOK, Linked, Reached, ReachedOpen, open' = open,
           \A k \in Dx : Live(k)' <=> Live(k),
           \A k \in Dx : Live(k)' => Eop(k)' = Eop(k) /\ Nxt(k)' = Nxt(k) /\ First(k)' = First(k),
           \A k, n \in Dx : Live(k)' /\ D(k) < D(n) => Dist(sw_head', k) < Dist(sw_head', n)
    PROVE  Linked' /\ Reached' /\ ReachedOpen'
<1> DEFINE G == {}
<1>1. (\A k \in Dx : Live(k)' <=> Live(k) /\ First(k) \notin G) /\ \A p \in open : p.first \notin G
  OBVIOUS
<1> HIDE DEF G
<1> QED BY <1>1, KeepLinks

\* A write-back of an open slot makes it live and nothing else.
LEMMA CloseLinks ==
    ASSUME TypeOK, Linked, Reached, ReachedOpen, NEW p \in open, ~Live(p.last),
           \A q \in open : q.last = p.last => q = p,
           \A k \in Dx : Live(k)' <=> Live(k) \/ k = p.last,
           \A k \in Dx : Live(k) => Eop(k)' = Eop(k) /\ Nxt(k)' = Nxt(k) /\ First(k)' = First(k),
           First(p.last)' = p.first, sw_head' = sw_head,
           \/ open' = open \ {p} /\ Eop(p.last)' = TRUE
           \/ /\ Eop(p.last)' = FALSE /\ Nxt(p.last)' = reg_head /\ D(p.last) < D(reg_head)
              /\ open' = (open \ {p}) \cup {[first |-> p.first, last |-> reg_head]}
    PROVE  Linked' /\ Reached' /\ ReachedOpen'
<1>0. (\A k \in Dx : Nxt(k) \in Dx) /\ p.last \in Dx /\ reg_head \in Dx
      /\ open \subseteq [first : Dx, last : Dx]
  BY NxtDx DEF TypeOK
<1> DEFINE n == [first |-> p.first, last |-> reg_head]
<1>1. n.first = p.first /\ n.last = reg_head
  OBVIOUS
<1>2. \/ open' = open \ {p} /\ Eop(p.last)'
      \/ /\ ~Eop(p.last)' /\ Nxt(p.last)' = reg_head /\ D(p.last) < D(reg_head)
         /\ open' = (open \ {p}) \cup {n}
  OBVIOUS
<1> HIDE DEF n
<1>3. ASSUME NEW k \in Dx, NEW f, Joined(k, f) PROVE Joined(k, f)'
  <2>1. CASE Live(k) /\ First(k) = f
    BY <2>1 DEF Joined
  <2>2. ASSUME NEW q \in open, q.last = k, q.first = f PROVE Joined(k, f)'
    <3>1. CASE q = p
      BY <2>2, <3>1 DEF Joined
    <3>2. CASE q # p
      <4>1. q \in open'
        BY <1>2, <3>2
      <4> QED BY <2>2, <4>1 DEF Joined
    <3> QED BY <3>1, <3>2
  <2> QED BY <1>3, <2>1, <2>2 DEF Joined
<1>4. ASSUME NEW k \in Dx, NEW f, Came(k, f) PROVE Came(k, f)'
  <2>1. PICK m \in Dx : Live(m) /\ ~Eop(m) /\ Nxt(m) = k /\ First(m) = f
    BY <1>4 DEF Came
  <2>2. Live(m)' /\ ~Eop(m)' /\ Nxt(m)' = k /\ First(m)' = f
    BY <2>1
  <2> QED BY <2>2 DEF Came
<1>5. ASSUME NEW k \in Dx, Live(k)', ~Eop(k)'
      PROVE  D(k) < D(Nxt(k)') /\ Joined(Nxt(k), First(k))'
  <2>1. CASE k = p.last
    <3>1. n \in open' /\ Nxt(k)' = reg_head /\ First(k)' = p.first /\ D(k) < D(reg_head)
      BY <1>2, <1>5, <2>1
    <3> QED BY <1>1, <3>1 DEF Joined
  <2>2. CASE k # p.last
    <3>1. Live(k) /\ ~Eop(k) /\ Nxt(k)' = Nxt(k) /\ First(k)' = First(k)
      BY <1>5, <2>2
    <3>2. D(k) < D(Nxt(k)) /\ Joined(Nxt(k), First(k))
      BY <3>1 DEF Linked
    <3>3. PICK x, f : x \in Dx /\ x = Nxt(k) /\ f = First(k)
      BY <1>0
    <3>4. Joined(x, f)'
      BY <1>3, <3>2, <3>3
    <3> QED BY <3>1, <3>2, <3>3, <3>4 DEF Joined
  <2> QED BY <2>1, <2>2
<1>6. Linked'
  BY <1>5 DEF Linked, D
<1>7. ASSUME NEW k \in Dx, Live(k)', First(k)' # k PROVE Came(k, First(k))'
  <2>1. CASE k = p.last
    <3>1. Came(p.last, p.first)
      BY <1>7, <2>1 DEF ReachedOpen
    <3>2. Came(p.last, p.first)'
      <4>1. PICK x, f : x \in Dx /\ x = p.last /\ f = p.first
        BY <1>0
      <4> QED BY <1>4, <3>1, <4>1
    <3> QED BY <2>1, <3>2 DEF Came
  <2>2. CASE k # p.last
    <3>1. Live(k) /\ First(k)' = First(k)
      BY <1>7, <2>2
    <3>2. Came(k, First(k))
      BY <1>7, <3>1 DEF Reached
    <3>3. PICK f : f = First(k)
      OBVIOUS
    <3>4. Came(k, f)'
      BY <1>4, <3>2, <3>3
    <3> QED BY <3>1, <3>3, <3>4 DEF Came
  <2> QED BY <2>1, <2>2
<1>8. ASSUME NEW q \in open', q.first # q.last PROVE Came(q.last, q.first)'
  <2>1. CASE q \in open
    <3>1. Came(q.last, q.first) /\ q.last \in Dx
      BY <1>0, <1>8, <2>1 DEF ReachedOpen
    <3> QED BY <1>4, <3>1
  <2>2. CASE q \notin open
    <3>1. q = n /\ ~Eop(p.last)' /\ Nxt(p.last)' = reg_head
      BY <1>2, <1>8, <2>2
    <3>2. Live(p.last)' /\ Nxt(p.last)' = q.last /\ First(p.last)' = q.first
      BY <1>0, <1>1, <3>1
    <3> QED BY <1>0, <3>1, <3>2 DEF Came
  <2> QED BY <2>1, <2>2
<1>9. ReachedOpen'
  BY <1>8 DEF ReachedOpen
<1> QED BY <1>6, <1>7, <1>9 DEF Reached

\* A slot that is not written back is not live.
LEMMA NotDone ==
    ASSUME TypeOK, NEW k \in Dx, D(hw_head) <= D(k), ~dx_ring[k].done
    PROVE  ~Live(k) /\ ~Received(k)
  BY DType DEF Live, Received

LEMMA DevicePkt ==
    ASSUME BaseInv, OrderInv, PktInv, Device
    PROVE  PktInv'
<1> USE DEF ring, mem, poll
<1>0. /\ TypeOK /\ {sw_head, hw_head, reg_head, reg_tail, sw_tail} \subseteq Dx
      /\ \A p \in open : p.last \in Dx
      /\ dx_ring \in [Dx -> DescT]
  BY DEF BaseInv, TypeOK, DescT
<1>1. UNCHANGED <<sw_head, sw_tail, hw_head, buff_ring>> /\ Running
  BY DEF Device, HwStart, HwContinue, HwEnd, Running
<1>2. /\ Ordered /\ Fresh /\ OpenAhead
      /\ Linked /\ Reached /\ ReachedOpen /\ PassedOver
  BY <1>1 DEF OrderInv, PktInv
<1>3. /\ \A i \in Dx : D(i)' = D(i) /\ D(i) \in Nat
      /\ \A i \in Dx : Received(i)' <=> Received(i)
      /\ D(hw_head)' = D(hw_head)
  BY <1>0, <1>1, DType DEF D, Received
<1>4. PassedOver'
  BY <1>1, <1>2, <1>3 DEF PassedOver
<1>5. ASSUME reg_head # reg_tail, reg_head' = aq_ring_next_dx(reg_head)
      PROVE  /\ D(reg_head)' = D(reg_head) + 1 /\ ~dx_ring[reg_head].done
             /\ \A i \in Dx : D(i) < D(reg_head)' <=> D(i) < D(reg_head) \/ i = reg_head
  <2>1. D(reg_head) < D(reg_tail) /\ D(reg_tail) < Size
    BY <1>0, <1>2, <1>5, DType DEF Ordered
  <2>2. D(reg_head)' = D(reg_head) + 1
    BY <1>0, <1>1, <1>3, <1>5, <2>1, DistNextFar, SizeAssumption DEF D
  <2>3. ~dx_ring[reg_head].done
    BY <1>0, <1>2, <1>3, <2>1 DEF Fresh
  <2>4. \A i \in Dx : i # reg_head => D(i) # D(reg_head)
    BY <1>0, DType
  <2> QED BY <1>0, <1>3, <2>2, <2>3, <2>4
<1>6. CASE HwStart
  <2> DEFINE n == [first |-> reg_head, last |-> reg_head]
  <2>1. /\ open' = open \cup {n} /\ UNCHANGED dx_ring
        /\ reg_head # reg_tail /\ reg_head' = aq_ring_next_dx(reg_head)
    BY <1>6 DEF HwStart
  <2>2. n.first = n.last
    OBVIOUS
  <2> HIDE DEF n
  <2>3. \A k \in Dx : Live(k)' <=> Live(k)
    BY <1>1, <1>3, <1>5, <2>1 DEF Live
  <2>4. \A k \in Dx : Eop(k)' = Eop(k) /\ Nxt(k)' = Nxt(k) /\ First(k)' = First(k)
    BY <1>1, <1>3, <2>1 DEF Eop, Nxt, First
  <2>5. Linked'
    <3> SUFFICES ASSUME NEW k \in Dx, Live(k), ~Eop(k)
                 PROVE  D(k) < Dist(sw_head', Nxt(k)') /\ Joined(Nxt(k), First(k))'
      BY <1>3, <2>3, <2>4 DEF Linked, D
    <3>1. PICK x, f : x \in Dx /\ x = Nxt(k) /\ f = First(k)
      BY <1>0, NxtDx
    <3>2. D(k) < D(x) /\ Joined(x, f)
      BY <1>2, <3>1 DEF Linked
    <3>3. x \in Dx
      BY <3>1
    <3>4. Joined(x, f)'
      BY <2>1, <2>3, <2>4, <3>2, <3>3 DEF Joined
    <3> QED BY <1>1, <2>4, <3>1, <3>2, <3>4 DEF Joined, D
  <2>6. \A k \in Dx : \A f : Came(k, f) => Came(k, f)'
    BY <2>3, <2>4 DEF Came
  <2>7. Reached'
    <3> SUFFICES ASSUME NEW k \in Dx, Live(k), First(k) # k PROVE Came(k, First(k))'
      BY <2>3, <2>4 DEF Reached
    <3>1. PICK f : f = First(k)
      OBVIOUS
    <3>2. Came(k, f)'
      BY <1>2, <2>6, <3>1 DEF Reached
    <3> QED BY <2>4, <3>1, <3>2 DEF Came
  <2>8. ReachedOpen'
    <3> SUFFICES ASSUME NEW p \in open, p.first # p.last PROVE Came(p.last, p.first)'
      BY <2>1, <2>2 DEF ReachedOpen
    <3> QED BY <1>0, <1>2, <2>6 DEF ReachedOpen
  <2> QED BY <1>4, <2>5, <2>7, <2>8 DEF PktInv
<1>7. ASSUME NEW p \in open, NEW wb,
             dx_ring' = [dx_ring EXCEPT ![p.last] = Done(wb)], wb.first = p.first,
             \A i \in Dx : D(i) < D(reg_head) => D(i) < D(reg_head)',
             \A i \in Dx : D(i) < D(reg_head)' => D(i) < D(reg_head) \/ ~dx_ring[i].done,
             \/ open' = open \ {p} /\ wb.eop = TRUE
             \/ /\ wb.eop = FALSE /\ wb.next = reg_head
                /\ open' = (open \ {p}) \cup {[first |-> p.first, last |-> reg_head]}
      PROVE  PktInv'
  <2>1. p.last \in Dx /\ D(hw_head) <= D(p.last) /\ D(p.last) < D(reg_head) /\ ~dx_ring[p.last].done
    BY <1>0, <1>2 DEF OpenAhead
  <2>2. ~Live(p.last) /\ ~Received(p.last)
    BY <1>0, <2>1, NotDone
  <2>3. /\ \A i \in Dx : i # p.last => dx_ring'[i] = dx_ring[i]
        /\ dx_ring'[p.last].done /\ dx_ring'[p.last].wb = wb
    BY <1>0, <1>7, <2>1 DEF Done
  <2>4. \A k \in Dx : Live(k)' <=> Live(k) \/ k = p.last
    <3>1. ASSUME NEW k \in Dx, k # p.last PROVE Live(k)' <=> Live(k)
      BY <1>1, <1>3, <1>7, <2>3, <3>1 DEF Live
    <3>2. Live(p.last)'
      BY <1>3, <1>7, <2>1, <2>3 DEF Live
    <3> QED BY <2>1, <3>1, <3>2
  <2>5. \A k \in Dx : k # p.last => Eop(k)' = Eop(k) /\ Nxt(k)' = Nxt(k) /\ First(k)' = First(k)
    BY <1>1, <1>3, <2>3 DEF Eop, Nxt, First
  <2>6. Eop(p.last)' = wb.eop /\ Nxt(p.last)' = wb.next /\ First(p.last)' = p.first
    <3>1. ~Received(p.last)'
      BY <1>3, <2>1, <2>2
    <3> QED BY <1>7, <2>3, <3>1 DEF Eop, Nxt, First
  <2>7. \A q \in open : q.last = p.last => q = p
    BY <1>2 DEF OpenAhead
  <2>8. Linked' /\ Reached' /\ ReachedOpen'
    BY <1>0, <1>1, <1>2, <1>7, <2>1, <2>2, <2>4, <2>5, <2>6, <2>7, CloseLinks
  <2> QED BY <1>4, <2>8 DEF PktInv
<1>8. ASSUME NEW p \in open, HwContinue(p) PROVE PktInv'
  <2> DEFINE wb == [eop |-> FALSE, next |-> reg_head, error |-> FALSE, first |-> p.first]
  <2>1. /\ open' = (open \ {p}) \cup {[first |-> p.first, last |-> reg_head]}
        /\ dx_ring' = [dx_ring EXCEPT ![p.last] = Done(wb)]
        /\ reg_head # reg_tail /\ reg_head' = aq_ring_next_dx(reg_head)
    BY <1>8 DEF HwContinue
  <2>2. wb.first = p.first /\ wb.eop = FALSE /\ wb.next = reg_head
    OBVIOUS
  <2> HIDE DEF wb
  <2> QED BY <1>5, <1>7, <2>1, <2>2
<1>9. ASSUME NEW p \in open, NEW error \in BOOLEAN, HwEnd(p, error) PROVE PktInv'
  <2> DEFINE wb == [eop |-> TRUE, next |-> 0, error |-> error, first |-> p.first]
  <2>1. /\ open' = open \ {p} /\ dx_ring' = [dx_ring EXCEPT ![p.last] = Done(wb)]
        /\ reg_head' = reg_head
    BY <1>9 DEF HwEnd
  <2>2. wb.first = p.first /\ wb.eop = TRUE
    OBVIOUS
  <2> HIDE DEF wb
  <2>3. D(reg_head)' = D(reg_head)
    BY <1>1, <2>1 DEF D
  <2> QED BY <1>7, <2>1, <2>2, <2>3
<1> QED BY <1>6, <1>8, <1>9 DEF Device

LEMMA ReceivePkt ==
    ASSUME BaseInv, OrderInv, PktInv, hw_ring_rx_receive
    PROVE  PktInv'
<1>0. TypeOK /\ {sw_head, hw_head, reg_head} \subseteq Dx
  BY DEF BaseInv, TypeOK
<1>1. /\ UNCHANGED <<sw_head, dx_ring, open>> /\ Running /\ dx_ring[hw_head].done
      /\ D(hw_head) < D(reg_head) /\ D(hw_head)' = D(hw_head) + 1 /\ D(reg_head)' = D(reg_head)
      /\ \A i \in Dx : D(i)' = D(i) /\ D(i) \in Nat
  BY ReceiveIs DEF D
<1>2. /\ \A i \in Dx : i # hw_head => buff_ring'[i] = buff_ring[i]
      /\ ~buff_ring'[hw_head].cleaned
      /\ buff_ring'[hw_head].eop = dx_ring[hw_head].wb.eop
      /\ buff_ring'[hw_head].next = dx_ring[hw_head].wb.next
      /\ buff_ring'[hw_head].first = dx_ring[hw_head].wb.first
  BY ReceivePages
<1>3. Linked /\ Reached /\ ReachedOpen /\ PassedOver
  BY <1>1 DEF PktInv
<1>4. \A k \in Dx : k # hw_head => D(k) # D(hw_head)
  BY <1>0, DType
<1>5. \A k \in Dx : Received(k)' <=> Received(k) \/ k = hw_head
  BY <1>0, <1>1, <1>4 DEF Received
<1>6. ~Received(hw_head)
  BY <1>0, <1>1 DEF Received
<1>7. \A k \in Dx : Live(k)' <=> Live(k)
  <2>1. ASSUME NEW k \in Dx, k # hw_head PROVE Live(k)' <=> Live(k)
    <3>1. D(hw_head)' <= D(k) <=> D(hw_head) <= D(k)
      BY <1>0, <1>1, <1>4, <2>1
    <3> QED BY <1>1, <1>2, <1>5, <2>1, <3>1 DEF Live
  <2>2. Live(hw_head)
    BY <1>0, <1>1 DEF Live
  <2>3. buff_ring'[hw_head].cleaned = FALSE /\ Dist(sw_head', hw_head) < D(hw_head)'
    BY <1>0, <1>1, <1>2, ReceivePages DEF D
  <2> QED BY <2>1, <2>2, <2>3 DEF Live, Received, D
<1>8. \A k \in Dx : Eop(k)' = Eop(k) /\ Nxt(k)' = Nxt(k) /\ First(k)' = First(k)
  BY <1>1, <1>2, <1>5, <1>6 DEF Eop, Nxt, First
<1>9. Linked' /\ Reached' /\ ReachedOpen'
  <2>1. \A k, n \in Dx : D(k) < D(n) => Dist(sw_head', k) < Dist(sw_head', n)
    BY <1>1 DEF D
  <2> QED BY <1>0, <1>1, <1>3, <1>7, <1>8, <2>1, SameLinks
<1>10. PassedOver'
  BY <1>2, <1>3, <1>5 DEF PassedOver
<1> QED BY <1>9, <1>10 DEF PktInv

\* Steps that leave what is behind the device's head alone.
LEMMA BehindPkt ==
    ASSUME BaseInv, PktInv, Running' => Running,
           UNCHANGED <<sw_head, hw_head, reg_head, open>>,
           \A k \in Dx : D(k) < D(hw_head) => buff_ring'[k] = buff_ring[k],
           \A k \in Dx : D(k) < D(reg_head) => dx_ring'[k] = dx_ring[k],
           D(hw_head) <= D(reg_head)
    PROVE  PktInv'
<1> SUFFICES ASSUME Running PROVE Linked' /\ Reached' /\ ReachedOpen' /\ PassedOver'
  BY DEF PktInv
<1>0. TypeOK /\ Linked /\ Reached /\ ReachedOpen /\ PassedOver
  BY DEF BaseInv, PktInv
<1>1. /\ \A k \in Dx : D(k)' = D(k) /\ D(k) \in Nat
      /\ D(hw_head)' = D(hw_head) /\ D(reg_head)' = D(reg_head)
      /\ \A k \in Dx : Received(k)' <=> Received(k)
  BY <1>0, DType DEF D, Received
<1>2. \A k \in Dx : Live(k)' <=> Live(k)
  BY <1>1 DEF Live, Received
<1>3. \A k \in Dx : Live(k) => Eop(k)' = Eop(k) /\ Nxt(k)' = Nxt(k) /\ First(k)' = First(k)
  BY <1>1 DEF Live, Received, Eop, Nxt, First
<1>4. \A k, n \in Dx : D(k) < D(n) => Dist(sw_head', k) < Dist(sw_head', n)
  BY DEF D
<1>5. Linked' /\ Reached' /\ ReachedOpen'
  BY <1>0, <1>2, <1>3, <1>4, SameLinks
<1>6. PassedOver'
  BY <1>0, <1>1 DEF PassedOver, Received
<1> QED BY <1>5, <1>6

(***************************************************************************)
(* The chain aq_ring_rx_clean follows from a slot that is not cleaned, if  *)
(* it is all received, is the packet that began there.                     *)
(***************************************************************************)
LEMMA ChainWhole ==
    ASSUME BaseInv, OrderInv, PktInv, Cleaning, ~buff_ring[sw_head].cleaned,
           IsRscCompleted(Chain(sw_head))
    PROVE  /\ Chain(sw_head) \subseteq Dx
           /\ \A k \in Dx : k \in Chain(sw_head) <=> Live(k) /\ First(k) = sw_head
           /\ \A k \in Chain(sw_head) : Received(k)
           /\ \A p \in open : p.first # sw_head
           /\ \E k \in Chain(sw_head) : buff_ring[k].eop
<1> DEFINE C == Chain(sw_head)
<1>0. /\ TypeOK /\ Running /\ {sw_head, hw_head} \subseteq Dx
      /\ D(sw_head) = 0 /\ D(hw_head) \in Nat \ {0}
      /\ \A k \in Dx : D(k) \in Nat
      /\ \A p \in open : p.last \in Dx
  <2>1. TypeOK /\ Running /\ sw_head # hw_head
    BY DEF BaseInv, Phases, Running, Cleaning, TypeOK
  <2> QED BY <2>1, DType DEF TypeOK
<1>1. OpenAhead /\ Linked /\ Reached /\ ReachedOpen
  BY <1>0 DEF OrderInv, PktInv
<1>2. C \subseteq Dx /\ Follows(C, sw_head) /\ \A S \in SUBSET Dx : Follows(S, sw_head) => C \subseteq S
  BY <1>0, ChainIs
<1>3. \A k \in C : Received(k)
  BY <1>0, ChainInRing DEF Received
<1> HIDE DEF C
<1>4. \A k \in C : Eop(k) = buff_ring[k].eop /\ Nxt(k) = buff_ring[k].next
  BY <1>3 DEF Eop, Nxt
<1>5. sw_head \in C /\ Live(sw_head) /\ First(sw_head) = sw_head
  <2>1. sw_head \in C /\ Live(sw_head)
    BY <1>0, <1>2 DEF Follows, Live, Received
  <2>2. ASSUME First(sw_head) # sw_head PROVE FALSE
    <3>1. Came(sw_head, First(sw_head))
      BY <1>0, <1>1, <2>1, <2>2 DEF Reached
    <3>2. PICK m \in Dx : Live(m) /\ ~Eop(m) /\ Nxt(m) = sw_head
      BY <3>1 DEF Came
    <3>3. D(m) < D(sw_head)
      BY <1>1, <3>2 DEF Linked
    <3> QED BY <1>0, <3>3
  <2> QED BY <2>1, <2>2
<1>6. C \subseteq {k \in C : Live(k) /\ First(k) = sw_head}
  <2> DEFINE S == {k \in C : Live(k) /\ First(k) = sw_head}
  <2>1. ASSUME NEW k \in S PROVE buff_ring[k].eop \/ buff_ring[k].next \in S
    <3> SUFFICES ASSUME ~buff_ring[k].eop PROVE buff_ring[k].next \in S
      OBVIOUS
    <3>1. k \in C /\ k \in Dx /\ Live(k) /\ First(k) = sw_head
      BY <1>2
    <3>2. PICK n \in C : n = buff_ring[k].next /\ n = Nxt(k)
      BY <1>2, <1>4, <3>1 DEF Follows
    <3>3. Joined(n, sw_head)
      BY <1>1, <1>4, <3>1, <3>2 DEF Linked
    <3>4. ASSUME NEW p \in open, p.last = n PROVE FALSE
      BY <1>0, <1>1, <1>3, <3>4 DEF OpenAhead, Received
    <3> QED BY <3>2, <3>3, <3>4 DEF Joined
  <2>2. S \in SUBSET Dx /\ sw_head \in S
    BY <1>2, <1>5
  <2> HIDE DEF S
  <2>3. Follows(S, sw_head)
    BY <2>1, <2>2 DEF Follows
  <2>4. C \subseteq S
    BY <1>2, <2>2, <2>3
  <2> QED BY <2>4 DEF S
<1>7. ASSUME NEW k \in Dx, Live(k), First(k) = sw_head PROVE k \in C
  <2> DEFINE M == {j \in Dx : Live(j) /\ First(j) = sw_head /\ j \notin C}
  <2> SUFFICES ASSUME M # {} PROVE FALSE
    BY <1>7
  <2>1. PICK j \in M : \A i \in M : Dist(sw_head, j) <= Dist(sw_head, i)
    <3>1. M \subseteq Dx
      OBVIOUS
    <3> HIDE DEF M
    <3> QED BY <1>0, <3>1, NearestSlot
  <2>2. j # sw_head /\ Came(j, sw_head)
    BY <1>1, <1>5, <2>1 DEF Reached
  <2>3. PICK m \in Dx : Live(m) /\ ~Eop(m) /\ Nxt(m) = j /\ First(m) = sw_head
    BY <2>2 DEF Came
  <2>4. D(m) < D(j)
    BY <1>1, <2>3 DEF Linked
  <2>5. m \in C
    BY <1>0, <2>1, <2>3, <2>4 DEF D
  <2>6. j \in C
    BY <1>2, <1>4, <2>3, <2>5 DEF Follows
  <2> QED BY <2>1, <2>6
<1>8. ASSUME NEW p \in open, p.first = sw_head PROVE FALSE
  <2>1. p.last \in Dx /\ D(hw_head) <= D(p.last)
    BY <1>0, <1>1 DEF OpenAhead
  <2>2. p.first # p.last
    BY <1>0, <1>8, <2>1
  <2>3. PICK m \in Dx : Live(m) /\ ~Eop(m) /\ Nxt(m) = p.last /\ First(m) = sw_head
    BY <1>1, <1>8, <2>2 DEF ReachedOpen, Came
  <2>4. p.last \in C
    BY <1>2, <1>4, <1>7, <2>3 DEF Follows
  <2> QED BY <1>0, <1>3, <2>1, <2>4 DEF Received
<1>9. \E k \in C : buff_ring[k].eop
  <2>1. PICK k \in C : \A j \in C : Dist(sw_head, j) <= Dist(sw_head, k)
    BY <1>0, <1>2, <1>5, FarthestSlot
  <2> SUFFICES ASSUME ~buff_ring[k].eop PROVE FALSE
    OBVIOUS
  <2>2. k \in Dx /\ Live(k) /\ ~Eop(k) /\ Nxt(k) \in C
    BY <1>2, <1>4, <1>6 DEF Follows
  <2>3. D(k) < D(Nxt(k)) /\ D(Nxt(k)) <= D(k)
    BY <1>1, <2>1, <2>2 DEF Linked, D
  <2>4. D(k) \in Nat /\ D(Nxt(k)) \in Nat
    BY <1>0, <1>2, <2>2
  <2> QED BY <2>3, <2>4
<1> QED BY <1>2, <1>3, <1>6, <1>7, <1>8, <1>9 DEF C

\* The flags a packet's slots have after it was delivered or dropped.
LEMMA PacketCleaned ==
    ASSUME BaseInv, CleanError \/ (\E copied \in BOOLEAN : CleanDeliver(copied))
    PROVE  /\ Cleaning /\ ~buff_ring[sw_head].cleaned /\ IsRscCompleted(Chain(sw_head))
           /\ \A j \in Dx : buff_ring'[j].cleaned <=> buff_ring[j].cleaned
                                                        \/ j \in Chain(sw_head) \ {sw_head}
<1> DEFINE C == Chain(sw_head)
<1>0. \A j \in Dx : buff_ring[j] \in BuffT
  BY BuffsAre DEF BaseInv
<1>1. CASE CleanError
  <2>1. buff_ring' = [j \in Dx |-> IF j \in C \ {sw_head} THEN Cleaned(buff_ring[j]) ELSE buff_ring[j]]
    BY <1>1 DEF CleanError
  <2> HIDE DEF C
  <2>2. \A j \in Dx : buff_ring'[j].cleaned <=> buff_ring[j].cleaned \/ j \in C \ {sw_head}
    BY <1>0, <2>1, CleanedIs
  <2> QED BY <1>1, <2>2 DEF C, CleanError
<1>2. ASSUME NEW copied \in BOOLEAN, CleanDeliver(copied)
      PROVE  /\ Cleaning /\ ~buff_ring[sw_head].cleaned /\ IsRscCompleted(C)
             /\ \A j \in Dx : buff_ring'[j].cleaned <=> buff_ring[j].cleaned \/ j \in C \ {sw_head}
  <2> DEFINE R == IF copied THEN C \ {sw_head} ELSE C
             g(j) == IF j \in R THEN Taken(buff_ring[j]) ELSE buff_ring[j]
  <2>1. buff_ring' = [j \in Dx |-> IF j \in C \ {sw_head} THEN Cleaned(g(j)) ELSE g(j)]
    BY <1>2 DEF CleanDeliver
  <2>2. \A j \in Dx : g(j) \in BuffT /\ g(j).cleaned = buff_ring[j].cleaned
    BY <1>0, TakenIs
  <2> HIDE DEF C, R, g
  <2>3. \A j \in Dx : buff_ring'[j].cleaned <=> buff_ring[j].cleaned \/ j \in C \ {sw_head}
    BY <2>1, <2>2, CleanedIs
  <2> QED BY <1>2, <2>3 DEF C, CleanDeliver
<1> QED BY <1>1, <1>2

LEMMA CleanPkt ==
    ASSUME BaseInv, OrderInv, PktInv,
           CleanSkip \/ CleanError \/ (\E copied \in BOOLEAN : CleanDeliver(copied))
    PROVE  PktInv'
<1>0. TypeOK /\ {sw_head, hw_head, reg_head, sw_tail, reg_tail} \subseteq Dx /\ Running /\ Cleaning
  BY CleanIs DEF BaseInv, TypeOK
<1>1. Linked /\ Reached /\ ReachedOpen /\ PassedOver /\ OpenAhead /\ Ordered
  BY <1>0 DEF PktInv, OrderInv
<1>2. /\ \A i \in Dx : D(i) \in Nat /\ D(i) < Size /\ (D(i) = 0 <=> i = sw_head)
      /\ \A i \in Dx \ {sw_head} : D(i)' = D(i) - 1
      /\ D(hw_head)' = D(hw_head) - 1 /\ D(reg_head)' = D(reg_head) - 1
      /\ 0 < D(hw_head) /\ Dist(sw_head', sw_head) = Size - 1
      /\ D(hw_head) <= D(reg_head)
  BY <1>1, CleanMoves DEF Ordered
<1>3. /\ UNCHANGED <<dx_ring, open>>
      /\ \A i \in Dx : /\ buff_ring'[i].eop = buff_ring[i].eop
                       /\ buff_ring'[i].next = buff_ring[i].next
                       /\ buff_ring'[i].first = buff_ring[i].first
  BY CleanIs
<1>h. PICK h \in Dx : h = sw_head
  BY <1>0
<1>4. ~Received(h)' /\ ~Live(h)'
  <2>1. ~(Dist(sw_head', h) < D(hw_head)') /\ ~(Dist(sw_head', h) < D(reg_head)')
    BY <1>0, <1>2, <1>h, SizeAssumption
  <2> QED BY <2>1 DEF Received, Live, D
<1>5. \A k \in Dx : k # sw_head => /\ Received(k)' <=> Received(k)
                                   /\ D(hw_head)' <= D(k)' <=> D(hw_head) <= D(k)
                                   /\ D(k)' < D(reg_head)' <=> D(k) < D(reg_head)
  BY <1>0, <1>2 DEF Received
<1>6. \A k \in Dx : k # sw_head =>
         Eop(k)' = Eop(k) /\ Nxt(k)' = Nxt(k) /\ First(k)' = First(k)
  BY <1>3, <1>5 DEF Eop, Nxt, First
<1>7. \A k, n \in Dx : k # sw_head /\ D(k) < D(n) => Dist(sw_head', k) < Dist(sw_head', n)
  <2> SUFFICES ASSUME NEW k \in Dx, NEW n \in Dx, k # sw_head, D(k) < D(n)
               PROVE  D(k)' < D(n)'
    BY DEF D
  <2>1. n # sw_head
    BY <1>0, <1>2
  <2> QED BY <1>2, <2>1
<1>8. CASE CleanSkip
  <2>1. buff_ring' = buff_ring /\ buff_ring[sw_head].cleaned
    BY <1>8 DEF CleanSkip
  <2>2. ~Live(sw_head)
    BY <1>0, <1>2, <2>1 DEF Live, Received
  <2>3. \A k \in Dx : Live(k)' <=> Live(k)
    BY <1>3, <1>4, <1>5, <1>h, <2>1, <2>2 DEF Live
  <2>4. Linked' /\ Reached' /\ ReachedOpen'
    BY <1>0, <1>1, <1>3, <1>4, <1>6, <1>7, <1>h, <2>3, SameLinks
  <2>5. PassedOver'
    BY <1>1, <1>4, <1>5, <1>h, <2>1 DEF PassedOver
  <2> QED BY <2>4, <2>5 DEF PktInv
<1>9. CASE CleanError \/ (\E copied \in BOOLEAN : CleanDeliver(copied))
  <2> DEFINE C == Chain(sw_head)
  <2>1. \A j \in Dx : buff_ring'[j].cleaned <=> buff_ring[j].cleaned \/ j \in C \ {sw_head}
    BY <1>9, PacketCleaned
  <2>2. /\ \A k \in Dx : k \in C <=> Live(k) /\ First(k) = sw_head
        /\ \A k \in C : Received(k)
        /\ \A p \in open : p.first # sw_head
        /\ sw_head \in C
    <3>1. sw_head \in C
      BY <1>0, ChainIs DEF Follows
    <3> QED BY <1>9, <3>1, PacketCleaned, ChainWhole
  <2> HIDE DEF C
  <2>3. \A k \in Dx : Live(k)' <=> Live(k) /\ First(k) \notin {sw_head}
    <3> SUFFICES ASSUME NEW k \in Dx PROVE Live(k)' <=> Live(k) /\ k \notin C
      BY <2>2
    <3>1. CASE k = sw_head
      BY <1>4, <1>h, <2>2, <3>1
    <3>2. CASE k # sw_head
      <4>1. CASE k \in C
        <5>1. Received(k) /\ Received(k)' /\ buff_ring'[k].cleaned /\ D(k) < D(hw_head)
          BY <1>5, <2>1, <2>2, <3>2, <4>1 DEF Received
        <5>2. ~(D(hw_head)' <= D(k)')
          BY <1>0, <1>2, <1>5, <3>2, <5>1
        <5> QED BY <4>1, <5>1, <5>2 DEF Live
      <4>2. CASE k \notin C
        BY <1>3, <1>5, <2>1, <3>2, <4>2 DEF Live
      <4> QED BY <4>1, <4>2
    <3> QED BY <3>1, <3>2
  <2>4. Linked' /\ Reached' /\ ReachedOpen'
    BY <1>0, <1>1, <1>3, <1>4, <1>6, <1>7, <1>h, <2>2, <2>3, KeepLinks
  <2>5. PassedOver'
    <3> SUFFICES ASSUME NEW k \in Dx, Received(k)', buff_ring'[k].cleaned
                 PROVE  buff_ring[k].first # k
      BY <1>3 DEF PassedOver
    <3>1. k # sw_head /\ Received(k)
      BY <1>4, <1>5, <1>h
    <3>2. CASE buff_ring[k].cleaned
      BY <1>1, <3>1, <3>2 DEF PassedOver
    <3>3. CASE k \in C
      BY <2>2, <3>1, <3>3 DEF First
    <3> QED BY <2>1, <3>2, <3>3
  <2> QED BY <2>4, <2>5 DEF PktInv
<1> QED BY <1>8, <1>9

LEMMA FillPkt ==
    ASSUME BaseInv, OrderInv, PktInv, FillReuse \/ FillFlip \/ \E page \in Pages : FillAlloc(page)
    PROVE  PktInv'
<1>0. TypeOK /\ {sw_head, hw_head, reg_head, reg_tail, sw_tail} \subseteq Dx
      /\ buff_ring \in [Dx -> BuffT]
  BY BuffsAre DEF BaseInv, TypeOK
<1>1. PICK page \in Pages, off \in 0 .. Parts - 1 : Fill(page, off) /\ pc = "fill"
  BY FillIs DEF Filling
<1> DEFINE n == Buff(page, off, FALSE, NoWb, FALSE)
<1>2. /\ UNCHANGED <<sw_head, hw_head, reg_head, open, dx_ring, device>>
      /\ buff_ring' = [buff_ring EXCEPT ![sw_tail] = n]
  BY <1>1 DEF Fill, regs
<1> HIDE DEF n
<1>3. Running /\ Running'
  BY <1>1, <1>2 DEF BaseInv, Phases, Running, TypeOK
<1>4. D(hw_head) <= D(reg_head) /\ D(hw_head) <= D(sw_tail) /\ \A i \in Dx : D(i) \in Nat
  BY <1>0, <1>3, DType DEF OrderInv, Ordered, BaseInv, Heads
<1>5. ASSUME NEW k \in Dx, D(k) < D(hw_head) PROVE buff_ring'[k] = buff_ring[k]
  <2>1. k # sw_tail
    BY <1>0, <1>4, <1>5
  <2> QED BY <1>0, <1>2, <2>1
<1> QED BY <1>2, <1>3, <1>4, <1>5, BehindPkt

LEMMA PostPkt ==
    ASSUME BaseInv, OrderInv, PktInv, hw_ring_rx_fill
    PROVE  PktInv'
<1>0. TypeOK /\ {sw_head, hw_head, reg_head, reg_tail, sw_tail} \subseteq Dx
  BY DEF BaseInv, TypeOK
<1>1. D(hw_head) <= D(reg_head) /\ D(reg_head) <= D(reg_tail) /\ \A i \in Dx : D(i) \in Nat
  BY <1>0, PostIs, DType DEF Ordered
<1>2. ASSUME NEW k \in Dx, D(k) < D(reg_head) PROVE dx_ring'[k] = dx_ring[k]
  <2>1. ~(D(reg_tail) <= D(k))
    BY <1>0, <1>1, <1>2
  <2> QED BY <2>1, PostIs
<1> QED BY <1>1, <1>2, PostIs, BehindPkt

LEMMA StartPkt ==
    ASSUME BaseInv, aq_vec_init
    PROVE  PktInv'
<1>1. sw_head' = 0 /\ hw_head' = 0 /\ reg_head' = 0 /\ open' = {}
  BY DEF aq_vec_init, BaseInv, Phases
<1>2. D(hw_head)' = 0 /\ D(reg_head)' = 0 /\ \A i \in Dx : D(i)' \in Nat
  BY <1>1, ZeroDx, DistType DEF D
<1>3. \A k \in Dx : ~Live(k)' /\ ~Received(k)'
  BY <1>2 DEF Live, Received
<1> QED BY <1>1, <1>3 DEF PktInv, Linked, Reached, ReachedOpen, PassedOver

LEMMA StepPkt ==
    ASSUME AllocFails = {}
    PROVE  BaseInv /\ OrderInv /\ PktInv /\ [Next]_vars => PktInv'
<1> SUFFICES ASSUME BaseInv, OrderInv, PktInv, [Next]_vars PROVE PktInv' OBVIOUS
<1>1. CASE \/ PollStart \/ ReceiveReturn \/ CleanNoMem \/ CleanReturn \/ FillReturn
           \/ \E a \in skbrefs : StackFree(a)
           \/ UNCHANGED vars
  <2> SUFFICES ASSUME Running' PROVE PktInv'
    BY DEF PktInv
  <2>1. Running /\ D(hw_head) <= D(reg_head)
    BY <1>1, QuietIs DEF Running, OrderInv, Ordered
  <2> QED BY <1>1, <2>1, QuietIs, BehindPkt
<1>2. CASE Device
  BY <1>2, DevicePkt
<1>3. CASE hw_ring_rx_receive
  BY <1>3, ReceivePkt
<1>4. CASE CleanSkip \/ CleanError \/ (\E copied \in BOOLEAN : CleanDeliver(copied))
  BY <1>4, CleanPkt
<1>5. CASE FillReuse \/ FillFlip \/ \E page \in Pages : FillAlloc(page)
  BY <1>5, FillPkt
<1>6. CASE hw_ring_rx_fill
  BY <1>6, PostPkt
<1>7. CASE aq_vec_init
  BY <1>7, StartPkt
<1>8. CASE aq_vec_stop \/ aq_ring_rx_deinit \/ DeinitReturn \/ aq_ring_free
  BY <1>8, HaltIs DEF PktInv
<1>9. ~FillNoMem
  BY DEF FillNoMem, AllocFailed
<1> QED BY <1>1, <1>2, <1>3, <1>4, <1>5, <1>6, <1>7, <1>8, <1>9
        DEF Next, Poll, Clean, Refill, Life

(***************************************************************************)
(* When no allocation fails, what aq_ring_rx_clean turns into one skb, or  *)
(* drops, is exactly the packet that began at sw_head, to its last buffer, *)
(* however the device interleaves the buffers of packets; and what it      *)
(* skips as cleaned is never the first buffer of a packet.                 *)
(***************************************************************************)
THEOREM PacketsStayWhole ==
    ASSUME AllocFails = {}
    PROVE  Spec => []WholePacket
  <1>1. Init => BaseInv /\ OrderInv /\ PktInv
    BY InitBase DEF Init, OrderInv, PktInv, Running
  <1>2. BaseInv /\ OrderInv /\ PktInv /\ [Next]_vars => (BaseInv /\ OrderInv /\ PktInv)'
    BY StepBase, StepOrder, StepPkt
  <1>3. BaseInv /\ OrderInv /\ PktInv => WholePacket
    <2> SUFFICES ASSUME BaseInv, OrderInv, PktInv, Cleaning PROVE WholePacket
      BY DEF WholePacket
    <2> DEFINE C == Chain(sw_head)
    <2>0. TypeOK /\ Running /\ {sw_head, hw_head} \subseteq Dx /\ sw_head # hw_head
      BY DEF BaseInv, Phases, Running, Cleaning, TypeOK
    <2>1. Received(sw_head)
      BY <2>0, DType DEF Received
    <2>2. CASE buff_ring[sw_head].cleaned
      BY <2>0, <2>1, <2>2 DEF WholePacket, PktInv, PassedOver
    <2>3. CASE ~buff_ring[sw_head].cleaned
      <3> SUFFICES ASSUME IsRscCompleted(C)
                   PROVE  /\ C = {j \in Slots(sw_head, hw_head) :
                                    buff_ring[j].first = sw_head /\ ~buff_ring[j].cleaned}
                          /\ \E j \in C : buff_ring[j].eop
        BY <2>3 DEF WholePacket
      <3>1. /\ C \subseteq Dx
            /\ \A k \in Dx : k \in C <=> Live(k) /\ First(k) = sw_head
            /\ \A k \in C : Received(k)
            /\ \E k \in C : buff_ring[k].eop
        BY <2>3, ChainWhole
      <3> HIDE DEF C
      <3>2. \A k : k \in Slots(sw_head, hw_head) <=> k \in Dx /\ Received(k)
        BY DEF Slots, Received, D
      <3>3. \A k \in Dx : Received(k) => /\ Live(k) <=> ~buff_ring[k].cleaned
                                         /\ First(k) = buff_ring[k].first
        BY <2>0, DType DEF Received, Live, First
      <3>4. \A k : k \in C <=> /\ k \in Slots(sw_head, hw_head)
                               /\ buff_ring[k].first = sw_head /\ ~buff_ring[k].cleaned
        <4>1. ASSUME NEW k \in C
              PROVE  /\ k \in Slots(sw_head, hw_head)
                     /\ buff_ring[k].first = sw_head /\ ~buff_ring[k].cleaned
          <5>1. k \in Dx /\ Received(k) /\ Live(k) /\ First(k) = sw_head
            BY <3>1, <4>1
          <5> QED BY <3>2, <3>3, <5>1
        <4>2. ASSUME NEW k \in Slots(sw_head, hw_head), buff_ring[k].first = sw_head,
                     ~buff_ring[k].cleaned
              PROVE  k \in C
          <5>1. k \in Dx /\ Received(k)
            BY <3>2, <4>2
          <5>2. Live(k) /\ First(k) = sw_head
            BY <4>2, <5>1 DEF Live, First
          <5> QED BY <3>1, <5>1, <5>2
        <4> QED BY <4>1, <4>2
      <3> QED BY <3>1, <3>4
    <2> QED BY <2>2, <2>3
  <1> QED BY <1>1, <1>2, <1>3, PTL DEF Spec

-----------------------------------------------------------------------------
(* The device writes to its own buffers only, when no allocation fails. *)

\* A descriptor that was posted and not written back names its slot's buffer.
PostedIs == Running => \A i \in Dx :
    D(hw_head) <= D(i) /\ D(i) < D(reg_tail) /\ ~dx_ring[i].done =>
        dx_ring[i].addr = aq_buf_daddr(buff_ring[i])

\* What PostedIs says survives a step that only looks at slots it did not post.
LEMMA KeepPosted ==
    ASSUME BaseInv, PostedIs, Running' => Running,
           UNCHANGED <<sw_head, reg_tail>>, D(hw_head) <= D(hw_head)',
           D(hw_head) \in Nat, D(hw_head)' \in Nat,
           \A i \in Dx : D(hw_head)' <= D(i) /\ D(i) < D(reg_tail) /\ ~dx_ring'[i].done =>
               /\ dx_ring'[i] = dx_ring[i]
               /\ aq_buf_daddr(buff_ring'[i]) = aq_buf_daddr(buff_ring[i])
    PROVE  PostedIs'
<1> SUFFICES ASSUME Running, NEW i \in Dx, D(hw_head)' <= D(i), D(i) < D(reg_tail),
                    ~dx_ring'[i].done
             PROVE  dx_ring'[i].addr = aq_buf_daddr(buff_ring'[i])
  BY DEF PostedIs, D, aq_buf_daddr
<1>1. D(i) \in Nat
  BY DType DEF BaseInv
<1>2. D(hw_head) <= D(i)
  BY <1>1
<1>3. dx_ring'[i] = dx_ring[i] /\ aq_buf_daddr(buff_ring'[i]) = aq_buf_daddr(buff_ring[i])
  OBVIOUS
<1> QED BY <1>2, <1>3 DEF PostedIs

LEMMA CleanPosted ==
    ASSUME BaseInv, OrderInv, PostedIs,
           CleanSkip \/ CleanError \/ (\E copied \in BOOLEAN : CleanDeliver(copied))
    PROVE  PostedIs'
<1>0. UNCHANGED <<dx_ring, device>> /\ Running
  BY CleanIs
<1>1. /\ \A i \in Dx : D(i) \in Nat
      /\ \A i \in Dx \ {sw_head} : D(i)' = D(i) - 1
      /\ D(sw_head) = 0 /\ Dist(sw_head', sw_head) = Size - 1
      /\ D(hw_head)' = D(hw_head) - 1 /\ D(reg_tail)' = D(reg_tail) - 1
      /\ {sw_head, hw_head, reg_tail} \subseteq Dx /\ D(reg_tail) < Size
  BY CleanMoves
<1>2. \A i \in Dx : aq_buf_daddr(buff_ring'[i]) = aq_buf_daddr(buff_ring[i])
  BY CleanIs DEF aq_buf_daddr
<1> SUFFICES ASSUME NEW i \in Dx, D(hw_head)' <= D(i)', D(i)' < D(reg_tail)', ~dx_ring[i].done
             PROVE  dx_ring[i].addr = aq_buf_daddr(buff_ring[i])
  BY <1>0, <1>2 DEF PostedIs, aq_buf_daddr
<1>3. i # sw_head
  <2>1. Dist(sw_head', i) < Size - 1
    BY <1>1, SizeAssumption DEF D
  <2> QED BY <1>1, <2>1, SizeAssumption
<1>4. D(hw_head) <= D(i) /\ D(i) < D(reg_tail)
  BY <1>1, <1>3
<1> QED BY <1>0, <1>4 DEF PostedIs

LEMMA StepPosted ==
    ASSUME AllocFails = {}
    PROVE  BaseInv /\ OrderInv /\ PostedIs /\ [Next]_vars => PostedIs'
<1> SUFFICES ASSUME BaseInv, OrderInv, PostedIs, [Next]_vars PROVE PostedIs' OBVIOUS
<1> USE DEF ring, regs, mem, poll
<1>0. TypeOK /\ {sw_head, hw_head, reg_head, reg_tail, sw_tail} \subseteq Dx
      /\ \A i \in Dx : D(i) \in Nat
  BY DType DEF BaseInv, TypeOK
<1>1. CASE \/ PollStart \/ ReceiveReturn \/ CleanNoMem \/ CleanReturn \/ FillReturn
           \/ \E a \in skbrefs : StackFree(a)
           \/ UNCHANGED vars
  <2>1. UNCHANGED <<sw_head, hw_head, reg_tail, buff_ring, dx_ring, device>>
    BY <1>1, QuietIs
  <2> QED BY <2>1 DEF PostedIs, Running, D
<1>2. CASE Device
  <2>1. UNCHANGED <<sw_head, hw_head, reg_tail, buff_ring, device>>
    BY <1>2 DEF Device, HwStart, HwContinue, HwEnd
  <2>2. dx_ring \in [Dx -> DescT] /\ \A p \in open : p.last \in Dx
    BY <1>0 DEF TypeOK, DescT
  <2>3. \A wb : (Done(wb)).done
    BY DEF Done
  <2>4. \A i \in Dx : dx_ring'[i] = dx_ring[i] \/ dx_ring'[i].done
    <3>1. CASE HwStart
      BY <3>1 DEF HwStart
    <3>2. ASSUME NEW p \in open, NEW wb, dx_ring' = [dx_ring EXCEPT ![p.last] = Done(wb)],
                 NEW i \in Dx
          PROVE  dx_ring'[i] = dx_ring[i] \/ dx_ring'[i].done
      BY <2>2, <2>3, <3>2
    <3>3. ASSUME NEW p \in open, HwContinue(p), NEW i \in Dx
          PROVE  dx_ring'[i] = dx_ring[i] \/ dx_ring'[i].done
      BY <3>2, <3>3 DEF HwContinue
    <3>4. ASSUME NEW p \in open, NEW error \in BOOLEAN, HwEnd(p, error), NEW i \in Dx
          PROVE  dx_ring'[i] = dx_ring[i] \/ dx_ring'[i].done
      BY <3>2, <3>4 DEF HwEnd
    <3> QED BY <1>2, <3>1, <3>3, <3>4 DEF Device
  <2> QED BY <2>1, <2>4 DEF PostedIs, Running, D
<1>3. CASE hw_ring_rx_receive
  <2>1. /\ UNCHANGED <<sw_head, reg_tail, dx_ring, device>> /\ D(hw_head)' = D(hw_head) + 1
        /\ \A i \in Dx : aq_buf_daddr(buff_ring'[i]) = aq_buf_daddr(buff_ring[i])
    BY <1>3, ReceivePages DEF aq_buf_daddr
  <2> QED BY <1>0, <2>1, KeepPosted DEF Running
<1>4. CASE CleanSkip \/ CleanError \/ (\E copied \in BOOLEAN : CleanDeliver(copied))
  BY <1>4, CleanPosted
<1>5. CASE FillReuse \/ FillFlip \/ \E page \in Pages : FillAlloc(page)
  <2>1. PICK page \in Pages, off \in 0 .. Parts - 1 : Fill(page, off) /\ pc = "fill"
    BY <1>5, FillIs DEF Filling
  <2> DEFINE n == Buff(page, off, FALSE, NoWb, FALSE)
  <2>2. /\ UNCHANGED <<sw_head, hw_head, reg_tail, dx_ring, device>>
        /\ buff_ring' = [buff_ring EXCEPT ![sw_tail] = n]
    BY <2>1 DEF Fill
  <2> HIDE DEF n
  <2>3. Running
    BY <1>0, <2>1 DEF BaseInv, Phases, Running, TypeOK
  <2>4. D(reg_tail) <= D(sw_tail) /\ D(hw_head)' = D(hw_head)
    BY <2>2, <2>3 DEF OrderInv, Ordered, D
  <2>5. ASSUME NEW i \in Dx, D(i) < D(reg_tail) PROVE buff_ring'[i] = buff_ring[i]
    <3>1. i # sw_tail
      BY <1>0, <2>4, <2>5
    <3> QED BY <1>0, <2>2, <3>1, BuffsAre
  <2> QED BY <1>0, <2>2, <2>3, <2>4, <2>5, KeepPosted
<1>6. CASE hw_ring_rx_fill
  <2>1. /\ UNCHANGED <<sw_head, sw_tail, hw_head, buff_ring>> /\ reg_tail' = sw_tail /\ Running
        /\ \A i \in Dx : dx_ring'[i] = IF D(reg_tail) <= D(i) /\ D(i) < D(sw_tail)
                                        THEN Posted(aq_buf_daddr(buff_ring[i]))
                                        ELSE dx_ring[i]
    BY <1>6, PostIs
  <2> SUFFICES ASSUME NEW i \in Dx, D(hw_head) <= D(i), D(i) < D(sw_tail), ~dx_ring'[i].done
               PROVE  dx_ring'[i].addr = aq_buf_daddr(buff_ring[i])
    BY <2>1 DEF PostedIs, D
  <2>2. CASE D(reg_tail) <= D(i)
    <3>1. dx_ring'[i] = Posted(aq_buf_daddr(buff_ring[i]))
      BY <2>1, <2>2
    <3> QED BY <3>1 DEF Posted
  <2>3. CASE D(i) < D(reg_tail)
    <3>1. dx_ring'[i] = dx_ring[i]
      BY <1>0, <2>1, <2>3
    <3> QED BY <2>1, <2>3, <3>1 DEF PostedIs
  <2> QED BY <1>0, <2>2, <2>3
<1>7. CASE aq_vec_init
  <2>1. D(reg_tail)' = 0 /\ \A i \in Dx : D(i)' \in Nat
    BY <1>7, ZeroDx, DistType DEF D, aq_vec_init
  <2> QED BY <2>1 DEF PostedIs
<1>8. CASE aq_vec_stop \/ aq_ring_rx_deinit \/ DeinitReturn \/ aq_ring_free
  BY <1>8, HaltIs DEF PostedIs
<1>9. ~FillNoMem
  BY DEF FillNoMem, AllocFailed
<1> QED BY <1>1, <1>2, <1>3, <1>4, <1>5, <1>6, <1>7, <1>8, <1>9
        DEF Next, Poll, Clean, Refill, Life

(***************************************************************************)
(* The pages of the ESXi build: an skb takes the page of its buffer over   *)
(* and the ring's taken flag says so.                                      *)
(***************************************************************************)
InRing(i) == D(i) < D(sw_tail)

\* The ring holds the pages that are not taken, except that the teardown may
\* meet the page of a slot a second time ...
EOwn == \A i \in Dx :
    ~buff_ring[i].taken /\ buff_ring[i].page # NoPage /\ (pc = "deinit" => ~InRing(i)) =>
        buff_ring[i].page \in ringref

\* ... each in one slot, ...
EOne == \A i, j \in Dx :
    ~buff_ring[i].taken /\ ~buff_ring[j].taken
    /\ buff_ring[i].page # NoPage /\ buff_ring[i].page = buff_ring[j].page
        => i = j

\* ... and none that an skb has.
ESkb == \A a \in skbrefs : a[1] \notin ringref

\* Only slots of cleaned packets are taken,
ETaken == Running => \A i \in Dx : InRing(i) /\ buff_ring[i].taken => Received(i) /\ buff_ring[i].cleaned

\* and a page that came back from the stack is in a slot filled later.
ELater == \A i, j \in Dx :
    InRing(i) /\ buff_ring[i].taken /\ ~buff_ring[j].taken
    /\ buff_ring[i].page # NoPage /\ buff_ring[i].page = buff_ring[j].page
        => D(i) < D(j) /\ InRing(j)

EsxiInv == EOwn /\ EOne /\ ESkb /\ ETaken /\ ELater

LEMMA InitEsxi == Init => EsxiInv
<1> SUFFICES ASSUME Init PROVE EsxiInv OBVIOUS
<1>1. \A i \in Dx : buff_ring[i].page = NoPage /\ buff_ring[i].taken = FALSE
  BY DEF Init, Buff
<1>2. skbrefs = {}
  BY DEF Init
<1> QED BY <1>1, <1>2 DEF EsxiInv, EOwn, EOne, ESkb, ETaken, ELater

\* Steps that leave indices and buffers alone.
LEMMA QuietEsxi ==
    ASSUME BaseInv, EsxiInv,
           UNCHANGED <<sw_head, sw_tail, hw_head, buff_ring, ringref>>,
           skbrefs' \subseteq skbrefs, Running' => Running,
           (pc' # "deinit" /\ pc = "deinit") => sw_head = sw_tail
    PROVE  EsxiInv'
<1>1. (\A i \in Dx : D(i)' = D(i) /\ D(i) \in Nat /\ (InRing(i)' <=> InRing(i))
                     /\ (Received(i)' <=> Received(i)))
  BY DType DEF BaseInv, D, InRing, Received
<1>2. sw_head = sw_tail => \A i \in Dx : ~InRing(i)
  BY DType DEF BaseInv, InRing
<1>3. EOwn'
  BY <1>1, <1>2 DEF EsxiInv, EOwn
<1>4. EOne' /\ ESkb'
  BY DEF EsxiInv, EOne, ESkb
<1>5. ETaken'
  BY <1>1 DEF EsxiInv, ETaken
<1>6. ELater'
  BY <1>1 DEF EsxiInv, ELater
<1> QED BY <1>3, <1>4, <1>5, <1>6 DEF EsxiInv

LEMMA ReceiveEsxi ==
    ASSUME BaseInv, EsxiInv, hw_ring_rx_receive
    PROVE  EsxiInv'
<1>1. /\ UNCHANGED <<sw_head, sw_tail, ringref, skbrefs, pc, device>> /\ Running
      /\ \A i \in Dx : /\ buff_ring'[i].page = buff_ring[i].page
                       /\ buff_ring'[i].taken = buff_ring[i].taken
                       /\ i # hw_head => buff_ring'[i] = buff_ring[i]
      /\ hw_head \in Dx /\ D(hw_head) < D(sw_tail) /\ D(hw_head)' = D(hw_head) + 1
  BY ReceivePages
<1>2. \A i \in Dx : D(i)' = D(i) /\ D(i) \in Nat /\ (InRing(i)' <=> InRing(i))
                    /\ (Received(i) => Received(i)')
  BY <1>1, DType DEF BaseInv, D, InRing, Received
<1>3. EOwn' /\ EOne' /\ ESkb'
  BY <1>1, <1>2 DEF EsxiInv, EOwn, EOne, ESkb
<1>4. ~buff_ring[hw_head].taken
  <2>1. InRing(hw_head) /\ ~Received(hw_head)
    BY <1>1, <1>2 DEF InRing, Received
  <2> QED BY <1>1, <2>1 DEF EsxiInv, ETaken
<1>5. ETaken'
  BY <1>1, <1>2, <1>4 DEF EsxiInv, ETaken
<1>6. ELater'
  BY <1>1, <1>2 DEF EsxiInv, ELater
<1> QED BY <1>3, <1>5, <1>6 DEF EsxiInv

\* The taken flags a delivered packet leaves, and what becomes of its pages.
LEMMA PacketTaken ==
    ASSUME Vmklnx = TRUE, BaseInv, NEW copied \in BOOLEAN, CleanDeliver(copied)
    PROVE  \E R \in SUBSET Chain(sw_head) :
              /\ \A j \in Dx : buff_ring'[j].taken <=> j \in R \/ buff_ring[j].taken
              /\ skbrefs' = skbrefs \cup {aq_buf_daddr(buff_ring[j]) : j \in R}
              /\ ringref' = ringref \ {buff_ring[j].page : j \in R}
<1> DEFINE C == Chain(sw_head)
           R == IF copied THEN C \ {sw_head} ELSE C
           g(j) == IF j \in R THEN Taken(buff_ring[j]) ELSE buff_ring[j]
<1>0. \A j \in Dx : buff_ring[j] \in BuffT
  BY BuffsAre DEF BaseInv
<1>1. /\ buff_ring' = [j \in Dx |-> IF j \in C \ {sw_head} THEN Cleaned(g(j)) ELSE g(j)]
      /\ skbrefs' = skbrefs \cup {aq_buf_daddr(buff_ring[j]) : j \in R}
      /\ ringref' = ringref \ {buff_ring[j].page : j \in R}
  BY DEF CleanDeliver
<1>2. R \in SUBSET C
  OBVIOUS
<1> HIDE DEF R
<1>3. \A j \in Dx : g(j) \in BuffT /\ (g(j).taken <=> j \in R \/ buff_ring[j].taken)
  BY <1>0, TakenIs
<1> HIDE DEF g, C
<1>4. \A j \in Dx : buff_ring'[j].taken = g(j).taken
  BY <1>1, <1>3, CleanedIs
<1>5. \A j \in Dx : buff_ring'[j].taken <=> j \in R \/ buff_ring[j].taken
  BY <1>3, <1>4
<1> QED BY <1>1, <1>2, <1>5 DEF C

\* What a round of the clean leaves: slots that stay in the ring, flags.
LEMMA CleanEsxi ==
    ASSUME Vmklnx = TRUE, BaseInv, OrderInv, PktInv, EsxiInv,
           CleanSkip \/ CleanError \/ (\E copied \in BOOLEAN : CleanDeliver(copied))
    PROVE  EsxiInv'
<1>0. /\ TypeOK /\ Running /\ Running' /\ pc' = pc /\ pc # "deinit" /\ buff_ring' \in [Dx -> BuffT]
      /\ \A i \in Dx : buff_ring'[i].page = buff_ring[i].page
  BY CleanIs DEF BaseInv, Running, Cleaning
<1>1. /\ \A i \in Dx : D(i) \in Nat /\ D(i) < Size /\ (D(i) = 0 <=> i = sw_head)
      /\ \A i \in Dx \ {sw_head} : D(i)' = D(i) - 1
      /\ D(hw_head)' = D(hw_head) - 1 /\ D(sw_tail)' = D(sw_tail) - 1
      /\ 0 < D(hw_head) /\ Dist(sw_head', sw_head) = Size - 1
      /\ {sw_head, hw_head, sw_tail} \subseteq Dx
  BY CleanMoves
<1>2. \A i \in Dx : InRing(i)' => i # sw_head
  <2> SUFFICES ASSUME NEW i \in Dx, InRing(i)' PROVE i # sw_head
    OBVIOUS
  <2>1. Dist(sw_head', i) < D(sw_tail) - 1
    BY <1>1 DEF InRing, D
  <2> QED BY <1>1, <2>1, SizeAssumption
<1>3. \A i \in Dx : i # sw_head => /\ InRing(i)' <=> InRing(i)
                                   /\ Received(i)' <=> Received(i)
  BY <1>1 DEF InRing, Received
<1>4. PICK R \in SUBSET Dx :
         /\ \A j \in Dx : buff_ring'[j].taken <=> j \in R \/ buff_ring[j].taken
         /\ \A j \in R : ~buff_ring[j].taken /\ Received(j) /\ (j # sw_head => buff_ring'[j].cleaned)
         /\ \A j \in Dx : buff_ring[j].cleaned => buff_ring'[j].cleaned
         /\ skbrefs' = skbrefs \cup {aq_buf_daddr(buff_ring[j]) : j \in R}
         /\ ringref' = ringref \ {buff_ring[j].page : j \in R}
  <2>1. CASE CleanSkip
    <3>1. buff_ring' = buff_ring /\ skbrefs' = skbrefs /\ ringref' = ringref
      BY <2>1 DEF CleanSkip, mem
    <3> WITNESS {} \in SUBSET Dx
    <3> QED BY <3>1
  <2>2. CASE CleanError
    <3>1. skbrefs' = skbrefs /\ ringref' = ringref
      BY <2>2 DEF CleanError, mem
    <3>2. \A j \in Dx : buff_ring[j].cleaned => buff_ring'[j].cleaned
      BY <2>2, PacketCleaned
    <3>3. \A j \in Dx : buff_ring'[j].taken = buff_ring[j].taken
      <4> DEFINE C == Chain(sw_head)
      <4>1. buff_ring' = [j \in Dx |-> IF j \in C \ {sw_head} THEN Cleaned(buff_ring[j]) ELSE buff_ring[j]]
        BY <2>2 DEF CleanError
      <4> HIDE DEF C
      <4> QED BY <1>0, <4>1, CleanedIs, BuffsAre
    <3> WITNESS {} \in SUBSET Dx
    <3> QED BY <3>1, <3>2, <3>3
  <2>3. ASSUME NEW copied \in BOOLEAN, CleanDeliver(copied)
        PROVE  \E R \in SUBSET Dx :
                  /\ \A j \in Dx : buff_ring'[j].taken <=> j \in R \/ buff_ring[j].taken
                  /\ \A j \in R : ~buff_ring[j].taken /\ Received(j) /\ (j # sw_head => buff_ring'[j].cleaned)
                  /\ \A j \in Dx : buff_ring[j].cleaned => buff_ring'[j].cleaned
                  /\ skbrefs' = skbrefs \cup {aq_buf_daddr(buff_ring[j]) : j \in R}
                  /\ ringref' = ringref \ {buff_ring[j].page : j \in R}
    <3>1. PICK R \in SUBSET Chain(sw_head) :
              /\ \A j \in Dx : buff_ring'[j].taken <=> j \in R \/ buff_ring[j].taken
              /\ skbrefs' = skbrefs \cup {aq_buf_daddr(buff_ring[j]) : j \in R}
              /\ ringref' = ringref \ {buff_ring[j].page : j \in R}
      BY <2>3, PacketTaken
    <3>2. /\ Cleaning /\ ~buff_ring[sw_head].cleaned /\ IsRscCompleted(Chain(sw_head))
          /\ \A j \in Dx : buff_ring'[j].cleaned <=> buff_ring[j].cleaned
                                                       \/ j \in Chain(sw_head) \ {sw_head}
      BY <2>3, PacketCleaned
    <3>3. /\ Chain(sw_head) \subseteq Dx /\ \A k \in Chain(sw_head) : Received(k) /\ Live(k)
      BY <3>2, ChainWhole
    <3>4. ASSUME NEW j \in R PROVE ~buff_ring[j].taken
      <4>1. j \in Dx /\ Received(j) /\ ~buff_ring[j].cleaned
        BY <1>1, <3>3 DEF Live, Received
      <4>2. D(hw_head) <= D(sw_tail)
        BY <1>0 DEF BaseInv, Heads
      <4>3. InRing(j)
        BY <1>1, <4>1, <4>2 DEF InRing, Received
      <4> QED BY <1>0, <4>1, <4>3 DEF EsxiInv, ETaken
    <3> QED BY <3>1, <3>2, <3>3, <3>4
  <2> QED BY <2>1, <2>2, <2>3
<1>5. EOwn'
  <2> SUFFICES ASSUME NEW i \in Dx, ~buff_ring'[i].taken, buff_ring[i].page # NoPage
               PROVE  buff_ring[i].page \in ringref'
    BY <1>0 DEF EOwn
  <2>1. ~buff_ring[i].taken /\ i \notin R
    BY <1>4
  <2>2. buff_ring[i].page \in ringref
    BY <1>0, <2>1 DEF EsxiInv, EOwn
  <2>3. \A j \in R : buff_ring[j].page # buff_ring[i].page
    BY <1>4, <2>1 DEF EsxiInv, EOne
  <2> QED BY <1>4, <2>2, <2>3
<1>6. EOne'
  BY <1>0, <1>4 DEF EsxiInv, EOne
<1>7. ESkb'
  <2> SUFFICES ASSUME NEW a \in skbrefs' PROVE a[1] \notin ringref'
    BY DEF ESkb
  <2>1. CASE a \in skbrefs
    BY <1>4, <2>1 DEF EsxiInv, ESkb
  <2>2. CASE a \notin skbrefs
    <3>1. PICK j \in R : a = aq_buf_daddr(buff_ring[j])
      BY <1>4, <2>2
    <3>2. a[1] = buff_ring[j].page
      BY <3>1, DaddrIs
    <3> QED BY <1>4, <3>2
  <2> QED BY <2>1, <2>2
<1>8. ETaken'
  <2> SUFFICES ASSUME NEW i \in Dx, InRing(i)', buff_ring'[i].taken
               PROVE  Received(i)' /\ buff_ring'[i].cleaned
    BY DEF ETaken
  <2>1. i # sw_head /\ InRing(i) /\ (Received(i)' <=> Received(i))
    BY <1>2, <1>3
  <2>2. CASE i \in R
    BY <1>4, <2>1, <2>2
  <2>3. CASE buff_ring[i].taken
    BY <1>0, <1>4, <2>1, <2>3 DEF EsxiInv, ETaken
  <2> QED BY <1>4, <2>2, <2>3
<1>9. ELater'
  <2> SUFFICES ASSUME NEW i \in Dx, NEW j \in Dx, InRing(i)', buff_ring'[i].taken,
                      ~buff_ring'[j].taken, buff_ring[i].page # NoPage,
                      buff_ring[i].page = buff_ring[j].page
               PROVE  D(i)' < D(j)' /\ InRing(j)'
    BY <1>0 DEF ELater
  <2>1. i # sw_head /\ InRing(i) /\ ~buff_ring[j].taken /\ j \notin R
    BY <1>2, <1>3, <1>4
  <2>2. buff_ring[i].taken
    BY <1>4, <2>1 DEF EsxiInv, EOne
  <2>3. D(i) < D(j) /\ InRing(j)
    BY <2>1, <2>2 DEF EsxiInv, ELater
  <2>4. j # sw_head
    BY <1>1, <2>3
  <2> QED BY <1>1, <1>3, <2>1, <2>3, <2>4
<1> QED BY <1>5, <1>6, <1>7, <1>8, <1>9 DEF EsxiInv

\* A slot is given a page the ring holds and no other slot has.
LEMMA FillEsxi ==
    ASSUME BaseInv, EsxiInv, Filling, NEW page \in Pages, NEW off \in 0 .. Parts - 1,
           Fill(page, off), page \in ringref', ringref \subseteq ringref',
           \A j \in Dx \ {sw_tail} : ~buff_ring[j].taken => buff_ring[j].page # page,
           \A a \in skbrefs : a[1] \notin ringref'
    PROVE  EsxiInv'
<1> USE DEF regs, poll
<1> DEFINE n == Buff(page, off, FALSE, NoWb, FALSE)
<1>1. /\ UNCHANGED <<sw_head, hw_head, skbrefs, device, pc>> /\ pc = "fill" /\ Avail > 0
      /\ buff_ring' = [buff_ring EXCEPT ![sw_tail] = n] /\ sw_tail' = aq_ring_next_dx(sw_tail)
  BY DEF Fill, Filling
<1>2. n.page = page /\ n.taken = FALSE
  BY DEF Buff
<1> HIDE DEF n
<1>3. TypeOK /\ sw_tail \in Dx /\ hw_head \in Dx /\ buff_ring \in [Dx -> BuffT]
  BY BuffsAre DEF BaseInv, TypeOK
<1>4. /\ buff_ring'[sw_tail].page = page /\ ~buff_ring'[sw_tail].taken
      /\ \A i \in Dx : i # sw_tail => buff_ring'[i] = buff_ring[i]
  BY <1>1, <1>2, <1>3
<1>5. /\ D(sw_tail)' = D(sw_tail) + 1
      /\ \A i \in Dx : D(i)' = D(i) /\ D(i) \in Nat /\ (i # sw_tail => D(i) # D(sw_tail))
  BY <1>1, <1>3, TailMoves, DType DEF D
<1>6. \A i \in Dx : InRing(i)' <=> InRing(i) \/ i = sw_tail
  BY <1>3, <1>5 DEF InRing
<1>7. \A i \in Dx : Received(i)' <=> Received(i)
  BY <1>1 DEF Received, D
<1>8. EOwn'
  BY <1>1, <1>4 DEF EsxiInv, EOwn
<1>9. EOne'
  BY <1>3, <1>4 DEF EsxiInv, EOne
<1>10. ESkb'
  BY <1>1 DEF ESkb
<1>11. ETaken'
  BY <1>1, <1>4, <1>6, <1>7 DEF EsxiInv, ETaken, Running
<1>12. ELater'
  <2> SUFFICES ASSUME NEW i \in Dx, NEW j \in Dx, InRing(i)', buff_ring'[i].taken,
                      ~buff_ring'[j].taken, buff_ring'[i].page # NoPage,
                      buff_ring'[i].page = buff_ring'[j].page
               PROVE  D(i) < D(j) /\ InRing(j)'
    BY <1>5 DEF ELater
  <2>1. i # sw_tail /\ InRing(i) /\ buff_ring'[i] = buff_ring[i]
    BY <1>4, <1>6
  <2>2. CASE j = sw_tail
    BY <1>6, <2>1, <2>2 DEF InRing
  <2>3. CASE j # sw_tail
    <3>1. D(i) < D(j) /\ InRing(j)
      BY <1>4, <2>1, <2>3 DEF EsxiInv, ELater
    <3> QED BY <1>6, <3>1
  <2> QED BY <2>2, <2>3
<1> QED BY <1>8, <1>9, <1>10, <1>11, <1>12 DEF EsxiInv

LEMMA RefillEsxi ==
    ASSUME Vmklnx = TRUE, BaseInv, EsxiInv,
           FillReuse \/ FillFlip \/ \E page \in Pages : FillAlloc(page)
    PROVE  EsxiInv'
<1>0. TypeOK /\ sw_tail \in Dx /\ ringref \subseteq Pages /\ pc # "deinit"
  BY FillIs DEF BaseInv, TypeOK, Filling
<1>1. PICK b \in BuffT : b = buff_ring[sw_tail]
  BY <1>0, BuffsAre
<1>2. b.page \in Pages \cup {NoPage} /\ b.off \in 0 .. Parts - 1
  BY <1>1 DEF BuffT
<1>3. CASE FillReuse
  <2>1. Filling /\ b.page # NoPage /\ Fill(b.page, b.off) /\ ringref' = ringref /\ ~b.taken
    BY <1>1, <1>3 DEF FillReuse, InUse
  <2>2. b.page \in Pages /\ b.page \in ringref
    BY <1>0, <1>1, <1>2, <2>1 DEF EsxiInv, EOwn
  <2>3. \A j \in Dx \ {sw_tail} : ~buff_ring[j].taken => buff_ring[j].page # b.page
    BY <1>0, <1>1, <2>1 DEF EsxiInv, EOne
  <2>4. \A a \in skbrefs : a[1] \notin ringref'
    BY <2>1 DEF EsxiInv, ESkb
  <2> QED BY <1>2, <2>1, <2>2, <2>3, <2>4, FillEsxi
<1>4. CASE FillFlip
  BY <1>4 DEF FillFlip
<1>5. ASSUME NEW page \in Pages, FillAlloc(page) PROVE EsxiInv'
  <2>1. /\ Filling /\ Fill(page, 0) /\ page \notin ringref /\ ringref' = ringref \cup {page}
        /\ \A a \in skbrefs : PageOf(a) # page
    BY <1>5 DEF FillAlloc, Kept, FreePages
  <2>2. page # NoPage
    BY RxAssumption
  <2>3. \A j \in Dx \ {sw_tail} : ~buff_ring[j].taken => buff_ring[j].page # page
    BY <1>0, <2>1, <2>2 DEF EsxiInv, EOwn
  <2>4. \A a \in skbrefs : a[1] \notin ringref'
    BY <2>1 DEF EsxiInv, ESkb, PageOf
  <2> QED BY <2>1, <2>3, <2>4, ZeroDx, FillEsxi
<1> QED BY <1>3, <1>4, <1>5

LEMMA StartEsxi ==
    ASSUME BaseInv, EsxiInv, aq_vec_init
    PROVE  EsxiInv'
<1>1. /\ UNCHANGED <<buff_ring, ringref, skbrefs>> /\ sw_head' = 0 /\ sw_tail' = 0
      /\ pc = "idle"
  BY DEF aq_vec_init, BaseInv, Phases, mem
<1>2. \A i \in Dx : ~InRing(i)'
  <2>1. D(sw_tail)' = 0 /\ \A i \in Dx : D(i)' \in Nat
    BY <1>1, ZeroDx, DistType DEF D
  <2> QED BY <2>1 DEF InRing
<1>3. EOwn' /\ EOne' /\ ESkb'
  BY <1>1 DEF EsxiInv, EOwn, EOne, ESkb
<1>4. ETaken' /\ ELater'
  BY <1>2 DEF ETaken, ELater
<1> QED BY <1>3, <1>4 DEF EsxiInv

LEMMA DeinitEsxi ==
    ASSUME BaseInv, EsxiInv, aq_ring_rx_deinit
    PROVE  EsxiInv'
<1> USE DEF regs, poll
<1>0. TypeOK /\ sw_head \in Dx /\ sw_tail \in Dx /\ buff_ring \in [Dx -> BuffT]
  BY BuffsAre DEF BaseInv, TypeOK
<1> DEFINE b == buff_ring[sw_head]
           n == Buff(NoPage, b.off, b.taken, NoWb, b.cleaned)
<1>1. /\ UNCHANGED <<sw_tail, skbrefs, pc>> /\ pc = "deinit"
      /\ buff_ring' = [buff_ring EXCEPT ![sw_head] = n] /\ sw_head' = aq_ring_next_dx(sw_head)
      /\ ringref' = ringref \ {b.page} /\ sw_head # sw_tail
  BY DEF aq_ring_rx_deinit
<1>2. n.page = NoPage
  BY DEF Buff
<1> HIDE DEF n
<1>3. buff_ring'[sw_head].page = NoPage /\ \A i \in Dx : i # sw_head => buff_ring'[i] = buff_ring[i]
  BY <1>0, <1>1, <1>2
<1>4. /\ \A i \in Dx : D(i) \in Nat /\ D(i) < Size /\ (i # sw_head => D(i)' = D(i) - 1)
      /\ D(sw_tail)' = D(sw_tail) - 1 /\ D(sw_head) = 0
      /\ Dist(sw_head', sw_head) = Size - 1
  BY <1>0, <1>1, HeadMoves, DType DEF D
<1>5. InRing(sw_head)
  BY <1>0, <1>1, DType DEF InRing
<1>6. \A i \in Dx : i # sw_head => (InRing(i)' <=> InRing(i))
  BY <1>0, <1>4 DEF InRing
<1>7. \A i \in Dx : InRing(i)' => i # sw_head
  <2> SUFFICES ASSUME NEW i \in Dx, InRing(i)' PROVE i # sw_head
    OBVIOUS
  <2>1. Dist(sw_head', i) < D(sw_tail) - 1
    BY <1>4 DEF InRing, D
  <2> QED BY <1>0, <1>4, <2>1, SizeAssumption
<1>8. EOwn'
  <2> SUFFICES ASSUME NEW i \in Dx, ~buff_ring'[i].taken, buff_ring'[i].page # NoPage, ~InRing(i)'
               PROVE  buff_ring'[i].page \in ringref'
    BY <1>1 DEF EOwn
  <2>1. i # sw_head /\ buff_ring'[i] = buff_ring[i] /\ ~InRing(i)
    BY <1>3, <1>6
  <2>2. buff_ring[i].page \in ringref
    BY <2>1 DEF EsxiInv, EOwn
  <2>3. buff_ring[i].page # buff_ring[sw_head].page
    <3>1. CASE buff_ring[sw_head].taken
      BY <1>0, <1>5, <2>1, <3>1 DEF EsxiInv, ELater
    <3>2. CASE ~buff_ring[sw_head].taken
      BY <1>0, <2>1, <3>2 DEF EsxiInv, EOne
    <3> QED BY <3>1, <3>2
  <2> QED BY <1>1, <2>1, <2>2, <2>3
<1>9. EOne'
  <2> SUFFICES ASSUME NEW i \in Dx, NEW j \in Dx, ~buff_ring'[i].taken, ~buff_ring'[j].taken,
                      buff_ring'[i].page # NoPage, buff_ring'[i].page = buff_ring'[j].page
               PROVE  i = j
    BY DEF EOne
  <2>1. i # sw_head /\ j # sw_head
    BY <1>3
  <2> QED BY <1>3, <2>1 DEF EsxiInv, EOne
<1>10. ESkb'
  BY <1>1 DEF EsxiInv, ESkb
<1>11. ETaken'
  BY HaltIs DEF ETaken
<1>12. ELater'
  <2> SUFFICES ASSUME NEW i \in Dx, NEW j \in Dx, InRing(i)', buff_ring'[i].taken,
                      ~buff_ring'[j].taken, buff_ring'[i].page # NoPage,
                      buff_ring'[i].page = buff_ring'[j].page
               PROVE  D(i)' < D(j)' /\ InRing(j)'
    BY DEF ELater
  <2>1. i # sw_head /\ j # sw_head /\ InRing(i)
    BY <1>3, <1>6, <1>7
  <2>2. D(i) < D(j) /\ InRing(j)
    BY <1>3, <2>1 DEF EsxiInv, ELater
  <2> QED BY <1>4, <1>6, <2>1, <2>2
<1> QED BY <1>8, <1>9, <1>10, <1>11, <1>12 DEF EsxiInv

LEMMA StepEsxi ==
    ASSUME Vmklnx = TRUE, AllocFails = {}
    PROVE  BaseInv /\ OrderInv /\ PktInv /\ EsxiInv /\ [Next]_vars => EsxiInv'
<1> SUFFICES ASSUME BaseInv, OrderInv, PktInv, EsxiInv, [Next]_vars PROVE EsxiInv' OBVIOUS
<1>1. CASE \/ PollStart \/ ReceiveReturn \/ CleanNoMem \/ CleanReturn \/ FillReturn
           \/ \E a \in skbrefs : StackFree(a)
           \/ UNCHANGED vars
  BY <1>1, QuietIs, QuietEsxi DEF Running
<1>2. CASE aq_vec_stop \/ DeinitReturn \/ aq_ring_free
  <2>1. /\ UNCHANGED <<sw_head, sw_tail, hw_head, buff_ring, ringref, skbrefs>>
        /\ pc' # "deinit" /\ pc = "deinit" => sw_head = sw_tail
    BY <1>2 DEF aq_vec_stop, DeinitReturn, aq_ring_free, ring, mem, poll
  <2> QED BY <1>2, <2>1, HaltIs, QuietEsxi
<1>3. CASE Device
  <2>1. UNCHANGED <<sw_head, sw_tail, hw_head, buff_ring, ringref, skbrefs, pc, device>>
    BY <1>3 DEF Device, HwStart, HwContinue, HwEnd, ring, mem, poll
  <2> QED BY <2>1, QuietEsxi DEF Running
<1>4. CASE hw_ring_rx_receive
  BY <1>4, ReceiveEsxi
<1>5. CASE CleanSkip \/ CleanError \/ (\E copied \in BOOLEAN : CleanDeliver(copied))
  BY <1>5, CleanEsxi
<1>6. CASE FillReuse \/ FillFlip \/ \E page \in Pages : FillAlloc(page)
  BY <1>6, RefillEsxi
<1>7. CASE hw_ring_rx_fill
  <2>1. /\ UNCHANGED <<sw_head, sw_tail, hw_head, buff_ring, ringref, skbrefs>> /\ pc = "post"
    BY <1>7 DEF hw_ring_rx_fill, ring, mem
  <2>2. Running
    BY <2>1 DEF BaseInv, Phases, Running, TypeOK
  <2> QED BY <2>1, <2>2, QuietEsxi
<1>8. CASE aq_vec_init \/ aq_ring_rx_deinit
  BY <1>8, StartEsxi, DeinitEsxi
<1>9. ~FillNoMem
  BY DEF FillNoMem, AllocFailed
<1> QED BY <1>1, <1>2, <1>3, <1>4, <1>5, <1>6, <1>7, <1>8, <1>9
        DEF Next, Poll, Clean, Refill, Life

\* What the device may write to was posted, and is not written back.
LEMMA DeviceSlotsIs ==
    ASSUME BaseInv, OrderInv, PostedIs, device = "up", NEW i \in DeviceSlots
    PROVE  /\ i \in Dx /\ D(hw_head) <= D(i) /\ D(i) < D(reg_tail) /\ D(i) < D(sw_tail)
           /\ dx_ring[i].addr = aq_buf_daddr(buff_ring[i]) /\ buff_ring[i].page # NoPage
<1>0. /\ TypeOK /\ {sw_head, hw_head, reg_head, reg_tail, sw_tail} \subseteq Dx
      /\ i \in Dx /\ \A k \in Dx : D(k) \in Nat
  BY DeviceSlotsDx, DType DEF BaseInv, TypeOK
<1>1. Running /\ Ordered /\ Fresh /\ OpenAhead
  BY DEF OrderInv, Running
<1>2. D(hw_head) <= D(i) /\ D(i) < D(reg_tail) /\ ~dx_ring[i].done
  <2>1. CASE i \in Slots(reg_head, reg_tail)
    <3>1. D(reg_head) <= D(i) /\ D(i) < D(reg_tail)
      BY <1>0, <1>1, <2>1, SlotsFrom DEF D, Ordered
    <3> QED BY <1>0, <1>1, <3>1 DEF Ordered, Fresh
  <2>2. ASSUME NEW p \in open, i = p.last
        PROVE  D(hw_head) <= D(i) /\ D(i) < D(reg_tail) /\ ~dx_ring[i].done
    <3>1. D(hw_head) <= D(i) /\ D(i) < D(reg_head) /\ ~dx_ring[i].done
      BY <1>1, <2>2 DEF OpenAhead
    <3> QED BY <1>0, <1>1, <3>1 DEF Ordered
  <2> QED BY <2>1, <2>2 DEF DeviceSlots
<1>3. D(i) < D(sw_tail)
  BY <1>0, <1>1, <1>2 DEF Ordered
<1> QED BY <1>0, <1>1, <1>2, <1>3 DEF PostedIs, BaseInv, Held

DmaInv == /\ BaseInv /\ OrderInv /\ PktInv /\ PostedIs
          /\ Vmklnx = FALSE => LinuxInv
          /\ Vmklnx = TRUE => EsxiInv

(***************************************************************************)
(* When no allocation fails the device writes only to buffers that are its *)
(* own, in both builds and for every number of page parts: none that an    *)
(* skb references, none in a page given back, none with a frame still to   *)
(* be cleaned.                                                             *)
(***************************************************************************)
THEOREM DmaIsSafe ==
    ASSUME AllocFails = {}
    PROVE  Spec => []DmaSafe
  <1>1. Init => DmaInv
    BY InitBase, InitLinux, InitEsxi DEF Init, OrderInv, PktInv, PostedIs, Running, DmaInv
  <1>2. DmaInv /\ [Next]_vars => DmaInv'
    BY StepBase, StepOrder, StepPkt, StepPosted, StepLinux, StepEsxi DEF DmaInv
  <1>3. DmaInv => DmaSafe
    <2> SUFFICES ASSUME DmaInv, device = "up", NEW i \in DeviceSlots
                 PROVE  /\ dx_ring[i].addr = aq_buf_daddr(buff_ring[i])
                        /\ PageOf(dx_ring[i].addr) \in ringref
                        /\ dx_ring[i].addr \notin skbrefs
                        /\ \A j \in Slots(sw_head, reg_tail) \ {i} : ~buff_ring[j].cleaned =>
                              aq_buf_daddr(buff_ring[j]) # dx_ring[i].addr
      BY DEF DmaSafe
    <2>1. /\ i \in Dx /\ D(hw_head) <= D(i) /\ D(i) < D(sw_tail)
          /\ dx_ring[i].addr = aq_buf_daddr(buff_ring[i]) /\ buff_ring[i].page # NoPage
      BY DeviceSlotsIs DEF DmaInv
    <2>2. PageOf(dx_ring[i].addr) = buff_ring[i].page /\ dx_ring[i].addr[1] = buff_ring[i].page
          /\ dx_ring[i].addr[2] = buff_ring[i].off
      BY <2>1, DaddrIs DEF PageOf
    <2>3. TypeOK /\ Running /\ \A k \in Dx : D(k) \in Nat /\ buff_ring[k].off \in Nat
      BY DType DEF DmaInv, BaseInv, Running, TypeOK
    <2>4. ASSUME NEW j \in Slots(sw_head, reg_tail)
          PROVE  j \in Dx /\ D(j) < D(sw_tail)
      <3>1. j \in Dx /\ D(j) < D(reg_tail) /\ D(reg_tail) <= D(sw_tail)
        BY <2>3, <2>4 DEF Slots, D, DmaInv, OrderInv, Ordered
      <3> QED BY <2>3, <3>1 DEF TypeOK
    <2>5. CASE Vmklnx = FALSE
      <3>1. LinuxInv
        BY <2>5 DEF DmaInv
      <3>2. Ahead(i)
        BY <2>1, <2>3 DEF Ahead
      <3>3. dx_ring[i].addr \notin skbrefs
        <4> SUFFICES ASSUME dx_ring[i].addr \in skbrefs PROVE FALSE
          OBVIOUS
        <4>1. buff_ring[i].off < buff_ring[i].off
          BY <2>1, <2>2, <3>1, <3>2 DEF LinuxInv, Used
        <4> QED BY <2>1, <2>3, <4>1
      <3>4. ASSUME NEW j \in Slots(sw_head, reg_tail) \ {i}
            PROVE  aq_buf_daddr(buff_ring[j]) # dx_ring[i].addr
        BY <2>1, <2>2, <2>4, <3>1, DaddrIs DEF LinuxInv, OnePage
      <3> QED BY <2>1, <2>2, <3>1, <3>3, <3>4 DEF LinuxInv, Own
    <2>6. CASE Vmklnx = TRUE
      <3>1. EsxiInv /\ pc # "deinit"
        BY <2>6 DEF DmaInv, BaseInv, Phases
      <3>2. ~buff_ring[i].taken
        <4>1. InRing(i) /\ ~Received(i)
          BY <2>1, <2>3 DEF InRing, Received, TypeOK
        <4> QED BY <2>1, <2>3, <3>1, <4>1 DEF EsxiInv, ETaken
      <3>3. buff_ring[i].page \in ringref
        BY <2>1, <3>1, <3>2 DEF EsxiInv, EOwn
      <3>4. dx_ring[i].addr \notin skbrefs
        BY <2>2, <3>1, <3>3 DEF EsxiInv, ESkb
      <3>5. ASSUME NEW j \in Slots(sw_head, reg_tail) \ {i}, ~buff_ring[j].cleaned
            PROVE  aq_buf_daddr(buff_ring[j]) # dx_ring[i].addr
        <4>1. j \in Dx /\ ~buff_ring[j].taken
          BY <2>3, <2>4, <3>1, <3>5 DEF EsxiInv, ETaken, InRing
        <4> QED BY <2>1, <2>2, <3>1, <3>2, <4>1, DaddrIs DEF EsxiInv, EOne
      <3> QED BY <2>1, <2>2, <3>3, <3>4, <3>5
    <2> QED BY <2>5, <2>6, RxAssumption
  <1> QED BY <1>1, <1>2, <1>3, PTL DEF Spec

=============================================================================

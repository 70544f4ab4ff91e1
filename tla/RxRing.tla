------------------------------- MODULE RxRing -------------------------------
(***************************************************************************)
(* One Rx ring of the driver: the NAPI poll that takes completed           *)
(* descriptors, builds skbs and refills the ring (aq_vec_poll,             *)
(* hw_atl_b0_hw_ring_rx_receive, aq_ring_rx_clean, aq_ring_rx_fill,        *)
(* hw_atl_b0_hw_ring_rx_fill), the device that writes frames into posted   *)
(* buffers and coalesces them into chains (LRO), the stack that frees skbs *)
(* at its own pace, and the init/deinit/free path around them.             *)
(*                                                                         *)
(* A buffer is one RX_FRAME_MAX part of a page.  On Linux the page's       *)
(* reference count tells the ring whether an skb still uses a part, and    *)
(* the ring moves on to the page's next part.  On ESXi (__VMKLNX__) the    *)
(* skb takes the page over and a counter kept in the buffer says so.       *)
(***************************************************************************)
EXTENDS AqRing, FiniteSets

CONSTANTS
    RefillThres,   \* min(aq_rx_refill_thres, size / 2)
    Parts,         \* (PAGE_SIZE << order) / AQ_CFG_RX_FRAME_MAX
    Budget,        \* AQ_CFG_NAPI_WEIGHT
    Pages,         \* memory: an allocation waits for a free one
    AllocFails,    \* where page and skb allocations may fail: in aq_vec_init
                   \* ("init"), in aq_vec_poll ("poll")
    Vmklnx,        \* whether this is the ESXi build
    NoPage

ASSUME RxAssumption ==
    /\ RefillThres \in Nat /\ RefillThres < Size
    /\ Parts \in Nat /\ Parts > 0
    /\ Budget \in Nat /\ Budget > 0
    /\ AllocFails \subseteq {"init", "poll"} /\ Vmklnx \in BOOLEAN
    /\ NoPage \notin Pages

VARIABLES
    sw_head, sw_tail, hw_head,  \* struct aq_ring_s
    buff_ring,                  \* struct aq_ring_buff_s, one per slot
    dx_ring,                    \* descriptors, shared with the device
    reg_head, reg_tail,         \* the device's head and tail pointers
    open,                       \* packets the device is still receiving
    ringref,                    \* pages the ring holds a reference to
    skbrefs,                    \* buffers referenced by skbs of the stack
    pc, budget, sw_tail_old,    \* the poll
    device                      \* where the ring is in its life

ring == <<sw_head, sw_tail, hw_head>>
regs == <<reg_head, reg_tail, open>>
mem  == <<ringref, skbrefs>>
poll == <<pc, budget, sw_tail_old>>
vars == <<ring, buff_ring, dx_ring, regs, mem, poll, device>>

Avail  == aq_ring_avail_dx(sw_head, sw_tail)
NoAddr == <<NoPage, 0>>
PageOf(addr) == addr[1]

\* Pages nobody holds.
FreePages == Pages \ (ringref \cup {PageOf(a) : a \in skbrefs})

\* rxdata of a buffer, and the flags, next and (for the properties) the
\* first slot of its packet.
Buff(page, off, taken, wb, cleaned) ==
    [page |-> page, off |-> off, taken |-> taken, eop |-> wb.eop,
     next |-> wb.next, error |-> wb.error, first |-> wb.first, cleaned |-> cleaned]

aq_buf_daddr(b) == <<b.page, b.off>>

\* A descriptor the device has not written back, and one it has.
NoWb == [eop |-> FALSE, next |-> 0, error |-> FALSE, first |-> 0]
Posted(addr) == [addr |-> addr, done |-> FALSE, wb |-> NoWb]
Done(wb) == [addr |-> NoAddr, done |-> TRUE, wb |-> wb]

\* The page references of a ring that was just allocated: none.
Init ==
    /\ sw_head = 0 /\ sw_tail = 0 /\ hw_head = 0
    /\ buff_ring = [i \in Dx |-> Buff(NoPage, 0, FALSE, NoWb, FALSE)]
    /\ dx_ring = [i \in Dx |-> Posted(NoAddr)]
    /\ reg_head = 0 /\ reg_tail = 0 /\ open = {}
    /\ ringref = {} /\ skbrefs = {}
    /\ pc = "idle" /\ budget = Budget /\ sw_tail_old = 0
    /\ device = "down"

-----------------------------------------------------------------------------
(* The device (external). *)

\* It puts the start of a frame into the next posted buffer.
HwStart ==
    /\ device = "up" /\ reg_head # reg_tail
    /\ open' = open \cup {[first |-> reg_head, last |-> reg_head]}
    /\ reg_head' = aq_ring_next_dx(reg_head)
    /\ UNCHANGED <<ring, buff_ring, dx_ring, reg_tail, mem, poll, device>>

\* It continues packet p in the next posted buffer and writes back the
\* buffer before, linked to it (LRO: next_desc_ptr; jumbo: the next slot).
HwContinue(p) ==
    /\ device = "up" /\ reg_head # reg_tail
    /\ open' = (open \ {p}) \cup {[first |-> p.first, last |-> reg_head]}
    /\ dx_ring' = [dx_ring EXCEPT ![p.last] =
                     Done([eop |-> FALSE, next |-> reg_head, error |-> FALSE,
                           first |-> p.first])]
    /\ reg_head' = aq_ring_next_dx(reg_head)
    /\ UNCHANGED <<ring, buff_ring, reg_tail, mem, poll, device>>

\* It writes back the last buffer of packet p.
HwEnd(p, error) ==
    /\ device = "up"
    /\ open' = open \ {p}
    /\ dx_ring' = [dx_ring EXCEPT ![p.last] =
                     Done([eop |-> TRUE, next |-> 0, error |-> error,
                           first |-> p.first])]
    /\ UNCHANGED <<ring, buff_ring, reg_head, reg_tail, mem, poll, device>>

\* The stack drops the last reference of an skb to a buffer.
StackFree(a) ==
    /\ skbrefs' = skbrefs \ {a}
    /\ UNCHANGED <<ring, buff_ring, dx_ring, regs, ringref, poll, device>>

-----------------------------------------------------------------------------
(* The poll. *)

PollStart ==
    /\ pc = "idle" /\ device = "up"
    /\ pc' = "receive" /\ budget' = Budget
    /\ UNCHANGED <<ring, buff_ring, dx_ring, regs, mem, sw_tail_old, device>>

\* A slip: the status of the descriptor is not looked at.
RxdAny == hw_head # sw_tail

RxdDone == hw_head # sw_tail /\ dx_ring[hw_head].done

\* One round of hw_atl_b0_hw_ring_rx_receive: flags and next are rewritten.
hw_ring_rx_receive ==
    /\ pc = "receive" /\ RxdDone
    /\ LET b == buff_ring[hw_head]
       IN buff_ring' = [buff_ring EXCEPT ![hw_head] =
              Buff(b.page, b.off, b.taken, dx_ring[hw_head].wb, FALSE)]
    /\ hw_head' = aq_ring_next_dx(hw_head)
    /\ UNCHANGED <<sw_head, sw_tail, dx_ring, regs, mem, poll, device>>

\* It ends, and aq_vec_poll goes on only if there is something to clean.
ReceiveReturn ==
    /\ pc = "receive" /\ ~RxdDone
    /\ pc' = IF sw_head # hw_head THEN "clean" ELSE "idle"
    /\ UNCHANGED <<ring, buff_ring, dx_ring, regs, mem, budget, sw_tail_old, device>>

\* S holds slot i, and the next of each of its slots that is not the last.
Follows(S, i) == i \in S /\ \A j \in S : buff_ring[j].eop \/ buff_ring[j].next \in S

\* The slots the loop visits from slot i on, following next: the least such set.
Chain(i) == {j \in Dx : \A S \in SUBSET Dx : Follows(S, i) => j \in S}

\* A slip: the rest of the packet is taken for granted.
RscTaken(C) == TRUE

IsRscCompleted(C) ==
    \A j \in C \ {sw_head} : aq_ring_dx_in_range(sw_head, j, hw_head)

Cleaned(b) == Buff(b.page, b.off, b.taken,
                   [eop |-> b.eop, next |-> b.next, error |-> b.error,
                    first |-> b.first], TRUE)
Taken(b) == Buff(b.page, b.off, Vmklnx,
                 [eop |-> b.eop, next |-> b.next, error |-> b.error,
                  first |-> b.first], b.cleaned)

\* The for loop of aq_ring_rx_clean moves on to the next slot.
NextSlot ==
    /\ sw_head' = aq_ring_next_dx(sw_head)
    /\ budget' = budget - 1
    /\ UNCHANGED <<sw_tail, hw_head, dx_ring, regs, pc, sw_tail_old, device>>

Cleaning == pc = "clean" /\ sw_head # hw_head /\ budget > 0

\* A slot that an earlier packet's chain already used.
CleanSkip ==
    /\ Cleaning /\ buff_ring[sw_head].cleaned
    /\ NextSlot
    /\ UNCHANGED <<buff_ring, mem>>

\* A slip: a packet with an error ends the loop instead of being passed.
CleanErrorStays ==
    LET C == Chain(sw_head)
    IN /\ Cleaning /\ ~buff_ring[sw_head].cleaned /\ IsRscCompleted(C)
       /\ \E j \in C : buff_ring[j].error
       /\ pc' = "idle"
       /\ UNCHANGED <<ring, buff_ring, dx_ring, regs, mem, budget, sw_tail_old, device>>

\* A packet with an error in any of its buffers is dropped as a whole.
CleanError ==
    LET C == Chain(sw_head)
    IN /\ Cleaning /\ ~buff_ring[sw_head].cleaned /\ IsRscCompleted(C)
       /\ \E j \in C : buff_ring[j].error
       /\ buff_ring' = [j \in Dx |-> IF j \in C \ {sw_head}
                                     THEN Cleaned(buff_ring[j])
                                     ELSE buff_ring[j]]
       /\ NextSlot
       /\ UNCHANGED mem

(***************************************************************************)
(* A packet becomes an skb that references its buffers.  When all of the   *)
(* first buffer fits the skb's header it is copied instead; on Linux that  *)
(* cannot be for a packet of one buffer, which goes through build_skb.     *)
(***************************************************************************)
CleanDeliver(copied) ==
    LET C == Chain(sw_head)
        R == IF copied THEN C \ {sw_head} ELSE C
    IN /\ Cleaning /\ ~buff_ring[sw_head].cleaned /\ IsRscCompleted(C)
       /\ \A j \in C : ~buff_ring[j].error
       /\ copied => Vmklnx \/ C # {sw_head}
       /\ buff_ring' = [j \in Dx |->
             LET b == IF j \in R THEN Taken(buff_ring[j]) ELSE buff_ring[j]
             IN IF j \in C \ {sw_head} THEN Cleaned(b) ELSE b]
       /\ skbrefs' = skbrefs \cup {aq_buf_daddr(buff_ring[j]) : j \in R}
       /\ ringref' = IF Vmklnx THEN ringref \ {buff_ring[j].page : j \in R}
                               ELSE ringref
       /\ NextSlot

\* No memory for the skb: the poll ends with an error.
CleanNoMem ==
    LET C == Chain(sw_head)
    IN /\ Cleaning /\ ~buff_ring[sw_head].cleaned /\ IsRscCompleted(C)
       /\ \A j \in C : ~buff_ring[j].error
       /\ "poll" \in AllocFails
       /\ pc' = "idle"
       /\ UNCHANGED <<ring, buff_ring, dx_ring, regs, mem, budget, sw_tail_old, device>>

\* A slip: the threshold is not limited by the size of the ring.
RefillUnclamped == Avail >= Size

\* Enough slots are free to refill.
RefillDue == Avail >= RefillThres

\* aq_ring_rx_clean returns 0: all done, no budget, or a packet still open.
CleanReturn ==
    /\ pc = "clean"
    /\ \/ sw_head = hw_head \/ budget = 0
       \/ ~buff_ring[sw_head].cleaned /\ ~IsRscCompleted(Chain(sw_head))
    /\ sw_tail_old' = sw_tail
    /\ pc' = IF RefillDue THEN "fill" ELSE "post"
    /\ UNCHANGED <<ring, buff_ring, dx_ring, regs, mem, budget, device>>

-----------------------------------------------------------------------------
(* The refill, in the poll and in aq_vec_init. *)

\* The slot at sw_tail gets buffer <<page, off>> and clear flags; pa
\* overlays next.
Fill(page, off) ==
    /\ buff_ring' = [buff_ring EXCEPT ![sw_tail] =
                        Buff(page, off, FALSE, NoWb, FALSE)]
    /\ sw_tail' = aq_ring_next_dx(sw_tail)
    /\ UNCHANGED <<sw_head, hw_head, dx_ring, regs, skbrefs, poll, device>>

Filling == pc = "fill" /\ Avail > 0

\* A slip: references of skbs are not looked at.
NeverInUse(b) == FALSE

\* page_ref_count(page) > 1, or on ESXi the buffer's own counter.
InUse(b) == IF Vmklnx THEN b.taken ELSE \E a \in skbrefs : PageOf(a) = b.page

\* The page is no longer used: start over at its first part.
FillReuse ==
    LET b == buff_ring[sw_tail]
    IN /\ Filling /\ b.page # NoPage /\ ~InUse(b)
       /\ Fill(b.page, IF Vmklnx THEN b.off ELSE 0)
       /\ UNCHANGED ringref

\* A slip: the page is given back although its next part is used.
FillFlipLost ==
    LET b == buff_ring[sw_tail]
    IN /\ Filling /\ b.page # NoPage /\ InUse(b) /\ ~Vmklnx
       /\ b.off + 1 < Parts
       /\ Fill(b.page, b.off + 1)
       /\ ringref' = ringref \ {b.page}

\* The page is in use but has a part left.
FillFlip ==
    LET b == buff_ring[sw_tail]
    IN /\ Filling /\ b.page # NoPage /\ InUse(b) /\ ~Vmklnx
       /\ b.off + 1 < Parts
       /\ Fill(b.page, b.off + 1)
       /\ UNCHANGED ringref

\* There is no page, or the one there is used up.
NeedsPage(b) ==
    \/ b.page = NoPage
    \/ InUse(b) /\ (Vmklnx \/ b.off + 1 >= Parts)

\* The used-up page is given back (on ESXi an skb has it already) ...
Kept == IF Vmklnx THEN ringref ELSE ringref \ {buff_ring[sw_tail].page}

\* ... and aq_get_rxpage finds a new one,
FillAlloc(page) ==
    /\ Filling /\ NeedsPage(buff_ring[sw_tail])
    /\ page \in FreePages
    /\ ringref' = Kept \cup {page}
    /\ Fill(page, 0)

AllocFailed == (IF device = "init" THEN "init" ELSE "poll") \in AllocFails

\* (A slip: the slot is posted although it has no page.)
FillNoMemPosted ==
    /\ Filling /\ NeedsPage(buff_ring[sw_tail]) /\ AllocFailed
    /\ ringref' = Kept
    /\ Fill(NoPage, 0)

(***************************************************************************)
(* or not: the fill stops there, and its caller returns before             *)
(* hw_ring_rx_fill.  aq_nic_init ignores the error of aq_vec_init and goes *)
(* on.  (The offset of a slot without a page is never read.)               *)
(***************************************************************************)
FillNoMem ==
    LET b == buff_ring[sw_tail]
    IN /\ Filling /\ NeedsPage(b) /\ AllocFailed
       /\ ringref' = Kept
       /\ buff_ring' = [buff_ring EXCEPT ![sw_tail] =
              Buff(IF Vmklnx THEN b.page ELSE NoPage, b.off, b.taken, NoWb, FALSE)]
       /\ pc' = "idle" /\ device' = "up"
       /\ UNCHANGED <<ring, dx_ring, regs, skbrefs, budget, sw_tail_old>>

FillReturn ==
    /\ pc = "fill" /\ Avail = 0
    /\ pc' = "post"
    /\ UNCHANGED <<ring, buff_ring, dx_ring, regs, mem, budget, sw_tail_old, device>>

\* hw_atl_b0_hw_ring_rx_fill: descriptors from sw_tail_old on, then the tail.
hw_ring_rx_fill ==
    /\ pc = "post"
    /\ dx_ring' = [i \in Dx |-> IF i \in Slots(sw_tail_old, sw_tail)
                                THEN Posted(aq_buf_daddr(buff_ring[i]))
                                ELSE dx_ring[i]]
    /\ reg_tail' = sw_tail
    /\ pc' = "idle" /\ device' = "up"
    /\ UNCHANGED <<ring, buff_ring, reg_head, open, mem, budget, sw_tail_old>>

-----------------------------------------------------------------------------
(* The life of the ring. *)

\* aq_vec_init: the indices are reset and the ring is filled.
aq_vec_init ==
    /\ device = "down"
    /\ sw_head' = 0 /\ sw_tail' = 0 /\ hw_head' = 0
    /\ reg_head' = 0 /\ reg_tail' = 0
    /\ pc' = "fill" /\ sw_tail_old' = 0 /\ device' = "init"
    /\ UNCHANGED <<buff_ring, dx_ring, open, mem, budget>>

\* aq_vec_stop: the device lets go of its buffers, the last poll has ended.
aq_vec_stop ==
    /\ device = "up" /\ pc = "idle"
    /\ open' = {}
    /\ pc' = "deinit" /\ device' = "stopping"
    /\ UNCHANGED <<ring, buff_ring, dx_ring, reg_head, reg_tail, mem, budget, sw_tail_old>>

\* One round of aq_ring_rx_deinit: aq_free_rxpage.
aq_ring_rx_deinit ==
    /\ pc = "deinit" /\ sw_head # sw_tail
    /\ LET b == buff_ring[sw_head]
       IN /\ ringref' = ringref \ {b.page}
          /\ buff_ring' = [buff_ring EXCEPT ![sw_head] =
                 Buff(NoPage, b.off, b.taken, NoWb, b.cleaned)]
    /\ sw_head' = aq_ring_next_dx(sw_head)
    /\ UNCHANGED <<sw_tail, hw_head, dx_ring, regs, skbrefs, poll, device>>

DeinitReturn ==
    /\ pc = "deinit" /\ sw_head = sw_tail
    /\ pc' = "idle" /\ device' = "down"
    /\ UNCHANGED <<ring, buff_ring, dx_ring, regs, mem, budget, sw_tail_old>>

\* aq_vec_free and a new aq_vec_alloc (aq_set_ringparam): the buffers go as
\* they are.
aq_ring_free ==
    /\ device = "down"
    /\ device' = "freed"
    /\ UNCHANGED <<ring, buff_ring, dx_ring, regs, mem, poll>>

-----------------------------------------------------------------------------
Device ==
    \/ HwStart
    \/ \E p \in open : HwContinue(p)
    \/ \E p \in open, error \in BOOLEAN : HwEnd(p, error)

Clean ==
    \/ CleanSkip
    \/ CleanError
    \/ \E copied \in BOOLEAN : CleanDeliver(copied)
    \/ CleanNoMem
    \/ CleanReturn

Refill ==
    \/ FillReuse
    \/ FillFlip
    \/ \E page \in Pages : FillAlloc(page)
    \/ FillNoMem
    \/ FillReturn
    \/ hw_ring_rx_fill

Poll == PollStart \/ hw_ring_rx_receive \/ ReceiveReturn \/ Clean \/ Refill

Life ==
    \/ aq_vec_init
    \/ aq_vec_stop
    \/ aq_ring_rx_deinit
    \/ DeinitReturn
    \/ aq_ring_free

Next == Device \/ Poll \/ Life \/ \E a \in skbrefs : StackFree(a)

Spec == Init /\ [][Next]_vars

(***************************************************************************)
(* A write-back raises the interrupt that schedules a poll, a poll that    *)
(* used its budget up is repeated, and a poll does not stop half-way.  The *)
(* device ends every packet it started, at the latest when it runs out of  *)
(* buffers, and the stack frees its skbs.                                  *)
(***************************************************************************)
Scheduled == (RxdDone \/ budget = 0) /\ PollStart

Fairness ==
    /\ WF_vars(Scheduled)
    /\ WF_vars(hw_ring_rx_receive \/ ReceiveReturn \/ Clean)
    /\ WF_vars(FillReuse \/ FillFlip \/ (\E page \in Pages : FillAlloc(page))
                 \/ FillReturn \/ hw_ring_rx_fill)
    /\ \A i \in Dx : WF_vars(\E p \in open : p.last = i /\ HwEnd(p, FALSE))
    /\ WF_vars(\E a \in skbrefs : StackFree(a))

FairSpec == Spec /\ Fairness

-----------------------------------------------------------------------------
Addrs == ((Pages \X (0 .. Parts - 1)) \cup {NoAddr})
Wbs   == [eop : BOOLEAN, next : Dx, error : BOOLEAN, first : Dx]

\* The values the ring, its buffers, the descriptors and the poll range over.
TypeOK ==
    /\ sw_head \in Dx /\ sw_tail \in Dx /\ hw_head \in Dx
    /\ buff_ring \in [Dx -> [page : Pages \cup {NoPage}, off : 0 .. Parts - 1,
                             taken : BOOLEAN, eop : BOOLEAN, next : Dx,
                             error : BOOLEAN, first : Dx, cleaned : BOOLEAN]]
    /\ dx_ring \in [Dx -> [addr : Addrs, done : BOOLEAN, wb : Wbs]]
    /\ reg_head \in Dx /\ reg_tail \in Dx
    /\ open \subseteq [first : Dx, last : Dx]
    /\ ringref \subseteq Pages
    /\ skbrefs \subseteq Pages \X (0 .. Parts - 1)
    /\ pc \in {"idle", "receive", "clean", "fill", "post", "deinit"}
    /\ budget \in 0 .. Budget
    /\ sw_tail_old \in Dx
    /\ device \in {"down", "init", "up", "stopping", "freed"}

(***************************************************************************)
(* The poll takes a descriptor as received only after the device wrote it  *)
(* back, refills only what it cleaned and posts all it refilled: the       *)
(* indices keep their order round the ring (hw_ring_rx_receive,            *)
(* aq_ring_rx_clean, aq_ring_rx_fill).                                     *)
(***************************************************************************)
RingOrder ==
    device = "up" =>
        /\ InOrder(sw_head, hw_head, reg_head)
        /\ InOrder(sw_head, reg_head, reg_tail)
        /\ InOrder(sw_head, reg_tail, sw_tail)

\* The slots the device may write to.
DeviceSlots == Slots(reg_head, reg_tail) \cup {p.last : p \in open}

(***************************************************************************)
(* The device only writes to buffers that are its own: the descriptor      *)
(* names the buffer of its slot, in a page the ring still holds, that no   *)
(* skb references and that holds no frame still to be cleaned (the page    *)
(* flipping of aq_get_rxpages).                                            *)
(***************************************************************************)
DmaSafe ==
    device = "up" => \A i \in DeviceSlots :
        LET a == dx_ring[i].addr
        IN /\ a = aq_buf_daddr(buff_ring[i])
           /\ PageOf(a) \in ringref
           /\ a \notin skbrefs
           /\ \A j \in Slots(sw_head, reg_tail) \ {i} :
                 ~buff_ring[j].cleaned => aq_buf_daddr(buff_ring[j]) # a

(***************************************************************************)
(* Also when allocations fail half-way through an open or a poll, and      *)
(* aq_vec_poll goes on without posting what it filled: where a descriptor  *)
(* in the device's hands names the buffer of its slot, an skb does not     *)
(* reference that buffer, and the ring still holds its page.  (A           *)
(* descriptor that was passed over may name a buffer of an earlier open.)  *)
(***************************************************************************)
SkbUntouched ==
    device = "up" => \A i \in DeviceSlots :
        LET a == dx_ring[i].addr
        IN a = aq_buf_daddr(buff_ring[i]) /\ PageOf(a) # NoPage =>
              PageOf(a) \in ringref /\ a \notin skbrefs

(***************************************************************************)
(* What aq_ring_rx_clean turns into one skb, or drops, is one packet from  *)
(* its first buffer to its last, and no first buffer is skipped as         *)
(* cleaned, although the device interleaves the buffers of several         *)
(* packets.                                                                *)
(***************************************************************************)
WholePacket ==
    Cleaning =>
        IF buff_ring[sw_head].cleaned
        THEN buff_ring[sw_head].first # sw_head
        ELSE LET C == Chain(sw_head)
             IN IsRscCompleted(C) =>
                  /\ C = {j \in Slots(sw_head, hw_head) :
                            buff_ring[j].first = sw_head /\ ~buff_ring[j].cleaned}
                  /\ \E j \in C : buff_ring[j].eop

(***************************************************************************)
(* aq_ring_rx_deinit gives back only pages the ring holds a reference to.  *)
(***************************************************************************)
FreesOwnPages ==
    pc = "deinit" /\ sw_head # sw_tail => buff_ring[sw_head].page \in ringref

(***************************************************************************)
(* The ring does not stall: a buffer the device has begun to write is      *)
(* cleaned, unless the interface goes down.                                *)
(***************************************************************************)
RingMoves ==
    \A i \in Dx : device = "up" /\ sw_head = i /\ reg_head # i
                    ~> sw_head # i \/ device # "up"

(***************************************************************************)
(* A device that ran out of buffers gets new ones, unless the interface    *)
(* goes down: the threshold of aq_ring_rx_fill does not starve it.         *)
(***************************************************************************)
DeviceRefilled ==
    device = "up" /\ reg_head = reg_tail ~> reg_head # reg_tail \/ device # "up"

=============================================================================

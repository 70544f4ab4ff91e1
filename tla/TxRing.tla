------------------------------- MODULE TxRing -------------------------------
(***************************************************************************)
(* One Tx ring of the driver: the transmit path of the network stack       *)
(* (aq_nic_xmit, on any CPU under the queue's tx lock), the NAPI poll that  *)
(* reclaims completed descriptors (aq_vec_poll, aq_ring_tx_clean), the      *)
(* device that fetches descriptors, and the link task and the             *)
(* stop/deinit/init path around them.                                      *)
(*                                                                         *)
(* The xmit thread and the poll thread share the ring without a lock: xmit *)
(* moves sw_tail, poll moves sw_head, and both call                        *)
(* aq_ring_update_queue_state, which reads both indices, decides, and only *)
(* then stops or wakes the queue.                                          *)
(***************************************************************************)
EXTENDS AqRing

CONSTANTS
    FragsMax,      \* AQ_CFG_SKB_FRAGS_MAX
    RestartThres,  \* AQ_CFG_RESTART_DESC_THRES
    CleanBudget,   \* AQ_CFG_TX_CLEAN_BUDGET
    Skbs,          \* socket buffers the stack may send
    Shapes,        \* what an skb may look like: [frags, ctx, data]
    FailAt,        \* the data pieces whose DMA mapping may fail
    Torn,          \* threads another CPU may overtake inside
                   \* aq_ring_update_queue_state
    NoSkb

Threads == {"xmit", "poll"}

(***************************************************************************)
(* A shape has frags = nr_frags + 1 fragments, ctx says whether it needs a *)
(* context descriptor (GSO or VLAN insertion), data is the number of       *)
(* data descriptors: a fragment longer than AQ_CFG_TX_FRAME_MAX takes      *)
(* several.  An skb of at most FragsMax fragments needs at most            *)
(* FragsMax + 1 descriptors: MAX_SKB_FRAGS is about half of FragsMax and   *)
(* an skb carries at most 64K, four frames' worth.                         *)
(***************************************************************************)
Descs(shape) == shape.data + (IF shape.ctx THEN 1 ELSE 0)

ASSUME TxAssumption ==
    /\ FragsMax \in Nat /\ FragsMax > 0 /\ FragsMax < Size \* *_MIN_TXD
    /\ RestartThres \in Nat /\ FragsMax <= RestartThres
    /\ CleanBudget \in Nat /\ CleanBudget > 0
    /\ Torn \subseteq Threads
    /\ FailAt \subseteq Nat
    /\ NoSkb \notin Skbs
    /\ \A sh \in Shapes :
          /\ sh.frags \in Nat /\ sh.ctx \in BOOLEAN
          /\ sh.data \in Nat /\ sh.data > 0
          /\ sh.frags <= FragsMax => Descs(sh) <= FragsMax + 1

MaxData == FragsMax + 1
NoPa    == <<NoSkb, 0>>
Pa      == (Skbs \X (1 .. MaxData)) \cup {NoPa}
NoEop   == -1                       \* eop_index 0xffff

VARIABLES
    sw_head, sw_tail, hw_head,  \* struct aq_ring_s
    buff_ring,                  \* struct aq_ring_buff_s, one per slot
    dx_ring,                    \* the buf_addr of each descriptor
    reg_head, reg_tail,         \* the device's head and tail pointers
    stopped,                    \* __netif_subqueue_stopped
    carrier,                    \* netif_carrier_ok
    device,                     \* where the ring is between open and close
    dma,                        \* live DMA mappings
    skbs,                       \* who owns each skb
    pc, budget,                 \* program counters, poll's clean budget
    cur                         \* the skb, shape and frags of the xmit

ring  == <<sw_head, sw_tail, hw_head>>
regs  == <<reg_head, reg_tail>>
queue == <<stopped, carrier, device>>
vars  == <<ring, buff_ring, dx_ring, regs, queue, dma, skbs, pc, budget, cur>>

Avail == aq_ring_avail_dx(sw_head, sw_tail)
At(t, l) == pc[t] = l
Goto(t, l) == pc' = [pc EXCEPT ![t] = l]

\* A buffer whose flags were just cleared, of a context or of nothing yet.
BareBuff(c) == [sop |-> FALSE, eop |-> FALSE, mapped |-> FALSE, ctx |-> c,
                pa |-> NoPa, eop_index |-> 0, skb |-> NoSkb]
NoShape   == [frags |-> 0, ctx |-> FALSE, data |-> 0]
NoXmit    == [skb |-> NoSkb, shape |-> NoShape, frags |-> 0]

Init ==
    /\ sw_head = 0 /\ sw_tail = 0 /\ hw_head = 0
    /\ buff_ring = [i \in Dx |-> BareBuff(FALSE)]
    /\ dx_ring = [i \in Dx |-> NoPa]
    /\ reg_head = 0 /\ reg_tail = 0
    /\ stopped = FALSE /\ carrier = FALSE /\ device = "up"
    /\ dma = {}
    /\ skbs = [s \in Skbs |-> "stack"]
    /\ pc = [t \in Threads |-> "idle"]
    /\ budget = CleanBudget
    /\ cur = NoXmit

-----------------------------------------------------------------------------
(* aq_ring_update_queue_state, called by both threads. *)

After(t) == IF t = "xmit" THEN "test" ELSE "idle"

\* A slip: the queue is stopped but never woken.
UpdateNoWake(t) ==
    /\ At(t, "update") /\ t \notin Torn
    /\ stopped' = (stopped \/ Avail <= FragsMax)
    /\ Goto(t, After(t))
    /\ UNCHANGED <<ring, buff_ring, dx_ring, regs, carrier, device, dma, skbs,
                   budget, cur>>

\* A thread that cannot be overtaken decides and acts in one step.
UpdateWhole(t) ==
    /\ At(t, "update") /\ t \notin Torn
    /\ stopped' = IF Avail <= FragsMax THEN TRUE
                  ELSE IF Avail > RestartThres THEN FALSE
                  ELSE stopped
    /\ Goto(t, After(t))
    /\ UNCHANGED <<ring, buff_ring, dx_ring, regs, carrier, device, dma, skbs,
                   budget, cur>>

\* First read of the indices: low ring, or look again.
UpdateReadLow(t) ==
    /\ At(t, "update") /\ t \in Torn
    /\ Goto(t, IF Avail <= FragsMax THEN "stop" ELSE "update2")
    /\ UNCHANGED <<ring, buff_ring, dx_ring, regs, queue, dma, skbs, budget, cur>>

\* Second read of the indices: enough room to resume, or leave it alone.
UpdateReadHigh(t) ==
    /\ At(t, "update2")
    /\ Goto(t, IF Avail > RestartThres THEN "wake" ELSE After(t))
    /\ UNCHANGED <<ring, buff_ring, dx_ring, regs, queue, dma, skbs, budget, cur>>

aq_ring_queue_stop(t) ==
    /\ At(t, "stop")
    /\ stopped' = TRUE
    /\ Goto(t, After(t))
    /\ UNCHANGED <<ring, buff_ring, dx_ring, regs, carrier, device, dma, skbs,
                   budget, cur>>

aq_ring_queue_wake(t) ==
    /\ At(t, "wake")
    /\ stopped' = FALSE
    /\ Goto(t, After(t))
    /\ UNCHANGED <<ring, buff_ring, dx_ring, regs, carrier, device, dma, skbs,
                   budget, cur>>

aq_ring_update_queue_state(t) ==
    \/ UpdateWhole(t)
    \/ UpdateReadLow(t)
    \/ UpdateReadHigh(t)
    \/ aq_ring_queue_stop(t)
    \/ aq_ring_queue_wake(t)

-----------------------------------------------------------------------------
(* aq_nic_xmit, serialised by the queue's tx lock. *)

(***************************************************************************)
(* The stack calls ndo_start_xmit on a queue that is not stopped and whose *)
(* qdisc is active, which needs the carrier.  An skb of more fragments     *)
(* than FragsMax is freed and reported as sent: the ring does not move.    *)
(***************************************************************************)
XmitEnter(s, sh) ==
    /\ At("xmit", "idle") /\ device = "up" /\ carrier /\ ~stopped
    /\ skbs[s] = "stack"
    /\ sh.frags <= FragsMax
    /\ cur' = [skb |-> s, shape |-> sh, frags |-> 0]
    /\ skbs' = [skbs EXCEPT ![s] = "xmit"]
    /\ Goto("xmit", "update")
    /\ UNCHANGED <<ring, buff_ring, dx_ring, regs, queue, dma, budget>>

\* NETDEV_TX_BUSY: the stack keeps the skb and offers it again.
XmitBusy ==
    /\ skbs' = [skbs EXCEPT ![cur.skb] = "stack"]
    /\ cur' = NoXmit
    /\ Goto("xmit", "idle")

\* The check of __netif_subqueue_stopped after the update.
XmitTest ==
    /\ At("xmit", "test")
    /\ IF stopped THEN XmitBusy
                  ELSE Goto("xmit", "map") /\ UNCHANGED <<skbs, cur>>
    /\ UNCHANGED <<ring, buff_ring, dx_ring, regs, queue, dma, budget>>

Pieces(s, sh) == {<<s, k>> : k \in 1 .. sh.data}

\* A slip: the skb is remembered in the first buffer, not in the last.
DataBuffFirst(s, sh, k, last) ==
    [sop |-> k = 1, eop |-> k = sh.data, mapped |-> TRUE, ctx |-> FALSE,
     pa |-> <<s, k>>, eop_index |-> IF k = 1 THEN last ELSE NoEop,
     skb |-> IF k = 1 THEN s ELSE NoSkb]

\* The buffer that describes piece k, of a packet whose last slot is last.
DataBuff(s, sh, k, last) ==
    [sop |-> k = 1, eop |-> k = sh.data, mapped |-> TRUE, ctx |-> FALSE,
     pa |-> <<s, k>>, eop_index |-> IF k = 1 THEN last ELSE NoEop,
     skb |-> IF k = sh.data THEN s ELSE NoSkb]

\* The buffers after a run of aq_nic_map_skb that mapped `good' pieces.
Mapped(s, sh, good) ==
    LET c == IF sh.ctx THEN 1 ELSE 0
        last == Adv(sw_tail, c + sh.data - 1)
    IN [i \in Dx |->
          LET d == Dist(sw_tail, i)
          IN IF d < c THEN BareBuff(TRUE)
             ELSE IF d < c + good THEN DataBuff(s, sh, d - c + 1, last)
             ELSE IF d = c /\ good = 0 THEN BareBuff(FALSE)
             ELSE buff_ring[i]]

\* The descriptors aq_nic_map_skb counts when piece `fail' cannot be mapped.
MapCount(sh, fail) ==
    IF fail = 0 THEN Descs(sh)
    ELSE IF fail = 1 /\ sh.ctx THEN 1
    ELSE 0

(***************************************************************************)
(* aq_nic_map_skb.  A mapping error on a later piece unmaps the earlier    *)
(* ones and counts no descriptor; an error on the first piece jumps past   *)
(* that, with the context descriptor already counted.                      *)
(***************************************************************************)
aq_nic_map_skb(fail) ==
    LET s  == cur.skb
        sh == cur.shape
        frags == MapCount(sh, fail)
    IN /\ At("xmit", "map")
       /\ fail \in FailAt \cup {0} /\ fail <= sh.data
       /\ buff_ring' = Mapped(s, sh, IF fail = 0 THEN sh.data ELSE fail - 1)
       /\ dma' = IF fail = 0 THEN dma \cup Pieces(s, sh) ELSE dma
       /\ IF frags = 0
            THEN XmitBusy
            ELSE /\ cur' = [skb |-> s, shape |-> sh, frags |-> frags]
                 /\ Goto("xmit", "post")
                 /\ UNCHANGED skbs
       /\ UNCHANGED <<ring, dx_ring, regs, queue, budget>>

\* One round of the descriptor loop of hw_atl_b0_hw_ring_tx_xmit.
hw_ring_tx_xmit ==
    /\ At("xmit", "post") /\ cur.frags > 0
    /\ dx_ring' = [dx_ring EXCEPT ![sw_tail] = buff_ring[sw_tail].pa]
    /\ sw_tail' = aq_ring_next_dx(sw_tail)
    /\ cur' = [skb |-> cur.skb, shape |-> cur.shape, frags |-> cur.frags - 1]
    /\ UNCHANGED <<sw_head, hw_head, buff_ring, regs, queue, dma, skbs, pc, budget>>

\* The write barrier is passed: the tail pointer hands the packet over.
tx_ring_tail_update ==
    /\ At("xmit", "post") /\ cur.frags = 0
    /\ reg_tail' = sw_tail
    /\ skbs' = [skbs EXCEPT ![cur.skb] = "driver"]
    /\ cur' = NoXmit
    /\ Goto("xmit", "idle")
    /\ UNCHANGED <<ring, buff_ring, dx_ring, reg_head, queue, dma, budget>>

-----------------------------------------------------------------------------
(* The poll of the ring's vector. *)

\* aq_vec_poll: read the device's head, clean if it moved.
hw_ring_tx_head_update ==
    /\ At("poll", "idle") /\ device = "up"
    /\ hw_head' = reg_head /\ budget' = CleanBudget
    /\ IF sw_head # reg_head THEN Goto("poll", "clean") ELSE UNCHANGED pc
    /\ UNCHANGED <<sw_head, sw_tail, buff_ring, dx_ring, regs, queue, dma, skbs, cur>>

\* Slips: the end of the packet is not looked for, or hw_head is not the limit.
NeverUnfinished(b) == FALSE
CleanToTail == sw_head = sw_tail \/ budget = 0

\* The first descriptor of a packet the device has not finished.
Unfinished(b) ==
    /\ b.mapped /\ b.sop /\ ~b.eop
    /\ b.eop_index # NoEop
    /\ ~aq_ring_dx_in_range(sw_head, b.eop_index, hw_head)

CleanDone == sw_head = hw_head \/ budget = 0 \/ Unfinished(buff_ring[sw_head])

\* A reclaimed buffer: its flags and its skb pointer stay behind.
Cleaned(b) == [sop |-> b.sop, eop |-> b.eop, mapped |-> b.mapped, ctx |-> b.ctx,
               pa |-> NoPa, eop_index |-> NoEop, skb |-> b.skb]

\* One round of the loop of aq_ring_tx_clean.
aq_ring_tx_clean ==
    LET b == buff_ring[sw_head]
    IN /\ At("poll", "clean") /\ ~CleanDone
       /\ dma' = IF b.mapped THEN dma \ {b.pa} ELSE dma
       /\ skbs' = IF b.eop THEN [skbs EXCEPT ![b.skb] = "stack"] ELSE skbs
       /\ buff_ring' = [buff_ring EXCEPT ![sw_head] = Cleaned(b)]
       /\ sw_head' = aq_ring_next_dx(sw_head)
       /\ budget' = budget - 1
       /\ UNCHANGED <<sw_tail, hw_head, dx_ring, regs, queue, pc, cur>>

\* A slip: a budget that ran out is not reported.
CleanReturnSilent ==
    /\ At("poll", "clean") /\ CleanDone
    /\ IF device = "up"
         THEN Goto("poll", "update") /\ UNCHANGED device
         ELSE Goto("poll", "idle") /\ device' = "down"
    /\ budget' = CleanBudget
    /\ UNCHANGED <<ring, buff_ring, dx_ring, regs, stopped, carrier, dma, skbs, cur>>

\* aq_ring_tx_clean returns, to aq_vec_poll or to aq_vec_deinit.  A budget
\* left at 0 makes aq_vec_poll ask for another poll.
CleanReturn ==
    /\ At("poll", "clean") /\ CleanDone
    /\ IF device = "up"
         THEN Goto("poll", "update") /\ UNCHANGED device
         ELSE Goto("poll", "idle") /\ device' = "down"
    /\ budget' = IF budget = 0 THEN 0 ELSE CleanBudget
    /\ UNCHANGED <<ring, buff_ring, dx_ring, regs, stopped, carrier, dma, skbs, cur>>

-----------------------------------------------------------------------------
(* The device, the link, and the life of the interface. *)

\* The device fetches, sends and writes back the descriptor at its head.
HwFetch ==
    /\ device = "up" /\ reg_head # reg_tail
    /\ dx_ring' = [dx_ring EXCEPT ![reg_head] = NoPa]
    /\ reg_head' = aq_ring_next_dx(reg_head)
    /\ UNCHANGED <<ring, buff_ring, reg_tail, queue, dma, skbs, pc, budget, cur>>

\* aq_nic_update_link_status: all queues are woken whatever room they have.
LinkUp ==
    /\ device = "up" /\ ~carrier
    /\ carrier' = TRUE /\ stopped' = FALSE
    /\ UNCHANGED <<ring, buff_ring, dx_ring, regs, device, dma, skbs, pc, budget, cur>>

\* netif_tx_disable takes the tx lock, so no xmit is under way.
LinkDown ==
    /\ device = "up" /\ carrier /\ At("xmit", "idle")
    /\ carrier' = FALSE /\ stopped' = TRUE
    /\ UNCHANGED <<ring, buff_ring, dx_ring, regs, device, dma, skbs, pc, budget, cur>>

(***************************************************************************)
(* aq_nic_stop, then aq_vec_deinit: one last aq_ring_tx_clean, up to the   *)
(* hw_head of the last poll.                                               *)
(***************************************************************************)
aq_nic_stop ==
    /\ device = "up" /\ \A t \in Threads : At(t, "idle")
    /\ stopped' = TRUE /\ carrier' = FALSE /\ device' = "stopping"
    /\ Goto("poll", "clean") /\ budget' = CleanBudget
    /\ UNCHANGED <<ring, buff_ring, dx_ring, regs, dma, skbs, cur>>

(***************************************************************************)
(* aq_nic_init and aq_nic_start after a stop: the ring starts again at 0,  *)
(* and what the last clean left behind is never looked at again.           *)
(***************************************************************************)
aq_nic_start ==
    /\ device = "down"
    /\ sw_head' = 0 /\ sw_tail' = 0 /\ hw_head' = 0
    /\ reg_head' = 0 /\ reg_tail' = 0
    /\ stopped' = FALSE /\ device' = "up"
    /\ skbs' = [s \in Skbs |-> IF skbs[s] = "driver" THEN "lost" ELSE skbs[s]]
    /\ UNCHANGED <<buff_ring, dx_ring, carrier, dma, pc, budget, cur>>

-----------------------------------------------------------------------------
Xmit ==
    \/ \E s \in Skbs, sh \in Shapes : XmitEnter(s, sh)
    \/ aq_ring_update_queue_state("xmit")
    \/ XmitTest
    \/ \E fail \in FailAt \cup {0} : aq_nic_map_skb(fail)
    \/ hw_ring_tx_xmit
    \/ tx_ring_tail_update

Poll ==
    \/ hw_ring_tx_head_update
    \/ aq_ring_tx_clean
    \/ CleanReturn
    \/ aq_ring_update_queue_state("poll")

Link == LinkUp \/ LinkDown

Life == aq_nic_stop \/ aq_nic_start

Next == Xmit \/ Poll \/ HwFetch \/ Link \/ Life

Spec == Init /\ [][Next]_vars

(***************************************************************************)
(* The threads do not stop half-way, the device works its ring off while   *)
(* it is up, a completion raises the interrupt that schedules a poll, and  *)
(* NAPI polls again after a poll that used its budget up.                  *)
(***************************************************************************)
Scheduled == (reg_head # hw_head \/ budget = 0) /\ hw_ring_tx_head_update

Fairness ==
    /\ \A t \in Threads : WF_vars(aq_ring_update_queue_state(t))
    /\ WF_vars(XmitTest)
    /\ WF_vars(\E fail \in FailAt \cup {0} : aq_nic_map_skb(fail))
    /\ WF_vars(hw_ring_tx_xmit) /\ WF_vars(tx_ring_tail_update)
    /\ WF_vars(Scheduled) /\ WF_vars(aq_ring_tx_clean) /\ WF_vars(CleanReturn)
    /\ WF_vars(HwFetch)

FairSpec == Spec /\ Fairness

-----------------------------------------------------------------------------
Buffs == [sop : BOOLEAN, eop : BOOLEAN, mapped : BOOLEAN, ctx : BOOLEAN,
          pa : Pa, eop_index : Dx \cup {NoEop}, skb : Skbs \cup {NoSkb}]
Labels == {"idle", "update", "update2", "stop", "wake",
           "test", "map", "post", "clean"}

\* The values the ring of aq_ring_s, its buffers and the threads range over.
TypeOK ==
    /\ sw_head \in Dx /\ sw_tail \in Dx /\ hw_head \in Dx
    /\ buff_ring \in [Dx -> Buffs]
    /\ dx_ring \in [Dx -> Pa]
    /\ reg_head \in Dx /\ reg_tail \in Dx
    /\ stopped \in BOOLEAN /\ carrier \in BOOLEAN
    /\ device \in {"up", "stopping", "down"}
    /\ dma \subseteq Pa
    /\ skbs \in [Skbs -> {"stack", "xmit", "driver", "lost"}]
    /\ pc \in [Threads -> Labels]
    /\ budget \in 0 .. CleanBudget
    /\ cur \in [skb : Skbs \cup {NoSkb}, shape : Shapes \cup {NoShape},
               frags : 0 .. FragsMax + 1]

(***************************************************************************)
(* The ring never overruns: going round from the first descriptor not yet  *)
(* reclaimed, one meets what the last poll saw completed, the device's     *)
(* head, the device's tail and the software's tail, in this order, with    *)
(* xmit and poll moving their ends without a lock (aq_nic_xmit,            *)
(* aq_ring_tx_clean).                                                      *)
(***************************************************************************)
RingOrder ==
    /\ InOrder(sw_head, hw_head, reg_head)
    /\ InOrder(sw_head, reg_head, reg_tail)
    /\ InOrder(sw_head, reg_tail, sw_tail)

(***************************************************************************)
(* When aq_nic_map_skb starts to write buffers, and while                  *)
(* hw_ring_tx_xmit moves sw_tail over them, the free slots suffice, even   *)
(* though the check that stopped the queue or not is some steps back.      *)
(***************************************************************************)
XmitRoom ==
    /\ At("xmit", "map") => Avail > FragsMax
    /\ At("xmit", "post") => cur.frags <= Avail

(***************************************************************************)
(* Every data descriptor the device may still fetch points to memory that  *)
(* is still mapped for it (the driver unmaps in aq_ring_tx_clean).         *)
(***************************************************************************)
DmaSafe ==
    device = "up" =>
        \A i \in Slots(reg_head, reg_tail) :
            dx_ring[i] # NoPa => dx_ring[i] \in dma

(***************************************************************************)
(* A packet is reclaimed as a whole: none of its pieces is unmapped and    *)
(* its skb is not freed while the device has a descriptor of it ahead, and *)
(* the skb is freed only once no piece is mapped any more                  *)
(* (the is_sop / eop_index test of aq_ring_tx_clean).                      *)
(***************************************************************************)
InFlight(s) == \E i \in Slots(reg_head, reg_tail) : dx_ring[i][1] = s
WholePacket ==
    [][/\ \A p \in dma \ dma' : ~InFlight(p[1])
       /\ \A s \in Skbs : skbs[s] = "driver" /\ skbs'[s] = "stack" =>
             ~InFlight(s) /\ \A p \in dma' : p[1] # s]_vars

(***************************************************************************)
(* A queue stopped for lack of descriptors is resumed, unless the link or  *)
(* the interface goes down (aq_ring_update_queue_state).                   *)
(***************************************************************************)
QueueResumes ==
    stopped /\ carrier /\ device = "up"
        ~> ~stopped \/ ~carrier \/ device # "up"

(***************************************************************************)
(* Every skb handed to the device is given back to the stack, unless the   *)
(* interface goes down.                                                    *)
(***************************************************************************)
TxCompletes ==
    \A s \in Skbs : skbs[s] = "driver" ~> skbs[s] # "driver" \/ device # "up"

=============================================================================

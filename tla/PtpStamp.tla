------------------------------ MODULE PtpStamp ------------------------------
(***************************************************************************)
(* Hardware time stamps of sent packets (aq_ptp.c).  A packet of the PTP   *)
(* data path is put into skb_ring and into the ptp_tx ring; the device     *)
(* sends it and writes its time stamp, which carries no name, into the     *)
(* hwts_rx ring; the poll gives the stamp to the oldest skb of skb_ring.   *)
(* A stamp that does not come is given up by the service task, which       *)
(* empties skb_ring ten seconds after the last packet.                     *)
(*                                                                         *)
(* CPUs that send, the poll, the service task, the device and the calls    *)
(* that hold rtnl run side by side.  skb_ring, the timeout and the ptp_tx  *)
(* ring each have a lock of their own, held for one step below.  A packet  *)
(* is one descriptor; the descriptors of a ring are in TxRing.             *)
(***************************************************************************)
EXTENDS Integers, Sequences, FiniteSets

CONSTANTS
    Skbs,        \* packets of the stack
    NoSkb,       \* no packet
    Setups,      \* the CPUs that send, what they send, how often the device is
                 \* opened (a bound) and the size of ptp_tx
    Size,        \* cfg->rxds: the size of skb_ring and of hwts_rx
    TxBudget     \* AQ_CFG_TX_CLEAN_BUDGET

\* CPUs look for room without the lock under which they use it.  Several CPUs
\* can so overrun a ring that is almost full; what happens then is not
\* modelled, and several CPUs come with a ring that has room for all packets.
ASSUME SetupAssumption ==
    \A s \in Setups : /\ s.txds \in Nat \ {0, 1} /\ s.opens \in Nat
                      /\ s.skbs \subseteq Skbs /\ IsFiniteSet(s.cpus)
                      /\ Cardinality(s.cpus) > 1 => s.txds > Cardinality(s.skbs)

ASSUME StampAssumption ==
    /\ Size \in Nat \ {0, 1} /\ TxBudget \in Nat \ {0}
    /\ IsFiniteSet(Skbs) /\ NoSkb \notin Skbs

VARIABLES
    cpus, txds,     \* the setup of this behaviour
    life, opens,    \* the device: down, up or in between; opens left
    dpath,          \* AQ_NIC_PTP_DPATH_UP
    stack,          \* the packets the stack has to send
    refs,           \* skb->users
    pc, skb,        \* aq_ptp_xmit on each CPU
    buff, head, tail,   \* skb_ring
    active, expired,    \* ptp_tx_timeout: active, and tx_start is ten seconds ago
    txq, sent, known,   \* ptp_tx, oldest first; how many are sent; up to hw_head
    air,            \* sent packets whose stamps the device has still to write
    hwts, posted,   \* stamps in hwts_rx; descriptors the device may still write
    ppc, todo,      \* aq_ptp_poll, and the stamps it has still to hand out
    spc             \* aq_ptp_service_task

setup   == <<cpus, txds>>
nic     == <<life, opens, dpath>>
xmit    == <<pc, skb>>
ring    == <<buff, head, tail>>
timeout == <<active, expired>>
tx      == <<txq, sent, known>>
ts      == <<air, hwts, posted>>
poll    == <<ppc, todo>>
vars == <<setup, nic, stack, refs, xmit, ring, timeout, tx, ts, poll, spc>>

Init ==
    /\ \E s \in Setups : /\ cpus = s.cpus /\ txds = s.txds
                         /\ stack = s.skbs /\ opens = s.opens
    /\ life = "down" /\ dpath = FALSE
    /\ refs = [s \in Skbs |-> 1]
    /\ pc = [t \in cpus |-> "idle"] /\ skb = [t \in cpus |-> NoSkb]
    /\ buff = [i \in 0 .. Size - 1 |-> NoSkb] /\ head = 0 /\ tail = 0
    /\ active = FALSE /\ expired = FALSE
    /\ txq = <<>> /\ sent = 0 /\ known = 0
    /\ air = <<>> /\ hwts = <<>> /\ posted = 0
    /\ ppc = "idle" /\ todo = 0 /\ spc = "idle"

Smaller(a, b) == IF a < b THEN a ELSE b
Drop(q, n) == SubSeq(q, n + 1, Len(q))
Count(q, s) == Cardinality({i \in DOMAIN q : q[i] = s})
\* dev_kfree_skb_any of the packets of q.
Freed(q) == [s \in Skbs |-> refs[s] - Count(q, s)]

-----------------------------------------------------------------------------
(* skb_ring: each operation is one critical section of its lock. *)

Next_(i) == (i + 1) % Size

aq_ptp_skb_buf_len ==
    IF head >= tail THEN head - tail ELSE Size - tail + head

\* The packets of skb_ring, oldest first.
Queue == [i \in 1 .. aq_ptp_skb_buf_len |-> buff[(tail + i - 1) % Size]]

\* A slip: the packet is stored without a reference of its own.
PutNoRef(s) ==
    /\ buff' = [buff EXCEPT ![head] = s] /\ head' = Next_(head)
    /\ UNCHANGED <<tail, refs>>

Full == Next_(head) = tail
Put(s) ==
    /\ buff' = [buff EXCEPT ![head] = s] /\ head' = Next_(head)
    /\ refs' = [refs EXCEPT ![s] = @ + 1]
    /\ UNCHANGED tail

\* A slip: the youngest packet is taken.
GetYoungest ==
    /\ head' = IF head = 0 THEN Size - 1 ELSE head - 1
    /\ refs' = Freed(<<buff[head']>>)
    /\ buff' = [buff EXCEPT ![head'] = NoSkb]
    /\ UNCHANGED tail

\* __aq_ptp_skb_get, and the dev_kfree_skb_any of its callers.  The pointer
\* the code leaves behind in the slot is never read.
Empty == tail = head
Get ==
    /\ tail' = Next_(tail)
    /\ refs' = Freed(<<buff[tail]>>)
    /\ buff' = [buff EXCEPT ![tail] = NoSkb]
    /\ UNCHANGED head

-----------------------------------------------------------------------------
(* aq_ptp_xmit.  CPUs hold the locks of different queues of the stack.     *)

Goto(t, to) == pc' = [pc EXCEPT ![t] = to]

\* aq_ndev_start_xmit takes the PTP data path, and there is room or not.
XmitStart(t, s) ==
    /\ life = "up" /\ dpath /\ pc[t] = "idle" /\ s \in stack
    /\ stack' = stack \ {s}
    /\ IF Len(txq) < txds - 1
         THEN Goto(t, "put") /\ skb' = [skb EXCEPT ![t] = s] /\ refs' = refs
         ELSE refs' = Freed(<<s>>) /\ UNCHANGED xmit
    /\ UNCHANGED <<setup, nic, ring, timeout, tx, ts, poll, spc>>

\* aq_ptp_skb_put; a full ring gives the packet back to the stack.
XmitPut(t) ==
    /\ pc[t] = "put"
    /\ IF Full THEN /\ Goto(t, "idle") /\ skb' = [skb EXCEPT ![t] = NoSkb]
                    /\ stack' = stack \cup {skb[t]}
                    /\ UNCHANGED <<ring, refs>>
               ELSE Goto(t, "start") /\ Put(skb[t]) /\ UNCHANGED <<stack, skb>>
    /\ UNCHANGED <<setup, nic, timeout, tx, ts, poll, spc>>

aq_ptp_tx_timeout_start(t) ==
    /\ pc[t] = "start" /\ Goto(t, "map")
    /\ active' = TRUE /\ expired' = FALSE
    /\ UNCHANGED <<setup, nic, stack, refs, skb, ring, tx, ts, poll, spc>>

XmitMap(t) ==
    /\ pc[t] = "map" /\ Goto(t, "idle") /\ skb' = [skb EXCEPT ![t] = NoSkb]
    /\ txq' = Append(txq, skb[t])
    /\ UNCHANGED <<setup, nic, stack, refs, ring, timeout, sent, known, ts, poll, spc>>

\* aq_nic_map_skb fails: the stack sends the packet again, with its first
\* entry still in skb_ring.
XmitMapFails(t) ==
    /\ pc[t] = "map" /\ Goto(t, "idle") /\ skb' = [skb EXCEPT ![t] = NoSkb]
    /\ stack' = stack \cup {skb[t]}
    /\ UNCHANGED <<setup, nic, refs, ring, timeout, tx, ts, poll, spc>>

aq_ptp_xmit(t) ==
    \/ \E s \in Skbs : XmitStart(t, s)
    \/ XmitPut(t) \/ aq_ptp_tx_timeout_start(t) \/ XmitMap(t) \/ XmitMapFails(t)

-----------------------------------------------------------------------------
(* The device and time (external). *)

Running == life \in {"started", "up", "no_queues", "no_service"}

Transmit ==
    /\ Running /\ sent < Len(txq)
    /\ sent' = sent + 1 /\ air' = Append(air, txq[sent + 1])
    /\ UNCHANGED <<setup, nic, stack, refs, xmit, ring, timeout, txq, known, hwts, posted, poll, spc>>

WriteStamp ==
    /\ Running /\ air # <<>> /\ posted > 0
    /\ air' = Tail(air) /\ hwts' = Append(hwts, Head(air)) /\ posted' = posted - 1
    /\ UNCHANGED <<setup, nic, stack, refs, xmit, ring, timeout, tx, poll, spc>>

\* For want of a descriptor, or with the link lost.
LoseStamp ==
    /\ Running /\ air # <<>>
    /\ air' = Tail(air)
    /\ UNCHANGED <<setup, nic, stack, refs, xmit, ring, timeout, tx, hwts, posted, poll, spc>>

TenSeconds ==
    /\ active /\ ~expired /\ expired' = TRUE
    /\ UNCHANGED <<setup, nic, stack, refs, xmit, ring, active, tx, ts, poll, spc>>

-----------------------------------------------------------------------------
(* aq_ptp_poll, which runs whenever there is something to serve (VecNapi). *)

PollTx ==
    /\ Running /\ ppc = "idle" /\ (sent > 0 \/ hwts # <<>>)
    /\ LET n == Smaller(sent, TxBudget) IN
         /\ txq' = Drop(txq, n) /\ sent' = sent - n /\ known' = sent - n
         /\ refs' = Freed(SubSeq(txq, 1, n))
    /\ ppc' = "receive"
    /\ UNCHANGED <<setup, nic, stack, xmit, ring, timeout, ts, todo, spc>>

\* hw_ring_hwts_rx_receive
PollReceive ==
    /\ ppc = "receive"
    /\ todo' = Len(hwts) /\ ppc' = IF hwts = <<>> THEN "rx" ELSE "stamp"
    /\ UNCHANGED <<setup, nic, stack, refs, xmit, ring, timeout, tx, ts, spc>>

\* aq_ring_hwts_rx_clean goes on, or hw_ring_hwts_rx_fill posts what is free.
Handed(h) ==
    /\ todo' = todo - 1
    /\ IF todo > 1 THEN ppc' = "stamp" /\ posted' = posted
                   ELSE ppc' = "rx" /\ posted' = Size - 1 - Len(h)

\* aq_ptp_tx_hwtstamp
PollStamp ==
    /\ ppc = "stamp"
    /\ hwts' = Tail(hwts)
    /\ IF Empty THEN Handed(hwts') /\ UNCHANGED <<ring, refs>>
                ELSE Get /\ ppc' = "len" /\ UNCHANGED <<todo, posted>>
    /\ UNCHANGED <<setup, nic, stack, xmit, timeout, tx, air, spc>>

\* aq_ptp_tx_timeout_update looks at the ring, ...
PollLen ==
    /\ ppc = "len"
    /\ IF aq_ptp_skb_buf_len = 0 THEN ppc' = "clear" /\ UNCHANGED <<todo, posted>>
                                 ELSE Handed(hwts)
    /\ UNCHANGED <<setup, nic, stack, refs, xmit, ring, timeout, tx, air, hwts, spc>>

\* ... and stops the timeout under another lock.
PollClear ==
    /\ ppc = "clear"
    /\ active' = FALSE /\ Handed(hwts)
    /\ UNCHANGED <<setup, nic, stack, refs, xmit, ring, expired, tx, air, hwts, spc>>

\* What aq_ptp_poll does to the receive ring is in RxRing.
PollRx ==
    /\ ppc = "rx" /\ ppc' = "idle"
    /\ UNCHANGED <<setup, nic, stack, refs, xmit, ring, timeout, tx, ts, todo, spc>>

aq_ptp_poll ==
    PollTx \/ PollReceive \/ PollStamp \/ PollLen \/ PollClear \/ PollRx

-----------------------------------------------------------------------------
(* aq_ptp_service_task, first thing in aq_nic_service_task. *)

ServiceOn == life \in {"started", "up", "no_queues"}

\* A slip: time_is_after_jiffies for time_is_before_jiffies.
CheckReversed ==
    /\ ServiceOn /\ spc = "idle" /\ active /\ ~expired
    /\ active' = FALSE /\ spc' = "clean"
    /\ UNCHANGED <<setup, nic, stack, refs, xmit, ring, expired, tx, ts, poll>>

aq_ptp_tx_timeout_check ==
    /\ ServiceOn /\ spc = "idle" /\ active /\ expired
    /\ active' = FALSE /\ spc' = "clean"
    /\ UNCHANGED <<setup, nic, stack, refs, xmit, ring, expired, tx, ts, poll>>

aq_ptp_skb_ring_clean ==
    /\ spc = "clean"
    /\ IF Empty THEN spc' = "idle" /\ UNCHANGED <<ring, refs>>
                ELSE Get /\ spc' = spc
    /\ UNCHANGED <<setup, nic, stack, xmit, timeout, tx, ts, poll>>

-----------------------------------------------------------------------------
(* Calls under rtnl. *)

\* aq_ptp_hwtstamp_config_set, up or down.
aq_ptp_hwtstamp_config_set ==
    /\ life \in {"down", "up"} /\ dpath' = ~dpath
    /\ UNCHANGED <<setup, life, opens, stack, refs, xmit, ring, timeout, tx, ts, poll, spc>>

\* New rings; those of the last open, and the packets in them, are forgotten.
aq_ptp_ring_alloc ==
    /\ buff' = [i \in 0 .. Size - 1 |-> NoSkb] /\ head' = 0 /\ tail' = 0
    /\ txq' = <<>> /\ sent' = 0 /\ known' = 0
    /\ air' = <<>> /\ hwts' = <<>>

\* hw_ring_hwts_rx_fill of an empty ring.
aq_ptp_ring_init == posted' = Size - 1

\* aq_nic_init and aq_nic_start.
RingOpen ==
    /\ life = "down" /\ opens > 0
    /\ aq_ptp_ring_alloc /\ aq_ptp_ring_init
    /\ life' = "started" /\ opens' = opens - 1
    /\ UNCHANGED <<setup, dpath, stack, refs, xmit, timeout, poll, spc>>

\* netif_tx_start_all_queues
StartQueues ==
    /\ life = "started" /\ life' = "up"
    /\ UNCHANGED <<setup, opens, dpath, stack, refs, xmit, ring, timeout, tx, ts, poll, spc>>

\* netif_tx_disable waits for the CPUs that send.
StopQueues ==
    /\ life = "up" /\ \A t \in cpus : pc[t] = "idle"
    /\ life' = "no_queues"
    /\ UNCHANGED <<setup, opens, dpath, stack, refs, xmit, ring, timeout, tx, ts, poll, spc>>

\* cancel_work_sync waits for the service task.
CancelService ==
    /\ life = "no_queues" /\ spc = "idle"
    /\ life' = "no_service"
    /\ UNCHANGED <<setup, opens, dpath, stack, refs, xmit, ring, timeout, tx, ts, poll, spc>>

\* aq_ptp_irq_free and aq_ptp_ring_stop, whose napi_disable waits for the poll.
aq_ptp_ring_stop ==
    /\ life = "no_service" /\ ppc = "idle"
    /\ life' = "stopped" /\ air' = <<>>
    /\ UNCHANGED <<setup, opens, dpath, stack, refs, xmit, ring, timeout, tx, hwts, posted, poll, spc>>

\* aq_ring_tx_clean frees what the last poll knew to be sent.
aq_ptp_ring_deinit ==
    /\ life = "stopped" /\ life' = "down"
    /\ LET n == Smaller(known, TxBudget) IN
         /\ txq' = Drop(txq, n) /\ sent' = sent - n /\ known' = known - n
         /\ refs' = Freed(SubSeq(txq, 1, n))
    /\ UNCHANGED <<setup, opens, dpath, stack, xmit, ring, timeout, ts, poll, spc>>

\* aq_ptp_ring_free and aq_ptp_free on remove: skb_ring is emptied, the other
\* rings are given back with the packets in them.
aq_ptp_ring_free ==
    /\ life = "down" /\ life' = "gone" /\ dpath' = FALSE
    /\ refs' = Freed(Queue) /\ tail' = head
    /\ buff' = [i \in 0 .. Size - 1 |-> NoSkb]
    /\ txq' = <<>> /\ sent' = 0 /\ known' = 0
    /\ hwts' = <<>>
    /\ UNCHANGED <<setup, opens, stack, xmit, head, timeout, air, posted, poll, spc>>

Rtnl ==
    \/ aq_ptp_hwtstamp_config_set \/ RingOpen \/ StartQueues \/ StopQueues
    \/ CancelService \/ aq_ptp_ring_stop \/ aq_ptp_ring_deinit \/ aq_ptp_ring_free

Device == Transmit \/ WriteStamp \/ LoseStamp

Next ==
    \/ \E t \in cpus : aq_ptp_xmit(t)
    \/ Device \/ TenSeconds \/ aq_ptp_poll
    \/ aq_ptp_tx_timeout_check \/ aq_ptp_skb_ring_clean \/ Rtnl

\* The device sends what it has, CPUs go on, NAPI polls, time passes and the
\* service timer fires.  Nobody has to send, to close, or to stamp.
Fairness ==
    /\ \A c \in UNION {s.cpus : s \in Setups} :
          WF_vars(c \in cpus /\ (XmitPut(c) \/ aq_ptp_tx_timeout_start(c)
                                   \/ XmitMap(c) \/ XmitMapFails(c)))
    /\ WF_vars(Device) /\ WF_vars(TenSeconds) /\ WF_vars(aq_ptp_poll)
    /\ WF_vars(aq_ptp_tx_timeout_check) /\ WF_vars(aq_ptp_skb_ring_clean)

Spec == Init /\ [][Next]_vars /\ Fairness

-----------------------------------------------------------------------------
(* Properties. *)

InHand == {t \in cpus : pc[t] \in {"start", "map"}}

\* The stamps still to come, in their order, if one CPU has a packet in hand.
Pending == hwts \o air \o Drop(txq, sent)
             \o (IF InHand = {} THEN <<>> ELSE <<skb[CHOOSE t \in InHand : TRUE]>>)
Holders(s) == Count(txq, s) + Count(Queue, s) + (IF s \in stack THEN 1 ELSE 0)
                + Cardinality({t \in cpus : skb[t] = s})

\* The values the rings, the threads and the device range over.
TypeOK ==
    /\ life \in {"down", "started", "up", "no_queues", "no_service", "stopped", "gone"}
    /\ opens \in Nat /\ dpath \in BOOLEAN
    /\ stack \subseteq Skbs /\ refs \in [Skbs -> Nat]
    /\ pc \in [cpus -> {"idle", "put", "start", "map"}]
    /\ skb \in [cpus -> Skbs \cup {NoSkb}]
    /\ buff \in [0 .. Size - 1 -> Skbs \cup {NoSkb}]
    /\ head \in 0 .. Size - 1 /\ tail \in 0 .. Size - 1
    /\ active \in BOOLEAN /\ expired \in BOOLEAN
    /\ {txq, air, hwts} \subseteq Seq(Skbs)
    /\ sent \in 0 .. Len(txq) /\ known \in 0 .. sent
    /\ posted \in 0 .. Size - 1 /\ Len(hwts) + posted <= Size - 1
    /\ ppc \in {"idle", "receive", "stamp", "len", "clear", "rx"}
    /\ todo \in Nat /\ spc \in {"idle", "clean"}

\* skb_ring is in step with the stamps to come: each stamp finds its packet.
InStep == Queue = Pending /\ Cardinality(InHand) <= 1

\* What puts it out of step: a stamp that is lost, also by a stop; a packet
\* that is put but not sent; two CPUs between put and send at once; and the
\* timeout.
Disturbed ==
    \/ LoseStamp \/ aq_ptp_ring_stop \/ spc = "clean"
    \/ \E t \in cpus : XmitMapFails(t) \/ (InHand # {} /\ XmitPut(t))

\* Time stamps go to the packets they belong to: aq_ptp_tx_hwtstamp gives a
\* stamp to the oldest entry of skb_ring, and unless one of the four things
\* above happens, that is the packet the device stamped.  In step again is
\* only a ring that has run empty.
StampsMatch == [][InStep /\ ~Disturbed => InStep']_vars

\* A packet has one reference for each place that will free it, in every
\* interleaving of sender, poll and timeout; only opening again and removal
\* lose packets (of the last open's rings).
RefsKept ==
    [][~(RingOpen \/ aq_ptp_ring_free) =>
         \A s \in Skbs : refs'[s] - Holders(s)' = refs[s] - Holders(s)]_vars

\* An entry of skb_ring that no timeout will ever free.
Unwatched ==
    /\ Queue # <<>> /\ ~active /\ spc = "idle" /\ ppc # "clear"
    /\ \A t \in cpus : pc[t] # "start"

\* The one way to get there: aq_ptp_tx_timeout_update found the ring empty,
\* and a packet was entered and the timeout started before it stops it.
StaleStop == PollClear /\ ~Empty

\* Packets whose stamps do not come are freed.  Nothing but the stale stop
\* takes the timeout from an entry; and with it skb_ring runs empty while the
\* device is up, if nothing more is sent (every packet sets the ten seconds
\* anew).
Drains ==
    /\ [][~Unwatched /\ ~StaleStop => ~Unwatched']_vars
    /\ []<>( \/ Queue = <<>> \/ Unwatched
             \/ life # "up" \/ \E t \in cpus : pc[t] # "idle")

=============================================================================

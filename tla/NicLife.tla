------------------------------ MODULE NicLife ------------------------------
(***************************************************************************)
(* The life cycle of the interface: open, close, the restarts ethtool and  *)
(* set_features ask for, suspend, resume, shutdown and remove, one at a    *)
(* time under the rtnl lock, against what runs beside them: the service    *)
(* timer and work, the link interrupt and work, and the link itself.       *)
(*                                                                         *)
(* The vectors' interrupts and NAPI are in VecNapi, the rings in TxRing    *)
(* and RxRing; here all of them together are switched on and off.          *)
(***************************************************************************)
EXTENDS Integers

CONSTANTS
    Setups,    \* the operations that may be asked for, whether there is a
               \* vector left for the link interrupt, the speeds a link comes
               \* up with, and the steps of init, start and stop that may fail
    Speeds     \* link speeds, in Mbps

Operations ==
    {"open", "close", "restart", "ringparam", "suspend", "resume",
     "shutdown", "remove"}
StartSteps ==
    {"reset", "fill", "vecs", "timer", "irqs", "link_irq", "unmask", "queues"}
StopSteps ==
    {"stop", "del_timer", "cancel", "cancel_link", "mask", "stop_vecs",
     "free_irqs", "hw_stop"}

ASSUME LifeAssumption ==
    /\ \A s \in Setups :
          /\ s.ops \subseteq Operations /\ s.irq \in BOOLEAN
          /\ s.speeds \subseteq Speeds
          /\ s.fails \subseteq StartSteps \cup {"hw_stop"}
    /\ Speeds \subseteq Nat \ {0}

VARIABLES
    setup,             \* the setup of this behaviour
    life, op,          \* the step the rtnl thread is at, the operation it runs
    running,           \* netif_running
    carrier, stopped,  \* netif_carrier_ok; the Tx queues are stopped
    timer,             \* service_timer is pending
    pending, at, got,  \* the works: queued, where they are, the speed read
    rings, dma, napi,  \* the rings; enabled in the device; NAPI enabled
    irqs,              \* interrupts requested
    lstat, lmask, lmsg,\* the link vector: status, mask, message under way
    mpi, link,         \* firmware: told to have a link; its speed
    mbps, seen         \* the speed in aq_hw's and in aq_nic's link_status

stack  == <<running, carrier, stopped>>
works  == <<timer, pending, at, got>>
device == <<rings, dma, napi, irqs>>
lirq   == <<lstat, lmask, lmsg>>
fw     == <<mpi, link>>
status == <<mbps, seen>>
vars   == <<setup, life, op, stack, works, device, lirq, fw, status>>

LinkIrq == setup.irq
Works == {"service_task", "link_update_task"}

\* After probe: the rings are allocated, the interface is registered.
Init ==
    /\ setup \in Setups
    /\ life = "down" /\ op = "none"
    /\ running = FALSE /\ carrier = FALSE /\ stopped = TRUE
    /\ timer = FALSE
    /\ pending = [w \in Works |-> FALSE]
    /\ at = [w \in Works |-> "idle"] /\ got = [w \in Works |-> 0]
    /\ rings = "clean" /\ dma = FALSE /\ napi = FALSE /\ irqs = {}
    /\ lstat = FALSE /\ lmask = FALSE /\ lmsg = FALSE
    /\ mpi = FALSE /\ link = 0
    /\ mbps = 0 /\ seen = 0

-----------------------------------------------------------------------------
(* The link and its interrupt (external). *)

LinkUp ==
    /\ mpi /\ link = 0
    /\ link' \in setup.speeds
    /\ lstat' = LinkIrq
    /\ UNCHANGED <<setup, life, op, stack, works, device, lmask, lmsg, mpi, status>>

LinkDown ==
    /\ link # 0
    /\ link' = 0
    /\ lstat' = LinkIrq
    /\ UNCHANGED <<setup, life, op, stack, works, device, lmask, lmsg, mpi, status>>

SendLinkMsg ==
    /\ lstat /\ lmask
    /\ lmsg' = TRUE /\ lstat' = FALSE /\ lmask' = FALSE
    /\ UNCHANGED <<setup, life, op, stack, works, device, fw, status>>

-----------------------------------------------------------------------------
(* What queues the works. *)

aq_linkstate_isr ==
    /\ lmsg /\ "link" \in irqs
    /\ lmsg' = FALSE
    /\ pending' = [pending EXCEPT !["link_update_task"] = TRUE]
    /\ UNCHANGED <<setup, life, op, stack, timer, at, got, device, lstat, lmask, fw, status>>

\* A slip: the timer is not set again.
TimerOnce ==
    /\ timer
    /\ timer' = FALSE
    /\ pending' = [pending EXCEPT !["service_task"] = TRUE]
    /\ UNCHANGED <<setup, life, op, stack, at, got, device, lirq, fw, status>>

aq_nic_service_timer_cb ==
    /\ timer
    /\ timer' = TRUE
    /\ pending' = [pending EXCEPT !["service_task"] = TRUE]
    /\ UNCHANGED <<setup, life, op, stack, at, got, device, lirq, fw, status>>

-----------------------------------------------------------------------------
(***************************************************************************)
(* aq_nic_update_link_status, run by both works, with no lock between      *)
(* them.  (AQ_NIC_FLAGS_IS_NOT_READY, which the service work tests, is     *)
(* never set.)                                                             *)
(***************************************************************************)
Goto(w, step) == at' = [at EXCEPT ![w] = step]

WorkStart(w) ==
    /\ at[w] = "idle" /\ pending[w]
    /\ pending' = [pending EXCEPT ![w] = FALSE]
    /\ Goto(w, "read")
    /\ UNCHANGED <<setup, life, op, stack, timer, got, device, lirq, fw, status>>

\* aq_fw2x_update_link_status: read the register, ...
ReadSpeed(w) ==
    /\ at[w] = "read"
    /\ got' = [got EXCEPT ![w] = link]
    /\ Goto(w, "store")
    /\ UNCHANGED <<setup, life, op, stack, timer, pending, device, lirq, fw, status>>

\* ... and store what it says.
StoreSpeed(w) ==
    /\ at[w] = "store"
    /\ mbps' = got[w] /\ got' = [got EXCEPT ![w] = 0]
    /\ Goto(w, "save")
    /\ UNCHANGED <<setup, life, op, stack, timer, pending, device, lirq, fw, seen>>

\* (A new speed also sets interrupt moderation and flow control.)
SaveStatus(w) ==
    /\ at[w] = "save"
    /\ seen' = mbps
    /\ Goto(w, "on")
    /\ UNCHANGED <<setup, life, op, stack, timer, pending, got, device, lirq, fw, mbps>>

CarrierOn(w) ==
    /\ at[w] = "on"
    /\ IF ~carrier /\ seen # 0 THEN carrier' = TRUE /\ Goto(w, "wake")
                               ELSE carrier' = carrier /\ Goto(w, "off")
    /\ UNCHANGED <<setup, life, op, running, stopped, timer, pending, got, device, lirq, fw, status>>

\* A slip: the queues stay stopped.
NoWake(w) ==
    /\ at[w] = "wake"
    /\ Goto(w, "off")
    /\ UNCHANGED <<setup, life, op, stack, timer, pending, got, device, lirq, fw, status>>

WakeQueues(w) ==
    /\ at[w] = "wake"
    /\ stopped' = FALSE
    /\ Goto(w, "off")
    /\ UNCHANGED <<setup, life, op, running, carrier, timer, pending, got, device, lirq, fw, status>>

CarrierOff(w) ==
    /\ at[w] = "off"
    /\ IF carrier /\ seen = 0 THEN carrier' = FALSE /\ Goto(w, "disable")
                              ELSE carrier' = carrier /\ Goto(w, "end")
    /\ UNCHANGED <<setup, life, op, running, stopped, timer, pending, got, device, lirq, fw, status>>

DisableQueues(w) ==
    /\ at[w] = "disable"
    /\ stopped' = TRUE
    /\ Goto(w, "end")
    /\ UNCHANGED <<setup, life, op, running, carrier, timer, pending, got, device, lirq, fw, status>>

\* The link work enables its interrupt again.
WorkEnd(w) ==
    /\ at[w] = "end"
    /\ lmask' = (lmask \/ w = "link_update_task")
    /\ Goto(w, "idle")
    /\ UNCHANGED <<setup, life, op, stack, timer, pending, got, device, lstat, lmsg, fw, status>>

Work(w) ==
    \/ WorkStart(w)
    \/ ReadSpeed(w) \/ StoreSpeed(w) \/ SaveStatus(w)
    \/ CarrierOn(w) \/ WakeQueues(w) \/ CarrierOff(w) \/ DisableQueues(w)
    \/ WorkEnd(w)

-----------------------------------------------------------------------------
(* The operations. *)

Asked(o) == o \in setup.ops /\ op' = o

\* dev_open: IFF_UP before ndo_open.
aq_ndev_open ==
    /\ Asked("open") /\ life = "down" /\ ~running
    /\ running' = TRUE
    /\ life' = "reset"
    /\ UNCHANGED <<setup, carrier, stopped, works, device, lirq, fw, status>>

\* dev_close: IFF_UP is cleared before ndo_stop.
aq_ndev_close ==
    /\ Asked("close") /\ life \in {"up", "down"} /\ running
    /\ running' = FALSE
    /\ life' = "stop"
    /\ UNCHANGED <<setup, carrier, stopped, works, device, lirq, fw, status>>

\* aq_ndev_set_features restarts the device behind the back of the stack.
aq_ndev_set_features ==
    /\ Asked("restart") /\ life \in {"up", "down"} /\ running
    /\ life' = "stop"
    /\ UNCHANGED <<setup, stack, works, device, lirq, fw, status>>

aq_set_ringparam ==
    /\ "ringparam" \in setup.ops /\ life \in {"up", "down"}
    /\ running' = FALSE
    /\ life' = IF running THEN "stop" ELSE "realloc"
    /\ op' = IF running THEN "ringparam" ELSE "none"
    /\ UNCHANGED <<setup, carrier, stopped, works, device, lirq, fw, status>>

aq_pci_suspend ==
    /\ Asked("suspend") /\ life \in {"up", "down"} /\ running
    /\ stopped' = TRUE
    /\ life' = "stop"
    /\ UNCHANGED <<setup, running, carrier, works, device, lirq, fw, status>>

aq_pci_resume ==
    /\ Asked("resume") /\ life = "asleep"
    /\ life' = "reset"
    /\ UNCHANGED <<setup, stack, works, device, lirq, fw, status>>

\* A slip: the device is stopped whether or not it is running.
ShutdownAlways ==
    /\ Asked("shutdown") /\ life \in {"up", "down"}
    /\ stopped' = TRUE
    /\ life' = "stop"
    /\ UNCHANGED <<setup, running, carrier, works, device, lirq, fw, status>>

\* A device that is not running is only deinitialised.
aq_nic_shutdown ==
    /\ Asked("shutdown") /\ life \in {"up", "down"}
    /\ stopped' = TRUE
    /\ life' = IF running THEN "stop" ELSE "deinit"
    /\ UNCHANGED <<setup, running, carrier, works, device, lirq, fw, status>>

\* unregister_netdev closes the interface.
aq_pci_remove ==
    /\ Asked("remove") /\ life \in {"up", "down"}
    /\ running' = FALSE
    /\ life' = IF running THEN "stop" ELSE "free"
    /\ UNCHANGED <<setup, carrier, stopped, works, device, lirq, fw, status>>

-----------------------------------------------------------------------------
(* aq_nic_init and aq_nic_start. *)

\* hw_reset and hw_init: the device forgets its rings and masks; the firmware
\* is asked for a link.
InitHw ==
    /\ life = "reset"
    /\ dma' = FALSE /\ lstat' = FALSE /\ lmask' = FALSE
    /\ mpi' = TRUE /\ mbps' = 0
    /\ life' = "fill"
    /\ UNCHANGED <<setup, op, stack, works, rings, napi, irqs, lmsg, link, seen>>

\* aq_vec_init of every vector; INIT_WORK of the link work.
InitRings ==
    /\ life = "fill"
    /\ rings' = "filled" /\ carrier' = FALSE
    /\ pending' = [pending EXCEPT !["link_update_task"] = FALSE]
    /\ life' = "vecs"
    /\ UNCHANGED <<setup, op, running, stopped, timer, at, got, dma, napi, irqs, lirq, fw, status>>

\* aq_vec_start of every vector, hw_start.
StartVecs ==
    /\ life = "vecs"
    /\ dma' = TRUE /\ napi' = TRUE
    /\ life' = "timer"
    /\ UNCHANGED <<setup, op, stack, works, rings, irqs, lirq, fw, status>>

\* INIT_WORK of the service work; the timer's callback is called.
StartTimer ==
    /\ life = "timer"
    /\ timer' = TRUE
    /\ pending' = [pending EXCEPT !["service_task"] = TRUE]
    /\ life' = "irqs"
    /\ UNCHANGED <<setup, op, stack, at, got, device, lirq, fw, status>>

StartIrqs ==
    /\ life = "irqs"
    /\ irqs' = irqs \cup {"vec"}
    /\ life' = "link_irq"
    /\ UNCHANGED <<setup, op, stack, works, rings, dma, napi, lirq, fw, status>>

StartLinkIrq ==
    /\ life = "link_irq"
    /\ irqs' = IF LinkIrq THEN irqs \cup {"link"} ELSE irqs
    /\ life' = "unmask"
    /\ UNCHANGED <<setup, op, stack, works, rings, dma, napi, lirq, fw, status>>

StartUnmask ==
    /\ life = "unmask"
    /\ lmask' = TRUE
    /\ life' = "queues"
    /\ UNCHANGED <<setup, op, stack, works, device, lstat, lmsg, fw, status>>

StartQueues ==
    /\ life = "queues"
    /\ stopped' = FALSE
    /\ life' = "up" /\ op' = "none"
    /\ UNCHANGED <<setup, running, carrier, works, device, lirq, fw, status>>

\* err_exit: an open is deinitialised and refused; a resume is given up with
\* the interface still running to the stack.
StartFails ==
    /\ life \in setup.fails \cap StartSteps
    /\ IF op = "resume" THEN life' = "down" /\ op' = "none"
                        ELSE life' = "deinit" /\ op' = op
    /\ running' = (running /\ op # "open")
    /\ UNCHANGED <<setup, carrier, stopped, works, device, lirq, fw, status>>

aq_nic_init == InitHw \/ InitRings

aq_nic_start ==
    \/ StartVecs
    \/ StartTimer
    \/ StartIrqs \/ StartLinkIrq
    \/ StartUnmask
    \/ StartQueues

-----------------------------------------------------------------------------
(* aq_nic_stop and aq_nic_deinit. *)

StopQueues ==
    /\ life = "stop"
    /\ stopped' = TRUE /\ carrier' = FALSE
    /\ life' = "del_timer"
    /\ UNCHANGED <<setup, op, running, works, device, lirq, fw, status>>

\* del_timer_sync
StopTimer ==
    /\ life = "del_timer"
    /\ timer' = FALSE
    /\ life' = "cancel"
    /\ UNCHANGED <<setup, op, stack, pending, at, got, device, lirq, fw, status>>

\* A slip: a queued work is cancelled, a running one is not waited for.
CancelService ==
    /\ life = "cancel"
    /\ pending' = [pending EXCEPT !["service_task"] = FALSE]
    /\ life' = "cancel_link"
    /\ UNCHANGED <<setup, op, stack, timer, at, got, device, lirq, fw, status>>

\* cancel_work_sync
StopService ==
    /\ life = "cancel" /\ at["service_task"] = "idle"
    /\ pending' = [pending EXCEPT !["service_task"] = FALSE]
    /\ life' = "cancel_link"
    /\ UNCHANGED <<setup, op, stack, timer, at, got, device, lirq, fw, status>>

StopLink ==
    /\ life = "cancel_link" /\ at["link_update_task"] = "idle"
    /\ pending' = [pending EXCEPT !["link_update_task"] = FALSE]
    /\ life' = "mask"
    /\ UNCHANGED <<setup, op, stack, timer, at, got, device, lirq, fw, status>>

hw_irq_disable ==
    /\ life = "mask"
    /\ lmask' = FALSE /\ lstat' = FALSE
    /\ life' = "stop_vecs"
    /\ UNCHANGED <<setup, op, stack, works, device, lmsg, fw, status>>

\* A slip: NAPI is disabled and the device keeps the rings.
StopNapiOnly ==
    /\ life = "stop_vecs" /\ napi
    /\ napi' = FALSE
    /\ life' = "free_irqs"
    /\ UNCHANGED <<setup, op, stack, works, rings, dma, irqs, lirq, fw, status>>

\* aq_vec_stop; napi_disable never returns from a NAPI that is not enabled.
StopVecs ==
    /\ life = "stop_vecs" /\ napi
    /\ dma' = FALSE /\ napi' = FALSE
    /\ life' = "free_irqs"
    /\ UNCHANGED <<setup, op, stack, works, rings, irqs, lirq, fw, status>>

aq_pci_func_free_irqs ==
    /\ life = "free_irqs"
    /\ irqs' = {} /\ lmsg' = FALSE
    /\ life' = "hw_stop"
    /\ UNCHANGED <<setup, op, stack, works, rings, dma, napi, lstat, lmask, fw, status>>

\* Where an operation goes on once the device is stopped and deinitialised.
AfterDeinit ==
    CASE op = "restart"   -> "reset"
      [] op = "ringparam" -> "realloc"
      [] op = "suspend"   -> "asleep"
      [] op = "shutdown"  -> "halted"
      [] op = "remove"    -> "free"
      [] OTHER            -> "down"

OpAfter ==
    CASE op = "restart"                  -> "reopen"
      [] op \in {"ringparam", "remove"} -> op
      [] OTHER                           -> "none"

hw_stop ==
    /\ life = "hw_stop"
    /\ lmask' = FALSE /\ lstat' = FALSE
    /\ life' = "deinit"
    /\ UNCHANGED <<setup, op, stack, works, device, lmsg, fw, status>>

\* hw_stop says that the device is gone: aq_nic_deinit is left out.
StopFails ==
    /\ life = "hw_stop" /\ "hw_stop" \in setup.fails
    /\ life' = AfterDeinit
    /\ op' = OpAfter
    /\ UNCHANGED <<setup, stack, works, device, lirq, fw, status>>

aq_nic_stop ==
    \/ StopQueues
    \/ StopTimer \/ StopService \/ StopLink
    \/ hw_irq_disable
    \/ StopVecs
    \/ aq_pci_func_free_irqs
    \/ hw_stop

\* The rings are cleaned; the firmware takes the link down.
aq_nic_deinit ==
    /\ life = "deinit"
    /\ rings' = "clean"
    /\ mpi' = FALSE /\ link' = 0
    /\ life' = AfterDeinit
    /\ op' = OpAfter
    /\ UNCHANGED <<setup, stack, works, dma, napi, irqs, lirq, status>>

\* aq_set_ringparam: new vectors, and dev_open if the interface was up.
Realloc ==
    /\ life = "realloc"
    /\ running' = (op = "ringparam")
    /\ life' = IF op = "ringparam" THEN "reset" ELSE "down"
    /\ op' = IF op = "ringparam" THEN "open" ELSE op
    /\ UNCHANGED <<setup, carrier, stopped, works, device, lirq, fw, status>>

aq_nic_free_vectors ==
    /\ life = "free"
    /\ rings' = "none"
    /\ life' = "gone"
    /\ UNCHANGED <<setup, op, stack, works, dma, napi, irqs, lirq, fw, status>>

-----------------------------------------------------------------------------
Link == LinkUp \/ LinkDown \/ SendLinkMsg

Operation ==
    \/ aq_ndev_open \/ aq_ndev_close
    \/ aq_ndev_set_features \/ aq_set_ringparam
    \/ aq_pci_suspend \/ aq_pci_resume
    \/ aq_nic_shutdown \/ aq_pci_remove

Step ==
    \/ aq_nic_init \/ aq_nic_start \/ aq_nic_stop \/ aq_nic_deinit
    \/ Realloc \/ aq_nic_free_vectors

Done == life \in {"gone", "halted"} /\ UNCHANGED vars

Next ==
    \/ Link
    \/ aq_linkstate_isr \/ aq_nic_service_timer_cb
    \/ \E w \in Works : Work(w)
    \/ Operation \/ Step \/ StartFails \/ StopFails
    \/ Done

Spec == Init /\ [][Next]_vars

\* Timers expire, works and handlers run to their end, messages arrive, and
\* an operation that was begun goes on.
Fairness ==
    /\ WF_vars(SendLinkMsg) /\ WF_vars(aq_linkstate_isr)
    /\ WF_vars(aq_nic_service_timer_cb)
    /\ \A w \in Works : WF_vars(Work(w))
    /\ WF_vars(Step) /\ SF_vars(StopService) /\ SF_vars(StopLink)

FairSpec == Spec /\ Fairness

-----------------------------------------------------------------------------
\* The values the threads, the stack and the device range over.
TypeOK ==
    /\ setup \in Setups
    /\ life \in StartSteps \cup StopSteps \cup
         {"down", "up", "deinit", "realloc", "asleep", "free", "gone", "halted"}
    /\ op \in Operations \cup {"none", "reopen"}
    /\ running \in BOOLEAN /\ carrier \in BOOLEAN /\ stopped \in BOOLEAN
    /\ timer \in BOOLEAN /\ pending \in [Works -> BOOLEAN]
    /\ at \in [Works -> {"idle", "read", "store", "save", "on", "wake",
                         "off", "disable", "end"}]
    /\ got \in [Works -> Speeds \cup {0}]
    /\ rings \in {"none", "clean", "filled"} /\ dma \in BOOLEAN /\ napi \in BOOLEAN
    /\ irqs \subseteq {"vec", "link"}
    /\ lstat \in BOOLEAN /\ lmask \in BOOLEAN /\ lmsg \in BOOLEAN
    /\ mpi \in BOOLEAN /\ link \in Speeds \cup {0}
    /\ mbps \in Speeds \cup {0} /\ seen \in Speeds \cup {0}

(***************************************************************************)
(* The device writes to a ring only while the ring holds its buffers: it   *)
(* is told to leave the rings before aq_nic_deinit frees the pages they    *)
(* hold and before aq_nic_free_vectors frees the rings themselves.         *)
(***************************************************************************)
DeviceQuiet == dma => rings = "filled"

(***************************************************************************)
(* Nothing that aq_nic_start set going outlives aq_nic_stop: when the      *)
(* interface is down, asleep or removed there is no service timer, no      *)
(* service work queued or running, no interrupt requested and no NAPI to   *)
(* enable a second time.                                                   *)
(***************************************************************************)
NothingLeft ==
    life \in {"down", "asleep", "free", "gone", "realloc", "halted", "reset"} =>
        /\ ~timer /\ ~napi /\ irqs = {}
        /\ ~pending["service_task"] /\ at["service_task"] = "idle"

(***************************************************************************)
(* A link that stays as it is is known to the stack, however the two works *)
(* that look at it interleave (aq_nic_update_link_status).                 *)
(***************************************************************************)
CarrierFollows ==
    \A s \in Speeds \cup {0} :
        <>[](life = "up" /\ link = s) => <>[](carrier = (s # 0))

(***************************************************************************)
(* While the link stays up the Tx queues do not stay stopped, where one    *)
(* work at a time looks at it: without the link interrupt.                 *)
(***************************************************************************)
QueuesAwake == ~LinkIrq /\ <>[](life = "up" /\ link # 0) => <>[]~stopped

(***************************************************************************)
(* NAPI is disabled only when it is enabled, and enabled only when it is   *)
(* disabled, whatever was asked for before: the first would wait for ever  *)
(* in aq_vec_stop, the second is a bug to the kernel (aq_vec_start).       *)
(***************************************************************************)
NapiPaired ==
    /\ life = "stop_vecs" => napi
    /\ life = "vecs" => ~napi

=============================================================================

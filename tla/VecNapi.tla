------------------------------ MODULE VecNapi ------------------------------
(***************************************************************************)
(* One interrupt vector: the device that completes descriptors and raises  *)
(* the vector's interrupt, the handler that schedules NAPI, the poll that  *)
(* serves the rings and enables the interrupt again, and aq_nic_stop and   *)
(* aq_nic_start, which run beside them under the rtnl lock.                *)
(*                                                                         *)
(* With MSI and MSI-X the device masks the vector when it sends a message  *)
(* (auto-mask); a legacy line is masked by the handler.  What the poll     *)
(* does to the rings is in TxRing and RxRing; here a ring is a number of   *)
(* completed descriptors.                                                  *)
(***************************************************************************)
EXTENDS Integers

CONSTANTS
    Kinds,       \* what irq_type the probe may end with: a legacy line (TRUE,
                 \* aq_vec_isr_legacy), or messages (FALSE, aq_vec_isr)
    Shared,      \* whether another device raises the legacy line, too
    Missed,      \* whether the kernel has NAPI_STATE_MISSED
    Repolls,     \* whether the kernel polls again after a poll that returned
                 \* less than its budget without napi_complete (before 3.19)
    PollFails,   \* whether the hardware or memory calls of a poll may fail
    TxBudget,    \* AQ_CFG_TX_CLEAN_BUDGET
    RxBudget,    \* AQ_CFG_NAPI_WEIGHT
    MaxWork      \* bound: completed descriptors waiting in a ring

ASSUME VecAssumption ==
    /\ Kinds \subseteq BOOLEAN
    /\ {Shared, Missed, Repolls, PollFails} \subseteq BOOLEAN
    /\ TxBudget \in Nat \ {0} /\ RxBudget \in Nat \ {0} /\ MaxWork \in Nat \ {0}

VARIABLES
    legacy,            \* the kind of interrupt the probe got
    tx, rx,            \* completed descriptors the poll has to serve
    vec_status, mask,  \* the vector's bits in the device's status and mask
    msg,               \* a message under way to the CPU
    isr,               \* the legacy handler: idle, or the status it read
    vec_napi,          \* NAPI's state of the vector
    disabling, missed, \* NAPI_STATE_DISABLE, NAPI_STATE_MISSED
    pc, full,          \* the poll, and whether it uses its budget up
    vec_life           \* aq_nic_stop and aq_nic_start, step by step

irq     == <<vec_status, mask, msg>>
sched   == <<vec_napi, disabling, missed>>
poll    == <<pc, full>>
vecVars == <<legacy, tx, rx, irq, isr, sched, poll, vec_life>>

VecInit ==
    /\ legacy \in Kinds
    /\ tx = 0 /\ rx = 0
    /\ vec_status = FALSE /\ mask = FALSE /\ msg = FALSE
    /\ isr = "idle"
    /\ vec_napi = "off" /\ disabling = FALSE /\ missed = FALSE
    /\ pc = "idle" /\ full = FALSE
    /\ vec_life = "down"

-----------------------------------------------------------------------------
(* The device and the kernel (external). *)

RingsOn == vec_life \in {"up", "masked", "napi_on", "irqs_on"}

\* A descriptor of either ring is completed.
Complete ==
    /\ RingsOn
    /\ \/ tx < MaxWork /\ tx' = tx + 1 /\ rx' = rx
       \/ rx < MaxWork /\ rx' = rx + 1 /\ tx' = tx
    /\ vec_status' = TRUE
    /\ UNCHANGED <<mask, msg, isr, sched, poll, vec_life, legacy>>

\* The device sends the vector's message and masks the vector.
SendMsg ==
    /\ ~legacy /\ vec_status /\ mask
    /\ msg' = TRUE /\ vec_status' = FALSE /\ mask' = FALSE
    /\ UNCHANGED <<tx, rx, isr, sched, poll, vec_life, legacy>>

napi_schedule ==
    IF vec_napi = "idle" /\ ~disabling
    THEN vec_napi' = "sched" /\ UNCHANGED <<disabling, missed>>
    ELSE /\ missed' = (missed \/ (Missed /\ ~disabling /\ vec_napi # "off"))
         /\ UNCHANGED <<vec_napi, disabling>>

napi_complete ==
    /\ vec_napi' = IF missed THEN "sched" ELSE "idle"
    /\ missed' = FALSE /\ UNCHANGED disabling

-----------------------------------------------------------------------------
(* The interrupt handlers. *)

Requested == vec_life \in {"up", "masked", "disabling", "napi_off", "irqs_on"}

aq_vec_isr ==
    /\ ~legacy /\ msg /\ Requested
    /\ msg' = FALSE
    /\ napi_schedule
    /\ UNCHANGED <<tx, rx, vec_status, mask, isr, poll, vec_life, legacy>>

\* hw_irq_read: on a shared line the status may well be 0.
IsrRead ==
    /\ legacy /\ Requested /\ isr = "idle"
    /\ Shared \/ (vec_status /\ mask)
    /\ isr' = IF vec_status THEN "ours" ELSE "spurious"
    /\ UNCHANGED <<tx, rx, irq, sched, poll, vec_life, legacy>>

aq_vec_isr_legacy ==
    /\ isr # "idle"
    /\ isr' = "idle"
    /\ IF isr = "ours"
         THEN mask' = FALSE /\ vec_status' = FALSE /\ napi_schedule
         ELSE mask' = TRUE /\ UNCHANGED <<vec_status, sched>>
    /\ UNCHANGED <<tx, rx, msg, poll, vec_life, legacy>>

-----------------------------------------------------------------------------
(* aq_vec_poll. *)

PollStart ==
    /\ vec_napi = "sched" /\ pc = "idle"
    /\ vec_napi' = "polling" /\ pc' = "tx" /\ full' = FALSE
    /\ UNCHANGED <<tx, rx, irq, isr, disabling, missed, vec_life, legacy>>

\* What a loop with a budget takes.
Served(n, b) == IF n < b THEN n ELSE b

\* A slip: a Tx budget that ran out is not remembered.
PollTxForgets ==
    /\ pc = "tx"
    /\ tx' = tx - Served(tx, TxBudget)
    /\ full' = FALSE
    /\ pc' = "rx"
    /\ UNCHANGED <<rx, irq, isr, sched, vec_life, legacy>>

\* Reclaim Tx descriptors; was_tx_cleaned is false if the budget ran out.
PollTx ==
    /\ pc = "tx"
    /\ tx' = tx - Served(tx, TxBudget)
    /\ full' = (tx >= TxBudget)
    /\ pc' = "rx"
    /\ UNCHANGED <<rx, irq, isr, sched, vec_life, legacy>>

\* Receive, clean and refill.
PollRx ==
    /\ pc = "rx"
    /\ rx' = rx - Served(rx, RxBudget)
    /\ full' = (full \/ rx >= RxBudget)
    /\ pc' = "end"
    /\ UNCHANGED <<tx, irq, isr, sched, vec_life, legacy>>

\* goto err_exit: neither napi_complete nor hw_irq_enable.
PollError ==
    /\ PollFails /\ pc \in {"tx", "rx"}
    /\ pc' = "idle"
    /\ vec_napi' = IF Repolls THEN "sched" ELSE "stuck"
    /\ UNCHANGED <<tx, rx, irq, isr, disabling, missed, full, vec_life, legacy>>

\* The budget is used up: NAPI polls again, unless it is being disabled.
PollAgain ==
    /\ pc = "end" /\ full
    /\ pc' = "idle"
    /\ IF disabling THEN napi_complete
                    ELSE vec_napi' = "sched" /\ UNCHANGED <<disabling, missed>>
    /\ UNCHANGED <<tx, rx, irq, isr, full, vec_life, legacy>>

\* A slip: the interrupt is enabled and NAPI is not told.
PollDoneEarly ==
    /\ pc = "end" /\ ~full
    /\ mask' = TRUE
    /\ pc' = "enable"
    /\ UNCHANGED <<tx, rx, vec_status, msg, isr, sched, full, vec_life, legacy>>

\* A slip: napi_complete is forgotten, as on the error path.
PollDoneForgets ==
    /\ pc = "end" /\ ~full
    /\ pc' = "idle"
    /\ vec_napi' = IF Repolls THEN "sched" ELSE "stuck"
    /\ UNCHANGED <<tx, rx, irq, isr, disabling, missed, full, vec_life, legacy>>

PollDone ==
    /\ pc = "end" /\ ~full
    /\ napi_complete
    /\ pc' = "enable"
    /\ UNCHANGED <<tx, rx, irq, isr, full, vec_life, legacy>>

hw_irq_enable ==
    /\ pc = "enable"
    /\ mask' = TRUE
    /\ pc' = "idle"
    /\ UNCHANGED <<tx, rx, vec_status, msg, isr, sched, full, vec_life, legacy>>

-----------------------------------------------------------------------------
(* aq_nic_stop: mask, stop the rings and NAPI, free the irqs, hw_stop. *)

StopMask ==
    /\ vec_life = "up"
    /\ mask' = FALSE /\ vec_status' = FALSE
    /\ vec_life' = "masked"
    /\ UNCHANGED <<tx, rx, msg, isr, sched, poll, legacy>>

\* aq_vec_stop: the rings are off, then napi_disable asks ...
StopNapi ==
    /\ vec_life = "masked"
    /\ disabling' = TRUE
    /\ vec_life' = "disabling"
    /\ UNCHANGED <<tx, rx, irq, isr, vec_napi, missed, poll, legacy>>

\* A slip: without waiting for NAPI.
StopNapiNow ==
    /\ vec_life = "disabling"
    /\ vec_napi' = "off" /\ disabling' = FALSE /\ missed' = FALSE
    /\ vec_life' = "napi_off"
    /\ UNCHANGED <<tx, rx, irq, isr, poll, legacy>>

\* ... and waits until NAPI is idle.
StopNapiDone ==
    /\ vec_life = "disabling" /\ vec_napi = "idle"
    /\ vec_napi' = "off" /\ disabling' = FALSE /\ missed' = FALSE
    /\ vec_life' = "napi_off"
    /\ UNCHANGED <<tx, rx, irq, isr, poll, legacy>>

\* free_irq waits for a handler that is running.
StopIrqs ==
    /\ vec_life = "napi_off" /\ isr = "idle"
    /\ msg' = FALSE
    /\ vec_life' = "irqs_off"
    /\ UNCHANGED <<tx, rx, vec_status, mask, isr, sched, poll, legacy>>

\* hw_stop
StopHw ==
    /\ vec_life = "irqs_off"
    /\ mask' = FALSE /\ vec_status' = FALSE
    /\ vec_life' = "down"
    /\ UNCHANGED <<tx, rx, msg, isr, sched, poll, legacy>>

(***************************************************************************)
(* aq_nic_init and aq_vec_start: the device and the rings are reset and    *)
(* started, napi_enable.  The reset outlasts the last instruction of a     *)
(* poll that was at hw_irq_enable when NAPI was disabled.                  *)
(***************************************************************************)
StartNapi ==
    /\ vec_life = "down" /\ pc = "idle"
    /\ tx' = 0 /\ rx' = 0
    /\ vec_status' = FALSE /\ mask' = FALSE /\ msg' = FALSE
    /\ vec_napi' = "idle"
    /\ vec_life' = "napi_on"
    /\ UNCHANGED <<isr, disabling, missed, poll, legacy>>

\* aq_pci_func_alloc_irq
AllocIrqs ==
    /\ vec_life = "napi_on"
    /\ vec_life' = "irqs_on"
    /\ UNCHANGED <<tx, rx, irq, isr, sched, poll, legacy>>

Unmask ==
    /\ vec_life = "irqs_on"
    /\ mask' = TRUE
    /\ vec_life' = "up"
    /\ UNCHANGED <<tx, rx, vec_status, msg, isr, sched, poll, legacy>>

-----------------------------------------------------------------------------
Handler == aq_vec_isr \/ IsrRead \/ aq_vec_isr_legacy

aq_vec_poll ==
    \/ PollStart
    \/ PollTx
    \/ PollRx
    \/ PollError
    \/ PollAgain
    \/ PollDone
    \/ hw_irq_enable

\* aq_nic_stop
VecStop == StopMask \/ StopNapi \/ StopNapiDone \/ StopIrqs \/ StopHw

\* aq_nic_start
VecStart == StartNapi \/ AllocIrqs \/ Unmask

VecNext == Complete \/ SendMsg \/ Handler \/ aq_vec_poll \/ VecStop \/ VecStart

VecSpec == VecInit /\ [][VecNext]_vecVars

(***************************************************************************)
(* Handlers and polls do not stop half-way, the device sends its messages, *)
(* a line that is raised is served, and what makes a poll fail does not do *)
(* so for ever.  A stop and a start that were begun go on.                 *)
(***************************************************************************)
VecFairness ==
    /\ WF_vecVars(SendMsg) /\ WF_vecVars(aq_vec_isr)
    /\ WF_vecVars(vec_status /\ mask /\ IsrRead) /\ WF_vecVars(aq_vec_isr_legacy)
    /\ WF_vecVars(PollStart) /\ SF_vecVars(PollTx) /\ SF_vecVars(PollRx)
    /\ WF_vecVars(PollAgain \/ PollDone \/ hw_irq_enable)
    /\ WF_vecVars(StopNapi) /\ SF_vecVars(StopNapiDone)
    /\ SF_vecVars(StopIrqs) /\ WF_vecVars(StopHw)
    /\ WF_vecVars(AllocIrqs) /\ WF_vecVars(Unmask)

VecFairSpec == VecSpec /\ VecFairness

-----------------------------------------------------------------------------
Lives == {"down", "napi_on", "irqs_on", "up", "masked", "disabling",
          "napi_off", "irqs_off"}

\* The values the vector, NAPI and the threads range over.
VecTypeOK ==
    /\ legacy \in BOOLEAN
    /\ tx \in 0 .. MaxWork /\ rx \in 0 .. MaxWork
    /\ vec_status \in BOOLEAN /\ mask \in BOOLEAN /\ msg \in BOOLEAN
    /\ isr \in {"idle", "ours", "spurious"}
    /\ vec_napi \in {"off", "idle", "sched", "polling", "stuck"}
    /\ disabling \in BOOLEAN /\ missed \in BOOLEAN
    /\ pc \in {"idle", "tx", "rx", "end", "enable"}
    /\ full \in BOOLEAN
    /\ vec_life \in Lives

(***************************************************************************)
(* With messages, no interrupt arrives while NAPI is busy: the vector is   *)
(* masked from the message on until the poll called napi_complete.  A      *)
(* napi_schedule in between would be lost on a kernel without              *)
(* NAPI_STATE_MISSED (aq_vec_isr, the end of aq_vec_poll).                 *)
(***************************************************************************)
IrqOnlyWhenIdle ==
    ~legacy /\ (mask \/ msg) => vec_napi \in {"idle", "off"}

(***************************************************************************)
(* Once aq_vec_stop has returned nothing touches the rings, which are then *)
(* cleaned and freed: no poll is at work on them, and none starts, although *)
(* a poll may enable the interrupt after aq_nic_stop disabled it and a     *)
(* handler may run until free_irq.                                         *)
(***************************************************************************)
RingsLeftAlone ==
    vec_life \in {"napi_off", "irqs_off", "down"} =>
        vec_napi = "off" /\ pc \in {"idle", "enable"}

(***************************************************************************)
(* Completed descriptors are served, unless the interface is stopped: no   *)
(* interrupt is lost between the poll's last look and hw_irq_enable.       *)
(***************************************************************************)
WorkServed ==
    \A n \in 1 .. MaxWork :
        /\ vec_life = "up" /\ rx = n ~> rx # n \/ vec_life # "up"
        /\ vec_life = "up" /\ tx = n ~> tx # n \/ vec_life # "up"

(***************************************************************************)
(* aq_nic_stop returns: napi_disable does not wait for a poll for ever.    *)
(***************************************************************************)
StopReturns == vec_life = "masked" ~> vec_life = "down"

=============================================================================

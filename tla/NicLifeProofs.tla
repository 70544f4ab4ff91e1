--------------------------- MODULE NicLifeProofs ---------------------------
(***************************************************************************)
(* Proofs about NicLife for every set of operations and of speeds, with    *)
(* and without the link interrupt, as long as no step of init and stop     *)
(* fails; and, in the second half, about VecNapi, one of the vectors that  *)
(* the life cycle starts and stops.                                        *)
(***************************************************************************)
EXTENDS NicLife, VecNapi, TLAPS

Service == "service_task"

\* The steps between aq_vec_start and aq_vec_stop.
On == {"timer", "irqs", "link_irq", "unmask", "queues", "up", "stop", "del_timer",
       "cancel", "cancel_link", "mask", "stop_vecs"}
\* The steps between the start of the timer and del_timer_sync.
Ticking == {"irqs", "link_irq", "unmask", "queues", "up", "stop", "del_timer"}
\* The steps between the first request_irq and free_irqs.
IrqsRequested ==
    {"link_irq", "unmask", "queues", "up", "stop", "del_timer", "cancel",
     "cancel_link", "mask", "stop_vecs", "free_irqs"}

\* The rings, NAPI and the device: what each step of start and stop settled.
RingInv ==
    /\ napi \in BOOLEAN
    /\ life \in On => napi
    /\ napi => life \in On
    /\ dma => life \in On
    /\ life \in On \cup {"vecs"} => rings = "filled"

\* The timer, the service work and the interrupts.
WorkInv ==
    /\ pending \in [Works -> BOOLEAN] /\ DOMAIN at = Works
    /\ timer => life \in Ticking
    /\ pending[Service] => life \in Ticking \cup {"cancel"}
    /\ at[Service] # "idle" => life \in Ticking \cup {"cancel"}
    /\ irqs # {} => life \in IrqsRequested

\* What the stack believes: an interface that is down is not running, so that
\* nothing stops it a second time.
RunInv ==
    /\ life = "down" => ~running
    /\ life \in StartSteps \cup {"up", "asleep"} => running
    /\ life \in StopSteps \cup {"deinit"} =>
          /\ op \in {"restart", "suspend"} => running
          /\ ~running \/ op \in {"restart", "suspend", "shutdown"}

Inv == setup \in Setups /\ RingInv /\ WorkInv /\ RunInv

\* No step of init, start and stop fails.
NoFails == \A s \in Setups : s.fails = {}

LEMMA InitInv == Init => Inv
  BY DEF Init, Inv, RingInv, WorkInv, RunInv, On, Ticking, IrqsRequested, StartSteps,
     StopSteps, Works, Service

\* Link events, handlers and timer callbacks leave the life cycle alone.
LEMMA EventStep ==
    ASSUME Inv, Link \/ aq_linkstate_isr \/ aq_nic_service_timer_cb
    PROVE  Inv'
<1>1. CASE Link
  BY <1>1 DEF Link, LinkUp, LinkDown, SendLinkMsg, Inv, RingInv, WorkInv, RunInv,
     stack, works, device
<1>2. CASE aq_linkstate_isr
  BY <1>2 DEF aq_linkstate_isr, Inv, RingInv, WorkInv, RunInv, stack, device,
     Works, Service
<1>3. CASE aq_nic_service_timer_cb
  BY <1>3 DEF aq_nic_service_timer_cb, Inv, RingInv, WorkInv, RunInv, stack, device,
     Works, Service, Ticking
<1>4. QED
  BY <1>1, <1>2, <1>3

\* A work runs only when it was queued, and keeps to its own state.
LEMMA WorkStep ==
    ASSUME Inv, NEW w \in Works, Work(w)
    PROVE  Inv'
<1>1. /\ UNCHANGED <<setup, life, op, running, timer, device>>
      /\ pending' \in [Works -> BOOLEAN] /\ DOMAIN at' = Works
      /\ pending'[Service] => pending[Service]
      /\ at'[Service] # "idle" => at[Service] # "idle" \/ pending[Service]
  <2>1. CASE WorkStart(w)
    BY <2>1 DEF WorkStart, Goto, Inv, WorkInv, stack, Works, Service
  <2>2. CASE Work(w) /\ ~WorkStart(w)
    <3>1. UNCHANGED <<setup, life, op, running, timer, pending, device>> /\ at[w] # "idle"
      BY <2>2 DEF Work, ReadSpeed, StoreSpeed, SaveStatus, CarrierOn, WakeQueues,
         CarrierOff, DisableQueues, WorkEnd, stack
    <3>2. \E l : Goto(w, l)
      BY <2>2 DEF Work, ReadSpeed, StoreSpeed, SaveStatus, CarrierOn, WakeQueues,
         CarrierOff, DisableQueues, WorkEnd
    <3> QED BY <3>1, <3>2 DEF Goto, Inv, WorkInv, Works, Service
  <2> QED BY <2>1, <2>2
<1>2. QED
  BY <1>1 DEF Inv, RingInv, WorkInv, RunInv, device

LEMMA OperationStep ==
    ASSUME Inv, Operation
    PROVE  Inv'
<1>1. /\ UNCHANGED <<setup, works, device>>
      /\ life \in {"up", "down", "asleep"}
      /\ life = "down" \/ life = "up" \/ life' = "reset"
      /\ life' \in {"stop", "reset", "realloc", "deinit", "free"}
      /\ life' \in {"stop", "deinit"} =>
            /\ op' \in {"restart", "suspend"} => running'
            /\ ~running' \/ op' \in {"restart", "suspend", "shutdown"}
      /\ life' = "reset" => running'
      /\ life' = "stop" <=> running /\ life # "asleep"
  BY DEF Operation, aq_ndev_open, aq_ndev_close, aq_ndev_set_features,
     aq_set_ringparam, aq_pci_suspend, aq_pci_resume, aq_nic_shutdown,
     aq_pci_remove, Asked, stack, Inv, RunInv, StartSteps
<1>2. life' = "stop" <=> life = "up"
  BY <1>1 DEF Inv, RunInv, StartSteps
<1>3. QED
  BY <1>1, <1>2 DEF Inv, RingInv, WorkInv, RunInv, works, device, On, Ticking,
     IrqsRequested, StartSteps, StopSteps

LEMMA InitStep ==
    ASSUME Inv, aq_nic_init
    PROVE  Inv'
<1>1. CASE InitHw
  BY <1>1 DEF InitHw, Inv, RingInv, WorkInv, RunInv, stack, works, On, Ticking,
     IrqsRequested, StartSteps, StopSteps
<1>2. CASE InitRings
  BY <1>2 DEF InitRings, Inv, RingInv, WorkInv, RunInv, On, Ticking, IrqsRequested,
     StartSteps, StopSteps, Works, Service
<1>3. QED
  BY <1>1, <1>2 DEF aq_nic_init

LEMMA StartStep ==
    ASSUME Inv, aq_nic_start
    PROVE  Inv'
<1>1. CASE StartVecs
  BY <1>1 DEF StartVecs, Inv, RingInv, WorkInv, RunInv, stack, works, On, Ticking,
     IrqsRequested, StartSteps, StopSteps
<1>2. CASE StartTimer
  BY <1>2 DEF StartTimer, Inv, RingInv, WorkInv, RunInv, stack, device, On, Ticking,
     IrqsRequested, StartSteps, StopSteps, Works, Service
<1>3. CASE StartIrqs \/ StartLinkIrq
  BY <1>3 DEF StartIrqs, StartLinkIrq, Inv, RingInv, WorkInv, RunInv, stack, works, On,
     Ticking, IrqsRequested, StartSteps, StopSteps
<1>4. CASE StartUnmask \/ StartQueues
  BY <1>4 DEF StartUnmask, StartQueues, Inv, RingInv, WorkInv, RunInv, stack, works,
     device, On, Ticking, IrqsRequested, StartSteps, StopSteps
<1>5. QED
  BY <1>1, <1>2, <1>3, <1>4 DEF aq_nic_start

LEMMA StopStep ==
    ASSUME Inv, aq_nic_stop
    PROVE  Inv'
<1>1. CASE StopQueues \/ hw_irq_disable \/ hw_stop
  BY <1>1 DEF StopQueues, hw_irq_disable, hw_stop, Inv, RingInv, WorkInv, RunInv, stack,
     works, device, On, Ticking, IrqsRequested, StartSteps, StopSteps
<1>2. CASE StopTimer
  BY <1>2 DEF StopTimer, Inv, RingInv, WorkInv, RunInv, stack, device, On, Ticking,
     IrqsRequested, StartSteps, StopSteps
<1>3. CASE StopService
  <2>1. /\ life = "cancel" /\ life' = "cancel_link" /\ at[Service] = "idle"
        /\ UNCHANGED <<setup, op, running, timer, at, rings, dma, napi, irqs>>
        /\ pending' \in [Works -> BOOLEAN] /\ ~pending'[Service]
    BY <1>3 DEF StopService, Inv, WorkInv, stack, device, Works, Service
  <2>2. QED
    BY <2>1 DEF Inv, RingInv, WorkInv, RunInv, On, Ticking, IrqsRequested, StartSteps,
       StopSteps
<1>4. CASE StopLink
  <2>1. /\ life = "cancel_link" /\ life' = "mask"
        /\ UNCHANGED <<setup, op, running, timer, at, rings, dma, napi, irqs>>
        /\ pending' \in [Works -> BOOLEAN] /\ pending'[Service] = pending[Service]
    BY <1>4 DEF StopLink, Inv, WorkInv, stack, device, Works, Service
  <2>2. QED
    BY <2>1 DEF Inv, RingInv, WorkInv, RunInv, On, Ticking, IrqsRequested, StartSteps,
       StopSteps
<1>5. CASE StopVecs
  BY <1>5 DEF StopVecs, Inv, RingInv, WorkInv, RunInv, stack, works, On, Ticking,
     IrqsRequested, StartSteps, StopSteps
<1>6. CASE aq_pci_func_free_irqs
  BY <1>6 DEF aq_pci_func_free_irqs, Inv, RingInv, WorkInv, RunInv, stack, works, On,
     Ticking, IrqsRequested, StartSteps, StopSteps
<1>7. QED
  BY <1>1, <1>2, <1>3, <1>4, <1>5, <1>6 DEF aq_nic_stop

\* The end of an operation.
LEMMA EndStep ==
    ASSUME Inv, aq_nic_deinit \/ Realloc \/ aq_nic_free_vectors
    PROVE  Inv'
<1>1. CASE aq_nic_deinit
  <2>1. /\ life = "deinit" /\ life' = AfterDeinit
        /\ UNCHANGED <<setup, running, timer, pending, at, dma, napi, irqs>>
    BY <1>1 DEF aq_nic_deinit, stack, works
  <2>2. AfterDeinit \in {"reset", "realloc", "asleep", "halted", "free", "down"}
    BY DEF AfterDeinit
  <2>3. AfterDeinit \in {"reset", "asleep"} => op \in {"restart", "suspend"}
    BY DEF AfterDeinit
  <2>4. AfterDeinit = "down" => op \notin {"restart", "suspend", "shutdown"}
    BY DEF AfterDeinit
  <2>5. QED
    BY <2>1, <2>2, <2>3, <2>4 DEF Inv, RingInv, WorkInv, RunInv, On, Ticking, IrqsRequested,
       StartSteps, StopSteps
<1>2. CASE Realloc
  BY <1>2 DEF Realloc, Inv, RingInv, WorkInv, RunInv, works, device, On, Ticking,
     IrqsRequested, StartSteps, StopSteps
<1>3. CASE aq_nic_free_vectors
  BY <1>3 DEF aq_nic_free_vectors, Inv, RingInv, WorkInv, RunInv, stack, works, On, Ticking,
     IrqsRequested, StartSteps, StopSteps
<1>4. QED
  BY <1>1, <1>2, <1>3

LEMMA NextInv ==
    ASSUME NoFails, Inv, [Next]_vars
    PROVE  Inv'
<1>1. CASE UNCHANGED vars
  BY <1>1 DEF vars, stack, works, device, Inv, RingInv, WorkInv, RunInv
<1>2. CASE \E w \in Works : Work(w)
  BY <1>2, WorkStep
<1>3. CASE Step
  BY <1>3, InitStep, StartStep, StopStep, EndStep DEF Step
<1>4. CASE StartFails \/ StopFails
  BY <1>4 DEF StartFails, StopFails, NoFails, Inv
<1>5. QED
  BY <1>1, <1>2, <1>3, <1>4, EventStep, OperationStep DEF Next, Done

(***************************************************************************)
(* The inductive invariant holds in every reachable state.                 *)
(***************************************************************************)
THEOREM Invariance ==
    ASSUME NoFails
    PROVE  Spec => []Inv
<1>1. Inv /\ [Next]_vars => Inv'
  BY NextInv
<1>2. QED
  BY <1>1, InitInv, PTL DEF Spec

(***************************************************************************)
(* Whatever is asked for in whichever order, the device never writes to a  *)
(* ring that was cleaned or freed.                                         *)
(***************************************************************************)
THEOREM DeviceIsQuiet ==
    ASSUME NoFails
    PROVE  Spec => []DeviceQuiet
<1>1. Inv => DeviceQuiet
  BY DEF Inv, RingInv, DeviceQuiet
<1>2. QED
  BY <1>1, Invariance, PTL

(***************************************************************************)
(* Neither the service timer nor its work nor an interrupt outlives        *)
(* aq_nic_stop, wherever the timer and the work are when it is called.     *)
(***************************************************************************)
THEOREM NothingIsLeft ==
    ASSUME NoFails
    PROVE  Spec => []NothingLeft
<1>1. Inv => NothingLeft
  BY DEF Inv, RingInv, WorkInv, NothingLeft, On, Ticking, IrqsRequested, Service
<1>2. QED
  BY <1>1, Invariance, PTL

(***************************************************************************)
(* NAPI is enabled and disabled in turn.                                   *)
(***************************************************************************)
THEOREM NapiIsPaired ==
    ASSUME NoFails
    PROVE  Spec => []NapiPaired
<1>1. Inv => NapiPaired
  BY DEF Inv, RingInv, NapiPaired, On
<1>2. QED
  BY <1>1, Invariance, PTL

-----------------------------------------------------------------------------
\* The works keep the types of what they share.
LEMMA WorkTypes ==
    ASSUME TypeOK, NEW w \in Works, Work(w)
    PROVE  TypeOK'
<1> USE DEF TypeOK, stack, works, device, lirq, fw, status, Goto
<1>1. CASE WorkStart(w)
  BY <1>1 DEF WorkStart
<1>2. CASE ReadSpeed(w)
  BY <1>2 DEF ReadSpeed
<1>3. CASE StoreSpeed(w)
  BY <1>3 DEF StoreSpeed
<1>4. CASE SaveStatus(w)
  BY <1>4 DEF SaveStatus
<1>5. CASE CarrierOn(w)
  <2>1. carrier' \in BOOLEAN
    BY <1>5, Zenon DEF CarrierOn
  <2>2. QED
    BY <2>1, <1>5 DEF CarrierOn
<1>6. CASE WakeQueues(w)
  <2>1. stopped' \in BOOLEAN
    BY <1>6, Zenon DEF WakeQueues
  <2>2. QED
    BY <2>1, <1>6 DEF WakeQueues
<1>7. CASE CarrierOff(w)
  <2>1. carrier' \in BOOLEAN
    BY <1>7, Zenon DEF CarrierOff
  <2>2. QED
    BY <2>1, <1>7 DEF CarrierOff
<1>8. CASE DisableQueues(w)
  BY <1>8 DEF DisableQueues
<1>9. CASE WorkEnd(w)
  BY <1>9 DEF WorkEnd
<1>10. QED
  BY <1>1, <1>2, <1>3, <1>4, <1>5, <1>6, <1>7, <1>8, <1>9 DEF Work

LEMMA EventTypes ==
    ASSUME TypeOK, Link \/ aq_linkstate_isr \/ aq_nic_service_timer_cb
    PROVE  TypeOK'
<1> USE LifeAssumption DEF TypeOK, stack, works, device, lirq, fw, status
<1>1. CASE LinkUp
  BY <1>1 DEF LinkUp, LinkIrq
<1>2. CASE LinkDown
  BY <1>2 DEF LinkDown, LinkIrq
<1>3. CASE SendLinkMsg
  <2>1. lstat' \in BOOLEAN /\ lmask' \in BOOLEAN /\ lmsg' \in BOOLEAN
    BY <1>3, Zenon DEF SendLinkMsg
  <2>2. QED
    BY <2>1, <1>3 DEF SendLinkMsg
<1>4. CASE aq_linkstate_isr
  <2>1. lmsg' \in BOOLEAN
    BY <1>4, Zenon DEF aq_linkstate_isr
  <2>2. QED
    BY <2>1, <1>4 DEF aq_linkstate_isr, Works
<1>5. CASE aq_nic_service_timer_cb
  BY <1>5 DEF aq_nic_service_timer_cb, Works
<1>6. QED
  BY <1>1, <1>2, <1>3, <1>4, <1>5 DEF Link

LEMMA OperationTypes ==
    ASSUME TypeOK, Operation
    PROVE  TypeOK'
<1> USE DEF TypeOK, stack, works, device, lirq, fw, status,
       Asked, Operations, StartSteps, StopSteps
<1>1. CASE aq_ndev_open
  BY <1>1 DEF aq_ndev_open
<1>2. CASE aq_ndev_close
  <2>1. running' \in BOOLEAN
    BY <1>2, Zenon DEF aq_ndev_close
  <2>2. QED
    BY <2>1, <1>2 DEF aq_ndev_close
<1>3. CASE aq_ndev_set_features
  BY <1>3 DEF aq_ndev_set_features
<1>4. CASE aq_set_ringparam
  <2>1. running' \in BOOLEAN
    BY <1>4, Zenon DEF aq_set_ringparam
  <2>2. QED
    BY <2>1, <1>4 DEF aq_set_ringparam
<1>5. CASE aq_pci_suspend
  BY <1>5 DEF aq_pci_suspend
<1>6. CASE aq_pci_resume
  BY <1>6 DEF aq_pci_resume
<1>7. CASE aq_nic_shutdown
  BY <1>7 DEF aq_nic_shutdown
<1>8. CASE aq_pci_remove
  <2>1. running' \in BOOLEAN
    BY <1>8, Zenon DEF aq_pci_remove
  <2>2. QED
    BY <2>1, <1>8 DEF aq_pci_remove
<1>9. QED
  BY <1>1, <1>2, <1>3, <1>4, <1>5, <1>6, <1>7, <1>8 DEF Operation

LEMMA StartTypes ==
    ASSUME TypeOK, aq_nic_init \/ aq_nic_start
    PROVE  TypeOK'
<1> USE DEF TypeOK, stack, works, device, lirq, fw, status,
       StartSteps, StopSteps, Works
<1>1. CASE InitHw
  <2>1. dma' \in BOOLEAN /\ lstat' \in BOOLEAN /\ lmask' \in BOOLEAN /\ mpi' \in BOOLEAN
    BY <1>1, Zenon DEF InitHw
  <2>2. QED
    BY <2>1, <1>1 DEF InitHw
<1>2. CASE InitRings
  <2>1. carrier' \in BOOLEAN
    BY <1>2, Zenon DEF InitRings
  <2>2. QED
    BY <2>1, <1>2 DEF InitRings
<1>3. CASE StartVecs
  BY <1>3 DEF StartVecs
<1>4. CASE StartTimer
  BY <1>4 DEF StartTimer
<1>5. CASE StartIrqs
  BY <1>5 DEF StartIrqs
<1>6. CASE StartLinkIrq
  BY <1>6 DEF StartLinkIrq
<1>7. CASE StartUnmask
  BY <1>7 DEF StartUnmask
<1>8. CASE StartQueues
  <2>1. stopped' \in BOOLEAN
    BY <1>8, Zenon DEF StartQueues
  <2>2. QED
    BY <2>1, <1>8 DEF StartQueues
<1>9. QED
  BY <1>1, <1>2, <1>3, <1>4, <1>5, <1>6, <1>7, <1>8 DEF aq_nic_init, aq_nic_start

LEMMA StopTypes ==
    ASSUME TypeOK, aq_nic_stop
    PROVE  TypeOK'
<1> USE DEF TypeOK, stack, works, device, lirq, fw, status,
       StartSteps, StopSteps, Works
<1>1. CASE StopQueues
  <2>1. stopped' \in BOOLEAN /\ carrier' \in BOOLEAN
    BY <1>1, Zenon DEF StopQueues
  <2>2. QED
    BY <2>1, <1>1 DEF StopQueues
<1>2. CASE StopTimer
  <2>1. timer' \in BOOLEAN
    BY <1>2, Zenon DEF StopTimer
  <2>2. QED
    BY <2>1, <1>2 DEF StopTimer
<1>3. CASE StopService
  BY <1>3 DEF StopService
<1>4. CASE StopLink
  BY <1>4 DEF StopLink
<1>5. CASE hw_irq_disable
  <2>1. lmask' \in BOOLEAN /\ lstat' \in BOOLEAN
    BY <1>5, Zenon DEF hw_irq_disable
  <2>2. QED
    BY <2>1, <1>5 DEF hw_irq_disable
<1>6. CASE StopVecs
  <2>1. dma' \in BOOLEAN /\ napi' \in BOOLEAN
    BY <1>6, Zenon DEF StopVecs
  <2>2. QED
    BY <2>1, <1>6 DEF StopVecs
<1>7. CASE aq_pci_func_free_irqs
  <2>1. lmsg' \in BOOLEAN
    BY <1>7, Zenon DEF aq_pci_func_free_irqs
  <2>2. QED
    BY <2>1, <1>7 DEF aq_pci_func_free_irqs
<1>8. CASE hw_stop
  <2>1. lmask' \in BOOLEAN /\ lstat' \in BOOLEAN
    BY <1>8, Zenon DEF hw_stop
  <2>2. QED
    BY <2>1, <1>8 DEF hw_stop
<1>9. QED
  BY <1>1, <1>2, <1>3, <1>4, <1>5, <1>6, <1>7, <1>8 DEF aq_nic_stop

LEMMA EndTypes ==
    ASSUME TypeOK, aq_nic_deinit \/ Realloc \/ aq_nic_free_vectors \/ StartFails \/ StopFails
    PROVE  TypeOK'
<1> USE DEF TypeOK, stack, works, device, lirq, fw, status, StartSteps, StopSteps
<1>1. /\ AfterDeinit \in {"reset", "realloc", "asleep", "halted", "free", "down"}
      /\ OpAfter \in Operations \cup {"none", "reopen"}
  BY DEF AfterDeinit, OpAfter, Operations
<1>2. CASE aq_nic_deinit
  <2>1. mpi' \in BOOLEAN
    BY <1>2, Zenon DEF aq_nic_deinit
  <2>2. QED
    BY <2>1, <1>1, <1>2 DEF aq_nic_deinit
<1>3. CASE Realloc
  BY <1>3 DEF Realloc, Operations
<1>4. CASE aq_nic_free_vectors
  BY <1>4 DEF aq_nic_free_vectors
<1>5. CASE StartFails
  BY <1>5 DEF StartFails
<1>6. CASE StopFails
  BY <1>1, <1>6 DEF StopFails
<1>7. QED
  BY <1>2, <1>3, <1>4, <1>5, <1>6

(***************************************************************************)
(* The threads, the stack and the device keep to their values, whatever    *)
(* steps fail: no operation leaves the life cycle between two steps.       *)
(***************************************************************************)
THEOREM TypeCorrect == Spec => []TypeOK
<1>1. Init => TypeOK
  BY DEF Init, TypeOK, StartSteps, StopSteps, Operations, Works
<1>2. TypeOK /\ [Next]_vars => TypeOK'
  <2>1. ASSUME TypeOK, UNCHANGED vars PROVE TypeOK'
    BY <2>1 DEF vars, TypeOK, stack, works, device, lirq, fw, status
  <2>2. QED
    BY <2>1, WorkTypes, EventTypes, OperationTypes, StartTypes, StopTypes, EndTypes
       DEF Next, Step, Done
<1>3. QED
  BY <1>1, <1>2, PTL DEF Spec

-----------------------------------------------------------------------------
(***************************************************************************)
(* One of the vectors that start and stop switch on and off: VecNapi, for  *)
(* every budget and every kind of interrupt.                               *)
(***************************************************************************)
(***************************************************************************)
(* The part of the inductive invariant about the stop: who polls, and what *)
(* each step of aq_nic_stop and aq_nic_start has settled.                  *)
(***************************************************************************)
VecOff == {"napi_off", "irqs_off", "down"}
StopInv ==
    /\ VecTypeOK
    /\ vec_napi = "off" <=> vec_life \in VecOff
    /\ vec_napi = "polling" <=> pc \in {"tx", "rx", "end"}
    /\ disabling => vec_life = "disabling"

\* The token of a vector that sends messages: it is with the mask, with the
\* message, with NAPI or with the poll that is about to enable the
\* interrupt, and with at most one of them.
TokenInv ==
    ~legacy =>
        /\ isr = "idle" /\ ~missed
        /\ mask => ~msg
        /\ mask \/ msg => vec_napi \in {"idle", "off"}
        /\ pc = "enable" => ~mask /\ ~msg /\ vec_napi \in {"idle", "off"}
        /\ vec_life \in {"napi_on", "irqs_on"} =>
              ~mask /\ ~msg /\ vec_napi = "idle" /\ pc = "idle"

VecInv == StopInv /\ TokenInv

LEMMA VecInitInv == ASSUME VecInit PROVE VecInv
<1> USE VecAssumption
<1>0. 0 \in 0 .. MaxWork
  OBVIOUS
<1>1. VecTypeOK
  BY <1>0, Zenon DEF VecInit, VecTypeOK, Lives
<1>2. StopInv
  BY <1>1 DEF VecInit, StopInv, VecOff
<1>3. TokenInv
  BY DEF VecInit, TokenInv
<1>4. QED
  BY <1>2, <1>3 DEF VecInv

LEMMA ServedBound ==
    ASSUME NEW n \in 0 .. MaxWork, NEW b \in Nat \ {0}
    PROVE  n - Served(n, b) \in 0 .. MaxWork
  BY VecAssumption DEF Served

\* Steps of the device keep the invariant.
LEMMA VecDeviceStep == ASSUME VecInv, Complete \/ SendMsg PROVE VecInv'
<1> USE VecAssumption
<1>1. CASE Complete
  <2>1. tx' \in 0 .. MaxWork /\ rx' \in 0 .. MaxWork
    BY <1>1 DEF VecInv, StopInv, VecTypeOK, Complete
  <2>2. QED
    BY <1>1, <2>1 DEF Complete, VecInv, StopInv, TokenInv, VecTypeOK, sched, poll
<1>2. CASE SendMsg
  BY <1>2 DEF SendMsg, VecInv, StopInv, TokenInv, VecTypeOK, sched, poll
<1>3. QED
  BY <1>1, <1>2

\* Steps of the handlers keep the invariant.
LEMMA VecHandlerStep == ASSUME VecInv, Handler PROVE VecInv'
<1> USE VecAssumption
<1>1. CASE aq_vec_isr
  <2>1. CASE vec_napi = "idle" /\ ~disabling
    BY <1>1, <2>1 DEF aq_vec_isr, napi_schedule, Requested, VecInv, StopInv, TokenInv,
       VecTypeOK, Lives, VecOff, poll
  <2>2. CASE ~(vec_napi = "idle" /\ ~disabling)
    BY <1>1, <2>2 DEF aq_vec_isr, napi_schedule, Requested, VecInv, StopInv, TokenInv,
       VecTypeOK, Lives, VecOff, poll
  <2>3. QED
    BY <2>1, <2>2
<1>2. CASE IsrRead
  BY <1>2 DEF IsrRead, VecInv, StopInv, TokenInv, VecTypeOK, irq, sched, poll
<1>3. CASE aq_vec_isr_legacy
  <2>1. CASE isr = "ours" /\ vec_napi = "idle" /\ ~disabling
    BY <1>3, <2>1 DEF aq_vec_isr_legacy, napi_schedule, VecInv, StopInv,
       TokenInv, VecTypeOK, VecOff, poll
  <2>2. CASE isr = "ours" /\ ~(vec_napi = "idle" /\ ~disabling)
    BY <1>3, <2>2 DEF aq_vec_isr_legacy, napi_schedule, VecInv, StopInv,
       TokenInv, VecTypeOK, VecOff, poll
  <2>3. CASE isr # "ours"
    BY <1>3, <2>3 DEF aq_vec_isr_legacy, VecInv, StopInv, TokenInv,
       VecTypeOK, VecOff, sched, poll
  <2>4. QED
    BY <2>1, <2>2, <2>3
<1>4. QED
  BY <1>1, <1>2, <1>3 DEF Handler

\* Steps of the poll keep the invariant.
LEMMA VecPollStep == ASSUME VecInv, aq_vec_poll PROVE VecInv'
<1> USE VecAssumption
<1> USE DEF VecInv, StopInv, TokenInv, VecTypeOK, VecOff
<1>1. CASE PollStart
  BY <1>1 DEF PollStart, irq
<1>2. CASE PollTx
  <2>1. tx' \in 0 .. MaxWork /\ full' \in BOOLEAN
    BY <1>2, ServedBound DEF PollTx
  <2>2. QED
    BY <1>2, <2>1 DEF PollTx, irq, sched
<1>3. CASE PollRx
  <2>1. rx' \in 0 .. MaxWork /\ full' \in BOOLEAN
    BY <1>3, ServedBound DEF PollRx
  <2>2. QED
    BY <1>3, <2>1 DEF PollRx, irq, sched
<1>4. CASE PollError
  BY <1>4 DEF PollError, irq
<1>5. CASE PollAgain
  BY <1>5 DEF PollAgain, napi_complete, irq
<1>6. CASE PollDone
  BY <1>6 DEF PollDone, napi_complete, irq
<1>7. CASE hw_irq_enable
  BY <1>7 DEF hw_irq_enable, sched
<1>8. QED
  BY <1>1, <1>2, <1>3, <1>4, <1>5, <1>6, <1>7 DEF aq_vec_poll

\* Steps of aq_nic_stop and aq_nic_start keep the invariant.
LEMMA VecLifeStep == ASSUME VecInv, VecStop \/ VecStart PROVE VecInv'
<1> USE VecAssumption
<1> USE DEF VecInv, StopInv, TokenInv, VecTypeOK, Lives, VecOff
<1>1. CASE StopMask
  BY <1>1 DEF StopMask, sched, poll
<1>2. CASE StopNapi
  BY <1>2 DEF StopNapi, irq, poll
<1>3. CASE StopNapiDone
  BY <1>3 DEF StopNapiDone, irq, poll
<1>4. CASE StopIrqs
  BY <1>4 DEF StopIrqs, sched, poll
<1>5. CASE StopHw
  BY <1>5 DEF StopHw, sched, poll
<1>6. CASE StartNapi
  <2>1. 0 \in 0 .. MaxWork
    OBVIOUS
  <2>2. VecTypeOK'
    BY <1>6, <2>1, Zenon DEF StartNapi, poll
  <2>3. QED
    BY <1>6, <2>2 DEF StartNapi, poll
<1>7. CASE AllocIrqs
  BY <1>7 DEF AllocIrqs, irq, sched, poll
<1>8. CASE Unmask
  BY <1>8 DEF Unmask, sched, poll
<1>9. QED
  BY <1>1, <1>2, <1>3, <1>4, <1>5, <1>6, <1>7, <1>8 DEF VecStop, VecStart

\* The invariant holds in every reachable state of the vector.
THEOREM VecInvariance == VecSpec => []VecInv
<1>1. VecInv /\ [VecNext]_vecVars => VecInv'
  <2> SUFFICES ASSUME VecInv, [VecNext]_vecVars PROVE VecInv'
      OBVIOUS
  <2>1. CASE UNCHANGED vecVars
    BY <2>1 DEF vecVars, irq, sched, poll, VecInv, StopInv, TokenInv, VecTypeOK
  <2>2. QED
    BY <2>1, VecDeviceStep, VecHandlerStep, VecPollStep, VecLifeStep DEF VecNext
<1>2. QED
  BY <1>1, VecInitInv, PTL DEF VecSpec

(***************************************************************************)
(* On a vector with messages no interrupt meets a busy NAPI, whatever the  *)
(* budgets, on every kernel, also when polls fail.                         *)
(***************************************************************************)
THEOREM NoInterruptIsWasted == VecSpec => []IrqOnlyWhenIdle
<1>1. VecInv => IrqOnlyWhenIdle
  BY DEF VecInv, TokenInv, IrqOnlyWhenIdle
<1>2. QED
  BY <1>1, VecInvariance, PTL

(***************************************************************************)
(* After aq_vec_stop no poll touches the rings, with messages and with a   *)
(* legacy line, shared or not.                                             *)
(***************************************************************************)
THEOREM StoppedRingsAreLeftAlone == VecSpec => []RingsLeftAlone
<1>1. VecInv => RingsLeftAlone
  BY DEF VecInv, StopInv, VecTypeOK, VecOff, RingsLeftAlone
<1>2. QED
  BY <1>1, VecInvariance, PTL

(***************************************************************************)
(* The vector, NAPI and the poll keep to their values, for every budget.   *)
(***************************************************************************)
THEOREM VecTypeCorrect == VecSpec => []VecTypeOK
<1>1. VecInv => VecTypeOK
  BY DEF VecInv, StopInv
<1>2. QED
  BY <1>1, VecInvariance, PTL

=============================================================================

# A TLA+ model of the AQtion driver

This directory models the AQtion (atlantic) network driver for Linux and ESXi: the
data path, the interrupt handling, the life cycle, the settings and filters, the
firmware interface and the time stamps.  The models are checked with TLC on small
instances, and some of their properties are proved with TLAPS for every instance.
`PROJECT.json` lists the components, the runs, the source lines behind each
definition, the hazards and the theorems.

Contents: [The system](#the-system) · [The modules](#the-modules) ·
[The runs](#the-runs) · [Known behaviours](#known-behaviours) ·
[Proofs](#proofs) · [Not modelled](#not-modelled) · [Plan](#plan)

## The system

| Component | Source | State | Operations | Hard |
|---|---|---|---|---|
| Tx ring, transmit path | `aq_nic.c`, `aq_ring.c`, `hw_atl_b0.c` | `sw_head`, `sw_tail`, `hw_head`, buffers, descriptors, the stack's queue | `aq_nic_xmit`, `aq_nic_map_skb`, `hw_ring_tx_xmit`, `aq_ring_tx_clean`, `aq_ring_update_queue_state` | xmit and poll share the ring without a lock; stale decisions to stop or wake the queue; mapping failures |
| Rx ring, receive path | `aq_ring.c`, `aq_vec.c`, `hw_atl_b0.c` | indices, buffers with a page and an offset, page reference counts, LRO chains | `hw_ring_rx_receive`, `aq_ring_rx_clean`, `aq_ring_rx_fill`, `hw_ring_rx_fill`, deinit, free | pages shared with the stack; interleaved chains; allocation failures half-way; reopening with old descriptors |
| Interrupt vectors, NAPI | `aq_vec.c`, `aq_pci_func.c` | interrupt mask and status, NAPI state | `aq_vec_isr`, `aq_vec_isr_legacy`, `aq_vec_poll`, `aq_vec_start`, `aq_vec_stop` | lost interrupts; a poll that races with the stop; the poll's error exit |
| Life cycle, link | `aq_nic.c`, `aq_main.c`, `aq_pci_func.c`, `aq_ethtool.c` | `netif_running`, carrier, queues, timer, two works, link status | open, close, restarts, suspend, resume, shutdown, remove, link updates | works and timers against stop; a step of open that fails; two works on one status |
| Receive filters | `aq_filters.c`, `aq_main.c`, `hw_atl_b0.c` | rule list, VLAN table, IP family flags, filter registers | add, replace, delete, flush rules; VLANs added and killed; features on and off | list and registers out of step; a rule refused half-way; more VLANs than rows; resets |
| Settings, packet filter | `aq_nic.c`, `aq_main.c`, `aq_ethtool.c`, `hw_atl_b0.c` | `aq_nic_cfg`, `packet_filter`, `mc_list`, the registers | `set_rx_mode`, RSS, coalescing, pause, features, address; init and start write all of it again | `set_rx_mode` and the link work run beside the restart; more addresses than filters; a link that comes back unnoticed |
| Firmware interface | `hw_atl_utils*.c`, `aq_hw_utils.c` | control and state registers, RPC area and transaction ids, mailbox, counters, semaphores, reset state | reset, settings, requests, remote calls, statistics, word-by-word transfers | two threads without the mutex; timeouts and late answers; rejected calls; a semaphore taken away; a firmware that dies |
| PHY over MDIO | `aq_phy.c` | PHY registers, `phy_id` | scan, identify, read, write, the PTP workaround | busy waits that run out; reads that fail |
| PTP | `aq_ptp.c` | `skb_ring`, `ptp_tx`, `hwts_rx`, the timeout | xmit, poll, time stamp, service, life cycle | stamps without a name; references of three owners; the timeout against the poll |
| A0, registers, tracing, compatibility | the rest | | | mostly straight-line code |

How they interact.  The stack calls `aq_nic_xmit` on any CPU, under the lock of
one queue.  The device completes descriptors and raises the vector's interrupt;
the handler schedules NAPI; `aq_vec_poll` serves the Tx and Rx rings of the
vector and enables the interrupt.  A timer queues the service work once a
second; the service work and, if there is a vector for it, the link interrupt's
work read the link from the firmware and turn the stack's carrier and queues on
and off, and carry its speed and flow control to the device.  Open, close and the
other operations run one at a time under the rtnl lock, beside all of these;
`set_rx_mode` holds the address lock only.  The rtnl thread, the service work and
user space (hwmon, `/dev/ptp`) all call the firmware: some under `fwreq_mutex`,
some not, and each transfer under a semaphore of the device.  PTP has a vector and
rings of its own.

What makes a component correct: the rings' indices keep their order and nothing
in flight is unmapped, freed or handed out twice; every packet is taken whole
and once; a stopped queue is resumed; completed descriptors are served; nothing
touches a ring once it is stopped; nothing that was started outlives a stop; the
stack knows the link; the filters the user sees are the filters at work, and the
registers say what was asked for; a firmware call is answered by the answer to it and
returns; a time stamp goes to the packet it belongs to.

## The modules

| Module | Models | Extends |
|---|---|---|
| `AqRing` | the index arithmetic of `aq_ring.h` | |
| `TxRing` | one Tx ring: xmit, poll, device, link, stop and start | `AqRing` |
| `TxQueue` | abstract: what a Tx ring promises, a queue of packets | |
| `TxRingFifo` | the mapping under which `TxRing` implements `TxQueue` | `TxRing` |
| `RxRing` | one Rx ring: poll, device, stack, init, deinit, free | `AqRing` |
| `VecNapi` | one vector: interrupt, NAPI, poll, stop and start | |
| `NicLife` | the interface: operations, timer, works, link | |
| `NicConfig` | the settings, `set_rx_mode`, and the registers they go to | |
| `Filters` | the flow rules, the VLAN table and their registers | |
| `FwBoot` | the reset of the device and the start of its firmware | |
| `FwCall` | the calls of three threads to the firmware | `FwBoot` |
| `FwAccess` | transfers, MSM and PHY accesses under the semaphores | |
| `PtpStamp` | the packets that wait for a time stamp | |
| `MC*` | the modules for TLC: shapes, setups and symmetries | their module |
| `*Proofs` | theorems (`NicLifeProofs` also those about `VecNapi`) | their module |

Each module also holds *slips*: alternatives of one of its definitions that a
plausible mistake would lead to (named as such in a comment).  They are used by no
specification; `PROJECT.json` pairs each property with a slip that breaks it.

### TxRing

State: the ring (`sw_head`, `sw_tail`, `hw_head`), its buffers and descriptors,
the device's head and tail registers, the stack's queue (stopped, carrier), and
one program counter each for xmit and poll.  A buffer keeps the flags the code
decides by: `is_mapped`, `is_sop`, `is_eop`, `is_gso/vlan` (as *context*) and
`eop_index`.  An skb is a model value with a shape: its number of fragments,
whether it needs a context descriptor and how many data descriptors it takes.

- `aq_ring_update_queue_state` reads the indices and then acts.  `Torn` names
  the threads that the other CPU can overtake between the two; `{}` is a machine
  on which nothing happens in between, `{"xmit", "poll"}` is what the code allows.
- `aq_nic_map_skb` is one step for one skb, with the failure of any piece in
  `FailAt`; the unwinding is part of it.  The descriptor writes and the tail
  write of `hw_ring_tx_xmit` are two steps.
- `HwFetch` (external) completes one descriptor and clears it.
- xmit is called only with the carrier on, as the stack's qdisc is inactive
  otherwise.  A link down and `aq_nic_stop` wait for the xmit that is running, as
  `netif_tx_disable` does on Linux.  `aq_nic_stop` is one step here; its own
  interleavings are in `VecNapi` and `NicLife`.

### TxQueue and TxRingFifo

`TxQueue` is what the stack may rely on: packets enter a queue, the device sends
them in their order, and each is given back once, oldest first, after it was sent.
`TxRingFifo` maps the ring to it: the n-th packet of the queue is the skb in the n-th
buffer with the EOP flag (`Nth`) between `sw_head` and the device's tail, sent are as many
as there are such buffers before the device's head (`Ends`), and held are the skbs the
driver owns.  `InOrderService` says
that every step of `TxRing` is a step of `TxQueue` or none.  A packet thus becomes
visible with the write of the tail pointer, is sent with its last descriptor, and is
given back by the one step of `aq_ring_tx_clean` that passes its EOP buffer.

### RxRing

A buffer is one part of a page.  `ringref` is the set of pages the ring holds,
`skbrefs` the buffers that skbs of the stack hold.  `Vmklnx` chooses between
Linux (the page's reference count decides whether a part is reused, the next part
is taken or a new page is needed) and ESXi (the skb takes the page over).  The
device receives packets of several buffers and interleaves them (`open`), which
covers both LRO, where `next` comes from the descriptor, and jumbo frames, where
it is the next slot.  The slots of one packet (`Chain`) are the least set that holds its
first slot and, with a slot that is not the last, the one it names.  `AllocFails` says whether page and skb allocations may
fail during `aq_vec_init` and during a poll.  Memory is a finite set of pages: an
allocation that may not fail waits for one.  Checksums, hashes and VLAN tags are
data no property looks at; on ESXi the DMA mapping is not tracked apart from the
page.  The runs of this module have no deadlock check, because a ring whose pages
are all with skbs that the stack keeps really stands still.

### VecNapi

A ring is a number of completed descriptors.  The device's part is two bits of
the vector, `vec_status` and `mask`, and a message under way; with messages the
device masks the vector when it sends one, with a legacy line the handler does.
Which of the two the probe got is chosen at the start, from `Kinds`.  NAPI is off,
idle, scheduled, polling, or stuck.  The kernel the driver runs on is
a parameter: `Missed` (whether `napi_schedule` on a busy NAPI is remembered) and
`Repolls` (whether a poll that returns without `napi_complete` is polled again).
`aq_nic_stop` and `aq_nic_start` are modelled step by step (`VecStop`, `VecStart`).

### NicLife

The rtnl thread goes through the steps of `aq_nic_init`, `aq_nic_start`,
`aq_nic_stop` and `aq_nic_deinit` (`life`) on behalf of an operation (`op`).  The
two works go through `aq_nic_update_link_status` (`at`), one access to shared
state per step, through firmware 2.x's `aq_fw2x_update_link_status`.  A behaviour
has one of the `Setups`: the operations asked for, whether the link has an interrupt,
its speeds and the steps that may fail; the error paths are those of the operation's
caller.  What a change of speed also sets (flow control, interrupt moderation) is in
`NicConfig`.  `AQ_NIC_FLAGS_IS_NOT_READY`, which the service work tests, is never set.
An operation asked for after a shutdown is not modelled, nor is one during a
suspend, when processes are frozen.  A failed allocation in `aq_set_ringparam` is
left out: the interface then stays down with fewer vectors.

### Filters

A rule is a flow spec: its flow type, what the mask of its `vlan_tci` selects, the
tci, one key for all other fields it compares, its action and its location.  The
list, which the code keeps sorted by location and without duplicates, is a function
from locations to rules.  `nic` is the driver's state, `hw` the registers; the
functions of `aq_filters.c` take and return the pair of them, so that an operation
that calls several (replace a rule: delete, list, add) is one step, as it is under
the rtnl lock.  `aq_clear_rxnfc_all_rules` takes out one rule per step.
`aq_nic_init` is the reset of an open, which clears the registers behind the list.
The flow types stand for groups: `v4` for the TCP, UDP, SCTP and user flows of IPv4,
`ip4` for `IPV4_FLOW`, which the check accepts and `aq_add_del_rule` refuses.  Specs
that are refused for their form alone (MAC_EXT, tos, a missing EtherType) change
nothing and are left out, as are register accesses that fail.

### NicConfig

Three threads: the operations under rtnl, `set_rx_mode`, and the service work.  `cfg`,
`nic` and `wanted` are what was asked for, `hw` is the registers; `hw_reset` clears all
of them, so that init and start must write each again.  `set_rx_mode` runs in five
steps (flags, clear, fill, list, filter) beside `aq_nic_start`, which reads the count
of the list in one step and uses it in the next; the work and `set_coalesce` both read
mode and timers, and write the registers later.  The arithmetic of the code is kept
where a property looks at it: the packing of 3-bit RSS entries into 16-bit words, the
halving and clamping of moderation times and the tables by speed.  `crossed` records
the three races after which a setting may be lost (see there); the properties say that
there is no other way.

### FwBoot and FwCall

`FwBoot` is `hw_atl_utils_soft_reset` with its two boot sequences; each wait either
sees its condition or runs out of tries.  In `FwCall` a firmware call is a sequence of
instructions (lock, read the register, write it back, toggle a request, wait for the
answer, call, account), written down per function as the code executes them; a thread
holds those it has still to execute.  An error skips to the unlock or to the end, as the
`err_exit` labels do.  The firmware (external) serves, serves late, rejects or does not
answer.  `raced`, `late` and `junk` record what the code does not guard against; the
properties except what comes after.  The `Scenarios` group calls that interact, as all of
them together are too many states.

### FwAccess

Transfers are word by word through one address register.  A wait for a semaphore
succeeds, runs out, or is got by the look `AQ_HW_WAIT_FOR` takes after its last try.
The firmware rewrites the mailbox under the semaphore and may die holding it.  A
download that ran out of tries releases the semaphore of whoever holds it (`forced`).

### PtpStamp

`skb_ring`, the timeout and the `ptp_tx` ring have a lock each, so each operation on one
of them is a step.  The device stamps packets in the order it sent them, may lose stamps,
and writes as many as descriptors are posted.  A packet counts its references (`refs`);
`Holders` counts the places that will free it.  Descriptors are in `TxRing`; the PTP
vector's interrupt is as in `VecNapi`.  Several CPUs come with a ring that has room for
all packets, because a ring that two CPUs overrun is not modelled further.

## The runs

Deadlock is checked except in the runs of `RxRing` (a ring whose pages are all with the
stack stands still), `FwCall` and `PtpStamp` (the bounded opens and calls are used up).

| Run | Shows |
|---|---|
| `tx_ring` | Size 5, 2 skbs of all shapes up to 3 descriptors, xmit overtaken anywhere: `RingOrder`, `DmaSafe`, `WholePacket`, and the refinement `InOrderService` |
| `tx_ring_live` | Size 6, nobody overtaken: `QueueResumes`, `TxCompletes` |
| `rx_ring_esxi` | ESXi, 4 slots, interleaved chains: `RingOrder`, `DmaSafe`, `WholePacket` |
| `rx_ring_no_mem` | Linux, 3 slots, pages of 2 parts, allocations fail in polls: `SkbUntouched`, `FreesOwnPages` |
| `rx_ring_live` | Linux, no allocation fails: `RingMoves`, `DeviceRefilled` |
| `vec` | messages and a shared legacy line, failing polls on a kernel that polls again, with `NAPI_STATE_MISSED`: `IrqOnlyWhenIdle`, `RingsLeftAlone`, `WorkServed`, `StopReturns` |
| `life` | all operations without failures and without a link interrupt; open, close and shutdown with both works at once, early failures of open and a failing `hw_stop`: `DeviceQuiet`, `NothingLeft`, `NapiPaired`, `CarrierFollows`, `QueuesAwake` |
| `config` | settings by the stack, ethtool and the link, with restarts: `InForce`, `RxCovers` |
| `filters` | 2 VLAN rows, 3 VLANs, 1 EtherType and 4 L3/L4 locations (an IPv6 rule takes 2): `NoGhostFilter`, `VlanPasses`, `RulesTakeEffect` |
| `fw_call` | eight scenarios of calls, with firmware 1.x and 3.x, answers late or missing: `FreshFirmware`, `SettingsKept`, `StatsHonest`, `AnswerIsFresh`, `RequestIntact`, `CallsReturn` |
| `fw_access` | two threads and a firmware that may die: `SemaphoresHold`, `WholeTransfer`, `OnlyThePtpBit`, `RamRecovers` |
| `ptp_stamp` | one CPU and two opens, or two CPUs and one: `StampsMatch`, `RefsKept`, `Drains` |

What they show, beyond the ring and filter properties named after what they say:
`InForce` and `RxCovers`, that after any sequence of calls and resets the registers are
what was asked for, but for the three races; `SettingsKept`, the same for the firmware's
control register, and that ESXi has no race there; `AnswerIsFresh` and `RequestIntact`,
that calls and answers are paired although one area and one register serve all of them,
up to the first call that is given up; `StampsMatch`, that `skb_ring` stays in step with
the stamps until one of four named events; `RefsKept`, that no interleaving of sender,
poll and timeout frees a packet twice or never; `Drains`, that packets without a stamp
are given up.

`TypeOK` is proved for `TxRing`, `RxRing`, `VecNapi`, `NicLife`, `NicConfig`, `FwAccess`,
`Filters` and `PtpStamp`.  That of `FwCall` holds on the run's instances.

**Bounds.**  A ring of 5 or 6 slots wraps within two packets, is full with one
packet of three descriptors and the slot kept free, and makes the clean budget of
2 end in the middle of a packet; two skbs are enough for the one that stops the
queue and the one that follows.  The constants keep the relations the code has
between the real ones (`FragsMax < Size`, `FragsMax <= RestartThres`).  An Rx ring
of 4 slots (`rx_ring_esxi`) holds two interleaved chains and wraps; one of 3 slots
is enough for the page flips of `rx_ring_no_mem`, as a flip concerns one slot and
the skbs that hold its page.  As one slot stays empty, there is one page more than
the ring needs at once, so that pages travel between ring and stack.  With a budget of 2
and up to 3 completed descriptors a poll ends both with and without work left.
Three VLANs are one
more than the rows, two keys allow two L3/L4 rules at a time, and the specs include
locations of the wrong type and a queue that is refused.  Two multicast filters for up
to five addresses overflow, 16 RSS entries show every way an entry of 3 bits lies in words
of 16, and the setups of `config` each vary the settings that are used together.  Counters
modulo 3 with two packets wrap across a reset, two transaction numbers make old and new
differ and no more, a rejected call and two opens are enough for a call to meet what the
last open left.  Transfers of two words have a first and a last one; a `skb_ring` of 3
slots is full with both packets.  All VLAN rules of the run
have one flow type (see below for why).  Two link speeds tell a change of speed from a change of state.  Symmetry is used
for skbs and pages in runs that check safety only.

**Fairness.**  Steps of a thread that is in the middle of a function (xmit, poll,
handler, work, an operation that was begun) are weakly fair: the kernel does not
stop them for good.  The device fetches what it was given, sends its messages and
ends the packets it began; the kernel runs a NAPI that is scheduled; the timer
expires; the stack frees skbs at last (`RxRing` only).  Nothing makes the stack
send, the link change or an operation begin.  Strong fairness is assumed where
something waits for another that comes and goes (also `fwreq_mutex`, and the download
that the statistics make every second, `fw_access`): `napi_disable` and `free_irq`
for a poll or a handler, `cancel_work_sync` for a work (the kernel refuses to
queue it meanwhile), and of a poll's calls, which may fail but not for ever.

## Known behaviours

The code allows the following.  Where a constant is named, the model has the behaviour
with it, and the property in parentheses then fails; the runs stay clear of it.

Data path:

- a poll that read the indices before an xmit used the room wakes the queue, and the
  next xmit overruns the ring (`Torn = {"poll"}`, `RingOrder`);
- xmit decides to stop the queue, a poll reclaims everything and finds the queue
  running, and xmit stops it: it stays stopped (`QueueResumes` with `Torn = {"xmit"}`);
- a Tx ring with no more slots than the restart threshold (`Size = RestartThres`) is
  never resumed; `ethtool -G` accepts 40 descriptors, the threshold is 64
  (`QueueResumes`);
- when the first mapping of an skb fails (`FailAt = {1}`), its context descriptor
  is sent alone and its skb is never freed (`InOrderService`);
- after a refill that failed half-way (`AllocFails = {"poll"}`) descriptors that were
  not posted again are taken as received (`RingOrder`); if nothing is left to clean,
  no later poll refills (`DeviceRefilled`);
- a fill that fails is ignored during open, and a poll posts later slots past those it
  could not fill: from 4 slots on the device may then get a descriptor of an earlier
  open, whose page was given back (`DmaSafe`; `SkbUntouched` speaks of descriptors that
  name the buffer of their slot, and holds);
- on ESXi closing frees pages of a coalesced packet that an skb already owns
  (`Vmklnx = TRUE`, `FreesOwnPages`);
- slots outside `sw_head .. sw_tail` keep their page when the ring is freed;

Life cycle and interrupts:

- an open that fails after the rings were started, for want of an interrupt, cleans them
  with the device still writing (`fails = {"irqs"}`, `DeviceQuiet`);
- a work that finds the link up inside a stop turns the carrier on and wakes the queues
  of a stopped device;
- with 1, 2, 3, 5 or 9 vectors the link vector and the PTP vector are the same, and open
  fails with -EBUSY (`aq_nic.c:144`); with a legacy interrupt and PTP it fails as well;
- after a restart or resume whose `aq_nic_start` failed (`fails = {"vecs"}`) the
  interface is running and the device stopped: a shutdown disables NAPI twice and
  hangs (`NapiPaired`);
- with the link interrupt, the two works can leave the queues stopped under a
  carrier that is on (`QueuesAwake` without its first conjunct), and a link
  interrupt that arrives between `cancel_work_sync` and `free_irq` leaves the link
  work queued after the stop;
- a poll that leaves through `err_exit` on a kernel that does not poll again
  (3.19 and later): NAPI stays scheduled with the interrupt masked, and
  `napi_disable` hangs (`VecNapi` with `PollFails` and without `Repolls`);
- a shared legacy line on a kernel without `NAPI_STATE_MISSED`: the handler's
  spurious path enables the interrupt under a running poll, and the next
  `napi_schedule` is lost (`WorkServed` without `Missed`);

Settings and filters:

- a `set_rx_mode` inside `aq_nic_start` loses filters until the next one, a
  `set_coalesce` beside the link work leaves mixed timers, and a link that comes back at
  the speed seen last, also over a restart, keeps the flow control and the moderation of
  init (the three races of `crossed`);
- an emptied multicast list leaves the old addresses enabled;
- `is_vlan_rx_strip` and `is_vlan_tx_insert` follow the features only on ESXi until
  features are set for the first time (`aq_nic.c:155`);
- coalescing with `usecs = 0` as shown is refused when set again unless `frames = 1`;
  `hw_atl_b0_hw_rss_set` touches two bytes past its bit array;
- after a reset the rules of the list are not written to the device again;
- killing VLAN 0 deletes the first rule without a VLAN, of whatever type
  (`aq_del_fvlan_by_vlan` compares the tci only);
- two VLAN rules for one VLAN with different flow types pass the check, the second
  takes the first out of force (`RulesTakeEffect`), and when the VLAN is killed one of
  them stays and holds a row another VLAN may need (`VlanPasses`);
- a rule that is refused after it took the place of another does not bring it back;
- `aq_check_approve_fvlan` accepts the queue `num_rss_queues`, one more than its
  message allows;

Firmware and PHY:

- on Linux `hw_init` and `set_power` race with hwmon and PTP requests for the control
  register and the RPC area (`raced`);
- a request after one that timed out is answered by the old answer (`late`);
- a download that fails leaves the statistics to be summed from an uninitialised mailbox
  (`junk`); a remote call the firmware keeps rejecting never returns;
- the MSM and MDIO semaphores are lost when the last look of a wait gets them; a PHY
  read that fails makes the PTP workaround write ones (`misread`);
- `aq_fw2x_get_temp` scales a whole word that also holds the cable length.

PTP:

- a lost stamp, with packets more often than every ten seconds, puts all later stamps on
  the wrong packets; so do two CPUs between `aq_ptp_skb_put` and the ring's lock, and a
  packet whose mapping fails, which stays in `skb_ring` and is entered again;
- a timeout stopped by a poll that found the ring empty leaves a packet entered since
  then without one (`StaleStop`);
- the room in `ptp_tx` is looked at outside the lock, and two CPUs can overrun it;
- each open allocates the PTP rings anew and forgets those of the last one;
- `aq_ptp_poll` has the same error exit as `aq_vec_poll`; the PTP filters share a
  location with the user's rules and are not written again after a reset; the clock is
  set back at each change of speed; offsets are shared by all adapters.

## Proofs

The theorems hold for every value of the constants that meets the named
assumptions (`SizeAssumption`, `TxAssumption`, `RxAssumption`, `VecAssumption`,
`LifeAssumption`, `ConfigAssumption`, `FilterAssumption`, `BootAssumption`,
`AccessAssumption`, `CallAssumption`, `NoneAssumption`), which TLC
evaluates on the runs' instances.  They say what the code has: `FilterAssumption` bounds
the RSS queues by the 5 bits a VLAN register has for one (the driver has at most 8),
`ConfigAssumption` by the 3 bits of an RSS entry, and says that the stack's lists are finite, and
`AccessAssumption` says that one thread at a time works on the PHY, as `aq_nic_init` does
under rtnl.  Every inductive invariant was checked with TLC before it was proved.

**`TxRingProofs`.**  `TypeCorrect`: `TypeOK` together with `XmitHolds`, which says
what an xmit in the middle holds (an skb, whose shape fits), is inductive.
`RingNeverOverruns` and `XmitHasRoom` need `RingInv`: besides the order of the
indices it says that between its look at the queue and its last descriptor an xmit
has the room it needs (`Room`: only a poll runs beside it, and a poll only frees
slots), that an xmit is under way only with the carrier on and the device up, so
that no stop or link change comes between, and that the poll holds no old verdict
on the queue that could undo a stop (`Places`).  Both
assume that the poll is not overtaken inside `aq_ring_update_queue_state`; without
this they are false (see above).  `DmaIsSafe` and `PacketsAreWhole` need in addition
`PacketInv`, which says what lies in the ring: each live slot is bare (a context) or a
mapped piece of an skb the driver has, and no piece is in two slots (`Forms`, `Distinct`);
the pieces of a packet follow each other, the EOP buffer is the last, and the SOP buffer
knows it (`Contiguous`, `EndsAtEop`, `EopKnown`); a packet the poll has begun to clean
was fetched to its end, so that a budget that ends in the middle leaves nothing the device
still needs (`HeadDone`); what an xmit has written but not posted is out of the device's
reach (`Unsent`).

`RingIsQueue` is the refinement `InOrderService`, for every ring size, every shape of
packet and every order of the threads.  It assumes in addition that the first piece of an
skb can be mapped (`1 \notin FailAt`; `TxQueue` is not implemented otherwise, see above).
Its own invariant, `FifoInv`, says that the software's tail is the device's except while an
xmit posts (`AllPosted`), and that between the two lies then exactly one buffer with the
EOP flag, with the skb of that xmit (`OneEnd`).  That the queue is a sequence at all rests
on counting: a slot's place among those with the EOP flag (`Rank`) tells it from the
others, so by the pigeonhole principle every place up to their number is taken (`NthType`),
and `NthAdd`, `NthDrop` and `NthShift` say how the places change when a slot is added at
the end, is taken from the front, or `sw_head` passes a slot where no packet ends.  With
these each action is shown to be one of the queue's or none: `tx_ring_tail_update` a `Post`
(`TailPosts`), `HwFetch` a `Send` or none (`FetchSends`), `aq_ring_tx_clean` a `Complete`
of the oldest packet or none (`CleanCompletes`), `aq_nic_start` a `Reset`, and everything
else none, since `aq_nic_map_skb` writes free slots only (`QuietQueue`).

**`RxRingProofs`.**  Four layers.  `BaseInv` (types, where the poll is, and that a slot
filled and uncleaned has a page) needs no assumption.  `OrderInv` adds that descriptors
the device has not fetched are not written back, and that each packet it is receiving has
one descriptor ahead of the poll's head (`Fresh`, `OpenAhead`), from which
`RingKeepsOrder` follows; it is false when a refill fails (see above).  `PktInv` says how
slots of interleaved packets are linked: the links go forward and stay in their packet
(`Linked`), reach all of it (`Reached`, `ReachedOpen`), and only further slots of a packet
are passed over as cleaned.  As `Chain` is a least set, the slots the device gave one
packet are shown to be closed under `next` (so the chain is among them) and each to be in
every closed set (so it is all of them); this gives `PacketsStayWhole` without an
induction over the chain.  Ownership differs between the builds.  On Linux (`LinuxInv`) a
page is in one slot and held by the ring, and skbs reference no part of it beyond the
slot's, and that one only once it was received; this survives every failed
allocation, so `SkbsStayUntouched` and `OwnPagesFreed` assume none away.  On ESXi
(`EsxiInv`) the ring holds the pages that are not taken, each in one slot, and no skb has
one of them; a taken page that the stack freed may come back in a slot filled later.
`DmaIsSafe` takes all of them together, and that posted descriptors name their
slot's buffer (`PostedIs`).

**`FiltersProofs`.**  The model's functions take the list and the registers as a pair, and
so do the invariants; each function has a lemma on what it makes of a sound pair.  `Sound`
says: rules lie at locations of their type (`Placement`); the L3/L4 rules of the list
are of one family, and `is_ipv6` is that family, although each check writes it, also one
that refuses the rule (`Families`); the table's rows with a queue are those of VLAN rules
and the registers have no others (`RowsOfRules`, `RowsWritten`); every other register
holds nothing or the rule of the list that spans it (`SlotsOfRules`).  `NoGhosts` follows
for any flow specs.  `VlansPass` and `RulesAreInForce` assume that VLAN rules for one VLAN
agree in flow type and key (`OneFlowPerVlan`): without it they are false (see above).  They
need that VLAN rules are for active VLANs, one for each, and a count: a VLAN without a rule
finds a row the rules leave free unless the device is promiscuous (`RowsSuffice`).

**`NicConfigProofs`.**  The registers fall into four groups that no step writes across
(the `*Frame` lemmas): the offloads, moderation, flow control, the filters.  `Control` says
which threads can run beside which: no service work while the device is brought up, no
`set_rx_mode` before the first open, and after init the work has yet to look at the link.
`Offloads`: from init to the next stop the registers are those of `aq_nic_cfg`; with it,
`Redirected` shows for a table of any size that unpacking the bits gives each entry back.
`Moderated` says what the work and `set_coalesce` hold between reading and writing (the mode,
the timers) and that it is still right when neither overtook the other; `Automatic` that in
automatic mode nobody can; `Linked` that the work's last look is what the registers say.
`SettingsInForce` follows.  For the filters, `Listed` says that `set_rx_mode` ends with a
list and flags that take in every address (`Filled`: by counting, an address is in the list
or the mode that replaces it is asked for), and `Filtering` when the registers have that list
and those flags, given that `aq_nic_start` uses a count it read before.  `StackIsHeard`
follows, for lists of any length.  The races in `crossed` are the hypotheses the proof
needed, no more: each is dropped again by the step that repairs the setting.

**`NicLifeProofs`.**  The invariant relates each piece of state to the interval of
steps in which it may be set: NAPI and the device's rings between `aq_vec_start`
and `aq_vec_stop` (`RingInv`), timer, service work and interrupts (`WorkInv`), and
that the stack's idea of a running interface agrees with the device's state
(`RunInv`), without which a second stop could begin.  `DeviceIsQuiet`,
`NothingIsLeft` and `NapiIsPaired` assume that no step fails: with failures they
are false in general.  `TypeCorrect` needs no such assumption.

The second half is about `VecNapi`, for every budget, kernel and kind of interrupt
(`VecSpec`).  `StopInv` says which steps of stop and start leave NAPI off and that NAPI is
polling exactly while the poll is at the rings; `TokenInv` says that with messages there
is one token, which is the mask bit, the message, NAPI's being busy, or the poll at
`hw_irq_enable`, and that it is never in two places.  `NoInterruptIsWasted` and
`StoppedRingsAreLeftAlone` follow.

**`FwAccessProofs`.**  `SemaphoresExclude` is inductive with the types: a thread enters a
section only with the step that takes the semaphore, and leaves it with the one that
releases it.  `TransfersAreWhole` adds what a transfer in the middle has done
(`Progress`): the words downloaded so far are the mailbox's and the address register is at
the next one; the words uploaded so far are in the memory and the rest is in the buffer.
Other threads are outside by the first result, so they change neither memory nor address.
Both hold for any number of threads and words.  `PtpBitAlone` follows the one thread that
works on the PHY: what it has read is the register's value until it writes it back.

**`FwCallProofs`.**  `ResetLeavesFresh`: while a soft reset can still end well, a firmware
that is up has come up since the reset began; where the code has yet to reset the device
it need not.  No call and no step of the firmware outside the reset touches this state.

`SettingsTheorem` is about threads that hold the instructions they have yet to execute.  Each
call's program is written out and shown to be what the model builds from the functions of
the source (`...Code`), for firmware 1.x and 2.x.  A thread is then at a position of a
program, and four facts are shown of each program: what is at each position (`...Is`,
`...Ops`), where each leads, an error included (`...Move`), that the lock is held and the
register read where they must be (`...Guarded`), and with them what a step from each
position does to lock, settings, life and register (`...Does`).  The invariant `SetInv` has,
for every call of rtnl and every position in it, what the register holds (`RtnlInv`): which
of the settings it has already, and that what is still missing is written before the call
ends.  `ServiceInv` and `UserInv` say where the other threads can be and that they
write nothing but request bits; on ESXi their programs and the unlocked ones of rtnl never
overlap (`raced => Linux`).

The other three build on it.  `SetInv` says where each thread can be, and `Plan` what all
the programs have in common: writes leave the request bits alone, a toggle is followed at
once by the wait for its answer, and a remote call is made only after a wait for the one
before.  `StandsIs` is that whoever is in a call is at a place of such a program, and with
the lock where it needs it; `StandsGoes` is where a step can take it.

- `StatisticsTheorem`: the packets counted, those the mailbox has beyond `last_stats` and
  those the device has beyond the mailbox, both modulo the counter's width, are together
  no more than there were (`Sound`).  A reset breaks that.  From there on, `hw_init` is
  about to clear the link status and to take the statistics anew, or has failed, and its
  end will say so (`Rebasing`).  `StatInv` is one or the other.
- `AnswerTheorem`: a thread that waits knows the bit as it wrote it; unless an earlier
  request was given up, STATE2 differs from CONTROL2 in the bit as long as the firmware has
  not served it, and in no bit that nobody waits for (`AnsInv`).  No two threads ever ask
  for the same bit at a time (`AsksAlone`): both statistics programs run under the lock,
  but for the one of `hw_init`, which runs while the service task cannot.
- `RequestTheorem`: from the upload to the answer of a PTP request the area holds its
  message; while a remote call is unserved the area holds `self->rpc`; and when a program
  is about to make a remote call, the last one has been served (`ReqInv`).

**`PtpStampProofs`.**  The invariant `Inv` says little beyond the types: a packet is with
the stack or with one CPU, CPUs send while the device is up, and a poll in the middle of
its stamps has as many left as it counted (`SendInv`, `PollInv`).  The work is in two
views of the state.  `skb_ring`, an array with a head and a tail that wrap, is shown to be
a queue (`QueueIs`): a put appends to it and a get takes its first (`QueuePut`,
`QueueGet`), for any size.  And places are counted, with lemmas on how often a packet is
in a sequence that is appended to, split or cut (`Count*`).

- `ReferencesTheorem`: each kind of step changes a packet's references by as much as the
  places that will free it (`Kept*`); `aq_ptp_ring_free` and opening again are the two
  exceptions the property names.  They only forget places, so `Held`, that a packet has at
  least as many references as places, survives them too; hence `StampTypes`, in which
  `skb->users` is a natural number.
- `StampsTheorem`: when `skb_ring` is the sequence of stamps to come, from those written
  to the packet in a CPU's hand (`Pending`), each undisturbed step takes from and adds to
  both alike (`InStepXmit`, `InStepDevice`, `InStepPoll`, `InStepOther`).
- `WatchTheorem` is the safety part of `Drains`: no step but the stale stop leaves an entry
  without somebody to free it.

All of them hold for any number of packets, CPUs and opens and any size of the rings.

Only model-checked: everything about liveness, which the prover cannot do (`QueueResumes`,
`TxCompletes`, `RingMoves`, `DeviceRefilled`, `WorkServed`, `StopReturns`,
`CarrierFollows`, `QueuesAwake`, `CallsReturn`, `RamRecovers`, and that packets without a
stamp are given up in the end, the second part of `Drains`).

## Not modelled

- Data that no property tells apart: checksum, hash and VLAN fields of descriptors,
  message formats, texts, tracing; register dumps and statistics shown by ethtool.
- `hw_atl_llh.c` (one register field per function), `hw_atl_a0.c` (the same
  operations for an older chip), `aq_compat*.h`, `aq_trace.c`.
- The PTP clock's arithmetic, PPS and external time stamps, and the PTP filters.
- The stack's qdisc: `NicLife` does not say when the stack may call xmit during a
  restart.
- Polling mode (`AQ_CFG_IS_POLLING`, off by default); register accesses that fail
  because the device was unplugged.
- `set_link_ksettings`: the speeds asked for are handed to the firmware as they are.

## Plan

Done: all modules above with their runs, the refinement of the Tx ring, the proofs named
above.  Next, in this order:

1. The qdisc in `NicLife`, and its composition with `TxRing`: when xmit can meet a device
   that is being stopped.
2. The PTP clock: settime, adjtime and gettime against the offsets the firmware applies.

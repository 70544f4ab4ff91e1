----------------------------- MODULE NicConfig -----------------------------
(***************************************************************************)
(* The settings of the interface: what the stack, ethtool and the link ask *)
(* for (aq_nic_cfg, packet_filter, mc_list) and what the registers say.    *)
(*                                                                         *)
(* Three threads of control: the operations under the rtnl lock,           *)
(* set_rx_mode under the address lock only, and the service work, which    *)
(* carries the link's speed and flow control to the device.  A reset       *)
(* clears every register; init and start have to write them all again.     *)
(***************************************************************************)
EXTENDS Integers, FiniteSets, Sequences, SequencesExt

CONSTANTS
    Setups,    \* what may be asked for in one behaviour, see SetupType
    Macs,      \* addresses of the interface itself
    Unicast,   \* further unicast addresses
    Multicast, \* multicast addresses
    ListMax,   \* AQ_HW_MULTICAST_ADDRESS_MAX, filters beside the first
    RssSize,   \* HW_ATL_B0_RSS_REDIRECTION_MAX
    RssQueues, \* num_rss_queues
    Keys,      \* RSS hash keys
    NoAddr, NoKey

Features == {"rxcsum", "lro", "vlan_rx"}
Flags    == {"promisc", "allmulti", "multicast"}
Mbps     == {0, 100, 1000, 2500, 5000, 10000}
UsecMax  == 1022                        \* AQ_CFG_INTERRUPT_MODERATION_USEC_MAX
Tables   == [0 .. RssSize - 1 -> 0 .. RssQueues - 1]

ASSUME ConfigAssumption ==
    /\ ListMax \in Nat \ {0} /\ RssSize \in Nat \ {0} /\ RssQueues \in 1 .. 8
    /\ NoAddr \notin Macs \cup Unicast \cup Multicast /\ NoKey \notin Keys
    /\ \A s \in Setups :
          /\ s.itr \in {"off", "on", "auto"}
          /\ s.macs \subseteq Macs /\ s.keys \subseteq Keys
          /\ s.features \subseteq SUBSET Features
          /\ s.wanted \subseteq [uc : SUBSET Unicast, mc : SUBSET Multicast, flags : SUBSET Flags]
          /\ \A w \in s.wanted : IsFiniteSet(w.uc) /\ IsFiniteSet(w.mc)
          /\ s.links \subseteq [mbps : Mbps, fc : BOOLEAN]
          /\ s.coalesce \subseteq [rx : Nat, tx : Nat, rxf : Nat, txf : Nat]
          /\ s.tables \subseteq Tables /\ s.pause \subseteq BOOLEAN

VARIABLES
    setup,       \* the setup of this behaviour
    pc, op,      \* the rtnl thread: its step, and open, close or restart
    held,        \* what it has read: the count of mc_list, then the timers
    up, service, \* IFF_UP; the service timer and work are on
    wanted,      \* the stack's lists of addresses, and the flags
    cfg,         \* aq_nic_cfg and ndev->dev_addr
    nic,         \* packet_filter and mc_list: its addresses and count
    rx,          \* set_rx_mode: its step and the filter it puts together
    work,        \* the service work: its step, the mode and timers it read
    link,        \* the link and the flow control agreed on (external)
    mbps, seen,  \* the speed in aq_hw's and in aq_nic's link_status
    hw,          \* the registers
    news,        \* ghost: the work has not looked since the link last changed
    crossed      \* ghost: the settings written by two threads at once

rtnl == <<pc, op, held>>
vars == <<setup, rtnl, up, service, wanted, cfg, nic, rx, work, link, mbps,
          seen, hw, news, crossed>>

Slots == 1 .. ListMax

\* The registers after hw_reset.
ResetRegisters ==
    [mac |-> NoAddr, rxcsum |-> FALSE, lro |-> FALSE, strip |-> FALSE,
     fc |-> FALSE, redir |-> {}, key |-> NoKey,
     itr |-> [on |-> FALSE, tx |-> <<0, 0>>, rx |-> <<0, 0>>],
     promisc |-> FALSE, allmulti |-> FALSE,
     addr |-> [i \in Slots |-> NoAddr], on |-> [i \in Slots |-> FALSE]]

IdleWork == [at |-> "idle", itr |-> "off", timers |-> ResetRegisters.itr]

\* After probe, where aq_nic_cfg_start has filled in the defaults; only the
\* ESXi build derives tag stripping from the features.
Init ==
    /\ setup \in Setups
    /\ pc = "idle" /\ op = "none" /\ held = 0
    /\ up = FALSE /\ service = FALSE
    /\ wanted = [uc |-> {}, mc |-> {}, flags |-> {"multicast"}]
    /\ \E m \in setup.macs, k \in setup.keys, vmklnx \in BOOLEAN :
          cfg = [mac |-> m, features |-> Features, is_lro |-> TRUE,
                 is_vlan_rx_strip |-> vmklnx, flow_control |-> TRUE,
                 itr |-> setup.itr, tx_itr |-> 0, rx_itr |-> 0,
                 table |-> [i \in 0 .. RssSize - 1 |-> i % RssQueues],
                 key |-> k, mc_list_count |-> 0, is_mc_list_enabled |-> FALSE]
    /\ nic = [packet_filter |-> {}, ar |-> [i \in Slots |-> NoAddr], count |-> 0]
    /\ rx = [at |-> "idle", filter |-> {}]
    /\ work = IdleWork
    /\ link = [mbps |-> 0, fc |-> FALSE]
    /\ mbps = 0 /\ seen = 0
    /\ hw = ResetRegisters
    /\ news = FALSE /\ crossed = {}

-----------------------------------------------------------------------------
(* The hardware layer: what each of its operations leaves in the registers. *)

\* The 3 bits of an entry go to bit (3 * i) % 16 of word (3 * i) / 16, and
\* through a 32-bit access on into the next word: the set of bits that are 1.
RssBits(table) ==
    { n \in 0 .. 3 * RssSize - 1 :
        ((table[n \div 3] % RssQueues) \div 2^(n % 3)) % 2 = 1 }

\* Both checksum engines; LRO and its interrupt.
hw_offload_set(h, c) ==
    [h EXCEPT !.rxcsum = "rxcsum" \in c.features, !.lro = c.is_lro]

hw_rss_hash_set(h, c) == [h EXCEPT !.key = IF RssQueues > 1 THEN c.key ELSE NoKey]

hw_rss_set(h, c) == [h EXCEPT !.redir = RssBits(c.table)]

hw_mac_addr_set(h, m) == [h EXCEPT !.mac = m]

set_fc(h, fc) == [h EXCEPT !.fc = fc]

\* Filter 0 is the interface's own, the others are switched off.
hw_init_rx_path(h) == [h EXCEPT !.on = [i \in Slots |-> FALSE]]

\* hw_init, and the ring's tag stripping, set by hw_ring_rx_init.
hw_init(h, c) ==
    [hw_offload_set(hw_rss_hash_set(hw_rss_set(set_fc(hw_mac_addr_set(
        hw_init_rx_path(h), c.mac), c.flow_control), c), c), c)
     EXCEPT !.strip = c.is_vlan_rx_strip]

\* Filters 1 .. n get the addresses, enabled as the filter flags last said.
hw_multicast_list_set(ar, n) ==
    /\ cfg' = [cfg EXCEPT !.mc_list_count = n]
    /\ hw' = [hw EXCEPT
                !.addr = [i \in Slots |-> IF i <= n THEN ar[i] ELSE @[i]],
                !.on   = [i \in Slots |-> IF i <= n THEN cfg.is_mc_list_enabled
                                                    ELSE @[i]]]

hw_packet_filter_set(f) ==
    /\ cfg' = [cfg EXCEPT !.is_mc_list_enabled = "multicast" \in f]
    /\ hw' = [hw EXCEPT !.promisc = "promisc" \in f, !.allmulti = "allmulti" \in f,
                        !.on = [i \in Slots |-> /\ "multicast" \in f
                                                /\ i <= cfg.mc_list_count]]

Least(a, b) == IF a < b THEN a ELSE b

speed_index(m) ==
    CASE m = 100 -> 5 [] m = 1000 -> 4 [] m = 2500 -> 3 [] m = 5000 -> 1
      [] OTHER -> 0

\* <<min, max>> in units of 2 us: from the user's microseconds, clamped to the
\* registers' fields, or from the tables by link speed.
UserTimers(usecs) == <<Least(255, usecs \div 4), Least(511, usecs \div 2)>>
AutoTx(i) == <<15, IF i = 0 THEN 255 ELSE 511>>
AutoRx(i) ==
    << <<6, 56>>, <<12, 112>>, <<12, 112>>, <<24, 224>>, <<48, 128>>, <<4, 80>> >>[i + 1]

Timers(mode, c, m) ==
    CASE mode = "off"  -> ResetRegisters.itr
      [] mode = "on"   -> [on |-> TRUE, tx |-> UserTimers(c.tx_itr), rx |-> UserTimers(c.rx_itr)]
      [] mode = "auto" -> [on |-> TRUE, tx |-> AutoTx(speed_index(m)),
                                        rx |-> AutoRx(speed_index(m))]

\* The tables' values become the ones ethtool shows.
Shown(mode, c, m) ==
    IF mode = "auto"
    THEN [c EXCEPT !.tx_itr = 2 * AutoTx(speed_index(m))[2],
                   !.rx_itr = 2 * AutoRx(speed_index(m))[2]]
    ELSE c

-----------------------------------------------------------------------------
(* set_rx_mode, under the address lock. *)

Want == wanted' \in setup.wanted /\ wanted' # wanted

\* The stack changes a list of an interface that is down: nobody is told.
ChangeDown ==
    /\ ~up /\ rx.at = "idle" /\ Want
    /\ UNCHANGED <<setup, rtnl, up, service, cfg, nic, rx, work, link, mbps, seen, hw, news>>

\* The stack changes a list and calls ndo_set_rx_mode.
Change ==
    /\ up /\ rx.at = "idle" /\ Want
    /\ rx' = [rx EXCEPT !.at = "flags"]
    /\ UNCHANGED <<setup, rtnl, up, service, cfg, nic, work, link, mbps, seen, hw, news>>

aq_nic_set_packet_filter(f) ==
    /\ hw_packet_filter_set(f)
    /\ nic' = [nic EXCEPT !.packet_filter = f]

RxFlags ==
    /\ rx.at = "flags"
    /\ aq_nic_set_packet_filter(wanted.flags)
    /\ rx' = [at |-> "clear", filter |-> wanted.flags]
    /\ UNCHANGED <<setup, rtnl, up, service, wanted, work, link, mbps, seen, news>>

RxClear ==
    /\ rx.at = "clear"
    /\ nic' = [nic EXCEPT !.count = 0]
    /\ rx' = [rx EXCEPT !.at = "fill"]
    /\ UNCHANGED <<setup, rtnl, up, service, wanted, cfg, work, link, mbps, seen, hw, news>>

\* Unicast addresses first; what does not fit turns into promisc or allmulti.
\* A slip: the multicast addresses are counted without the unicast ones.
FillApart(w) ==
    LET uc == IF Cardinality(w.uc) > ListMax THEN {} ELSE w.uc
        mc == IF Cardinality(w.mc) > ListMax THEN {} ELSE w.mc
        s  == SetToSeq(uc) \o SetToSeq(mc)
    IN [list |-> SubSeq(s, 1, Least(Len(s), ListMax)),
        more |-> (IF uc = w.uc THEN {} ELSE {"promisc"})
                   \cup (IF mc = w.mc THEN {} ELSE {"allmulti"})]

Fill(w) ==
    LET uc == IF Cardinality(w.uc) > ListMax THEN {} ELSE w.uc
        mc == IF Cardinality(uc) + Cardinality(w.mc) > ListMax THEN {} ELSE w.mc
    IN [list |-> SetToSeq(uc) \o SetToSeq(mc),
        more |-> (IF uc = w.uc THEN {} ELSE {"promisc"})
                   \cup (IF mc = w.mc THEN {} ELSE {"allmulti"})]

RxFill ==
    LET f == Fill(wanted)
        n == Len(f.list)
    IN /\ rx.at = "fill"
       /\ nic' = [nic EXCEPT !.ar = [i \in Slots |-> IF i <= n THEN f.list[i] ELSE @[i]],
                             !.count = n]
       /\ rx' = IF n > 0
                THEN [at |-> "list", filter |-> rx.filter \cup f.more \cup {"multicast"}]
                ELSE [at |-> "filter", filter |-> rx.filter \cup f.more]
       /\ UNCHANGED <<setup, rtnl, up, service, wanted, cfg, work, link, mbps, seen, hw, news>>

RxList ==
    /\ rx.at = "list"
    /\ hw_multicast_list_set(nic.ar, nic.count)
    /\ rx' = [rx EXCEPT !.at = "filter"]
    /\ UNCHANGED <<setup, rtnl, up, service, wanted, nic, work, link, mbps, seen, news>>

RxFilter ==
    /\ rx.at = "filter"
    /\ aq_nic_set_packet_filter(rx.filter)
    /\ rx' = [at |-> "idle", filter |-> {}]
    /\ UNCHANGED <<setup, rtnl, up, service, wanted, work, link, mbps, seen, news>>

aq_nic_set_multicast_list == RxClear \/ RxFill \/ RxList \/ RxFilter
aq_ndev_set_multicast_settings == Change \/ RxFlags \/ aq_nic_set_multicast_list

-----------------------------------------------------------------------------
(* The operations under the rtnl lock. *)

Goto(p) == pc' = p /\ UNCHANGED <<op, held>>
Idle == pc = "idle"

aq_ndev_open ==
    /\ Idle /\ ~up
    /\ pc' = "reset" /\ op' = "open" /\ UNCHANGED held
    /\ UNCHANGED <<setup, up, service, wanted, cfg, nic, rx, work, link, mbps, seen, hw, news>>

aq_ndev_close ==
    /\ Idle /\ up
    /\ pc' = "stop" /\ op' = "close" /\ UNCHANGED held
    /\ UNCHANGED <<setup, up, service, wanted, cfg, nic, rx, work, link, mbps, seen, hw, news>>

\* A changed checksum is written at once, with LRO; LRO and tag stripping need
\* a restart.
aq_ndev_set_features ==
    /\ Idle
    /\ \E f \in setup.features :
          LET c == [cfg EXCEPT !.features = f, !.is_lro = "lro" \in f,
                               !.is_vlan_rx_strip = "vlan_rx" \in f]
              restart == c.is_lro # cfg.is_lro \/ c.is_vlan_rx_strip # cfg.is_vlan_rx_strip
          IN /\ f # cfg.features
             /\ cfg' = c
             /\ hw' = IF ("rxcsum" \in f) # ("rxcsum" \in cfg.features)
                      THEN hw_offload_set(hw, c) ELSE hw
             /\ IF restart /\ up
                THEN pc' = "stop" /\ op' = "restart" /\ UNCHANGED held
                ELSE UNCHANGED rtnl
    /\ UNCHANGED <<setup, up, service, wanted, nic, rx, work, link, mbps, seen, news>>

aq_ndev_set_mac_address ==
    /\ Idle
    /\ \E m \in setup.macs :
          /\ m # cfg.mac
          /\ cfg' = [cfg EXCEPT !.mac = m]
          /\ hw' = hw_mac_addr_set(hw, m)
    /\ UNCHANGED <<setup, rtnl, up, service, wanted, nic, rx, work, link, mbps, seen, news>>

\* The table, the key or both; a table with an entry that names no queue is
\* refused.
aq_ethtool_set_rss ==
    /\ Idle
    /\ \E t \in setup.tables \cup {cfg.table}, k \in setup.keys :
          LET c == [cfg EXCEPT !.table = t, !.key = k]
          IN /\ c # cfg
             /\ \A i \in DOMAIN t : t[i] < RssQueues
             /\ cfg' = c
             /\ hw' = hw_rss_set(IF k = cfg.key THEN hw ELSE hw_rss_hash_set(hw, c), c)
    /\ UNCHANGED <<setup, rtnl, up, service, wanted, nic, rx, work, link, mbps, seen, news>>

\* The firmware is asked to negotiate; the register waits for the link.
aq_ethtool_set_pauseparam ==
    /\ Idle
    /\ \E fc \in setup.pause \ {cfg.flow_control} :
          cfg' = [cfg EXCEPT !.flow_control = fc]
    /\ UNCHANGED <<setup, rtnl, up, service, wanted, nic, rx, work, link, mbps, seen, hw, news>>

\* Frames can be 1 with no delay and 0 with one: counting is not supported.
aq_ethtool_set_coalesce ==
    /\ Idle
    /\ \E c \in setup.coalesce :
          /\ c.rxf <= 1 /\ c.txf <= 1
          /\ (c.rxf = 1) = (c.rx = 0) /\ (c.txf = 1) = (c.tx = 0)
          /\ c.rx <= UsecMax /\ c.tx <= UsecMax
          /\ cfg' = [cfg EXCEPT !.itr = "on", !.rx_itr = c.rx, !.tx_itr = c.tx]
    /\ pc' = "coalesce" /\ UNCHANGED <<op, held>>
    /\ UNCHANGED <<setup, up, service, wanted, nic, rx, work, link, mbps, seen, hw, news>>

-----------------------------------------------------------------------------
(* Stop, reset, init and start. *)

\* The timer is deleted and the work waited for.
aq_nic_stop ==
    /\ pc = "stop" /\ work.at = "idle"
    /\ service' = FALSE
    /\ IF op = "close"
       THEN rx.at = "idle" /\ up' = FALSE /\ Goto("idle")
       ELSE Goto("reset") /\ UNCHANGED up
    /\ UNCHANGED <<setup, wanted, cfg, nic, rx, work, link, mbps, seen, hw, news>>

hw_reset ==
    /\ pc = "reset"
    /\ hw' = ResetRegisters
    /\ Goto("init")
    /\ UNCHANGED <<setup, up, service, wanted, cfg, nic, rx, work, link, mbps, seen, news>>

aq_nic_init ==
    /\ pc = "init"
    /\ hw' = hw_init(hw, cfg)
    /\ mbps' = 0 /\ news' = TRUE
    /\ Goto("count")
    /\ UNCHANGED <<setup, up, service, wanted, cfg, nic, rx, work, link, seen>>

StartCount ==
    /\ pc = "count"
    /\ held' = nic.count /\ pc' = "list" /\ UNCHANGED op
    /\ UNCHANGED <<setup, up, service, wanted, cfg, nic, rx, work, link, mbps, seen, hw, news>>

StartList ==
    /\ pc = "list"
    /\ hw_multicast_list_set(nic.ar, held)
    /\ held' = 0 /\ pc' = "filter" /\ UNCHANGED op
    /\ UNCHANGED <<setup, up, service, wanted, nic, rx, work, link, mbps, seen, news>>

StartFilter ==
    /\ pc = "filter"
    /\ hw_packet_filter_set(nic.packet_filter)
    /\ Goto("itr")
    /\ UNCHANGED <<setup, up, service, wanted, nic, rx, work, link, mbps, seen, news>>

\* The service work does not run yet: moderation is set at once.  After
\* dev_open the stack marks the interface up and calls set_rx_mode.
StartItr ==
    /\ pc = "itr"
    /\ cfg' = Shown(cfg.itr, cfg, mbps)
    /\ hw' = [hw EXCEPT !.itr = Timers(cfg.itr, cfg, mbps)]
    /\ service' = TRUE /\ up' = TRUE
    /\ IF op = "open"
       THEN rx' = [rx EXCEPT !.at = "flags"] /\ Goto("rx_mode")
       ELSE Goto("idle") /\ UNCHANGED rx
    /\ UNCHANGED <<setup, wanted, nic, work, link, mbps, seen, news>>

OpenEnd ==
    /\ pc = "rx_mode" /\ rx.at = "idle"
    /\ Goto("idle")
    /\ UNCHANGED <<setup, up, service, wanted, cfg, nic, rx, work, link, mbps, seen, hw, news>>

aq_nic_start == StartCount \/ StartList \/ StartFilter \/ StartItr

\* interrupt_moderation_set in set_coalesce, with the work beside it: read the
\* microseconds, then write the registers.
CoalesceRead ==
    /\ pc = "coalesce"
    /\ held' = Timers("on", cfg, mbps) /\ pc' = "coalesce_write" /\ UNCHANGED op
    /\ UNCHANGED <<setup, up, service, wanted, cfg, nic, rx, work, link, mbps, seen, hw, news>>

CoalesceWrite ==
    /\ pc = "coalesce_write"
    /\ hw' = [hw EXCEPT !.itr = held]
    /\ held' = 0 /\ pc' = "idle" /\ UNCHANGED op
    /\ UNCHANGED <<setup, up, service, wanted, cfg, nic, rx, work, link, mbps, seen, news>>

-----------------------------------------------------------------------------
(* The link and the service work. *)

\* External.
LinkChange ==
    /\ link' \in setup.links /\ link' # link
    /\ news' = TRUE
    /\ UNCHANGED <<setup, rtnl, up, service, wanted, cfg, nic, rx, work, mbps, seen, hw>>

\* Only a speed that differs from the last one counts as a change.
Look ==
    /\ service /\ work.at = "idle"
    /\ mbps' = link.mbps /\ news' = FALSE
    /\ work' = IF link.mbps # seen THEN [work EXCEPT !.at = "mode"] ELSE work
    /\ UNCHANGED <<setup, rtnl, up, service, wanted, cfg, nic, rx, link, seen, hw>>

WorkMode ==
    /\ work.at = "mode"
    /\ work' = [work EXCEPT !.at = "timers", !.itr = cfg.itr]
    /\ UNCHANGED <<setup, rtnl, up, service, wanted, cfg, nic, rx, link, mbps, seen, hw, news>>

WorkTimers ==
    /\ work.at = "timers"
    /\ cfg' = Shown(work.itr, cfg, mbps)
    /\ work' = [work EXCEPT !.at = "write", !.timers = Timers(work.itr, cfg, mbps)]
    /\ UNCHANGED <<setup, rtnl, up, service, wanted, nic, rx, link, mbps, seen, hw, news>>

WorkWrite ==
    /\ work.at = "write"
    /\ hw' = [hw EXCEPT !.itr = work.timers]
    /\ work' = [IdleWork EXCEPT !.at = "fc"]
    /\ UNCHANGED <<setup, rtnl, up, service, wanted, cfg, nic, rx, link, mbps, seen, news>>

\* A slip: the link's flow control is not taken over.
NoFc ==
    /\ work.at = "fc"
    /\ seen' = mbps
    /\ work' = IdleWork
    /\ UNCHANGED <<setup, rtnl, up, service, wanted, cfg, nic, rx, link, mbps, hw, news>>

\* get_flow_control asks the firmware, now.
WorkFc ==
    /\ work.at = "fc"
    /\ hw' = set_fc(hw, link.fc)
    /\ seen' = mbps
    /\ work' = IdleWork
    /\ UNCHANGED <<setup, rtnl, up, service, wanted, cfg, nic, rx, link, mbps, news>>

aq_nic_update_link_status == Look \/ WorkMode \/ WorkTimers \/ WorkWrite \/ WorkFc

-----------------------------------------------------------------------------

\* Which settings two threads have written at once since one alone wrote them:
\*   "rx"   set_rx_mode ran between start's reading mc_list.count and using it;
\*   "itr"  set_coalesce came while the work held an older mode or timers;
\*   "link" the link went and came, or the device was reset, and the work
\*          found the speed it had found before.
Crossing ==
    crossed' =
      {x \in {"rx", "itr", "link"} :
        CASE x = "rx" ->
               \/ pc' = "list" /\ rx'.at # "idle"
               \/ x \in crossed /\ rx'.at # "flags" /\ pc' # "count"
          [] x = "itr" ->
               \/ pc = "idle" /\ pc' = "coalesce" /\ work.at \in {"timers", "write"}
               \/ x \in crossed /\ ~(pc = "idle" /\ pc' = "coalesce")
                                 /\ ~(pc = "idle" /\ work'.at = "mode") /\ pc' # "itr"
          [] x = "link" ->
               \/ news /\ ~news' /\ work'.at = "idle"
               \/ x \in crossed /\ work'.at # "mode"}

Stack == aq_ndev_set_multicast_settings \/ ChangeDown
Rtnl ==
    \/ aq_ndev_open \/ aq_ndev_close \/ aq_ndev_set_features
    \/ aq_ndev_set_mac_address \/ aq_ethtool_set_rss \/ aq_ethtool_set_pauseparam
    \/ aq_ethtool_set_coalesce \/ CoalesceRead \/ CoalesceWrite
    \/ aq_nic_stop \/ hw_reset \/ aq_nic_init \/ aq_nic_start \/ OpenEnd

Next == (Stack \/ Rtnl \/ LinkChange \/ aq_nic_update_link_status) /\ Crossing

Spec == Init /\ [][Next]_vars

-----------------------------------------------------------------------------
(* Properties. *)

Modes == {"off", "on", "auto"}
Addrs == Macs \cup Unicast \cup Multicast \cup {NoAddr}
ItrType == [on : BOOLEAN, tx : Nat \X Nat, rx : Nat \X Nat]
CfgType ==
    [mac : Macs, features : SUBSET Features, is_lro : BOOLEAN, is_vlan_rx_strip : BOOLEAN,
     flow_control : BOOLEAN, itr : Modes, tx_itr : Nat, rx_itr : Nat, table : Tables,
     key : Keys, mc_list_count : 0 .. ListMax, is_mc_list_enabled : BOOLEAN]
HwType ==
    [mac : Addrs, rxcsum : BOOLEAN, lro : BOOLEAN, strip : BOOLEAN, fc : BOOLEAN,
     redir : SUBSET Nat, key : Keys \cup {NoKey}, itr : ItrType, promisc : BOOLEAN,
     allmulti : BOOLEAN, addr : [Slots -> Addrs], on : [Slots -> BOOLEAN]]

TypeOK ==
    /\ setup \in Setups
    /\ pc \in {"idle", "stop", "reset", "init", "count", "list", "filter", "itr", "rx_mode",
              "coalesce", "coalesce_write"}
    /\ op \in {"none", "open", "close", "restart"}
    /\ pc = "list" => held \in 0 .. ListMax
    /\ pc = "coalesce_write" => held \in ItrType
    /\ {up, service, news} \subseteq BOOLEAN
    /\ wanted \in [uc : SUBSET Unicast, mc : SUBSET Multicast, flags : SUBSET Flags]
    /\ cfg \in CfgType /\ hw \in HwType
    /\ nic \in [packet_filter : SUBSET Flags, ar : [Slots -> Addrs], count : 0 .. ListMax]
    /\ rx \in [at : {"idle", "flags", "clear", "fill", "list", "filter"}, filter : SUBSET Flags]
    /\ work \in [at : {"idle", "mode", "timers", "write", "fc"}, itr : Modes, timers : ItrType]
    /\ link \in [mbps : Mbps, fc : BOOLEAN] /\ {mbps, seen} \subseteq Mbps
    /\ crossed \subseteq {"rx", "itr", "link"}

AtRest == up /\ pc = "idle"

\* The queue the device picks for entry i of the indirection table.
Redirect(i) ==
    LET bit(b) == IF 3 * i + b \in hw.redir THEN 2^b ELSE 0
    IN bit(0) + bit(1) + bit(2)

\* While the interface is up and no operation is under way the registers say
\* what was asked for, whatever calls, resets and link changes led here: the
\* interface's address, checksums, LRO, tag stripping, the RSS key, for every
\* entry of the indirection table the queue asked for, and the moderation
\* ethtool shows; and once the work has looked at a link that is up, the flow
\* control agreed on it and the moderation table for its speed.  The only ways
\* to lose a setting are the races named in crossed.
InForce ==
    AtRest =>
      /\ hw.mac = cfg.mac
      /\ hw.rxcsum = ("rxcsum" \in cfg.features)
      /\ hw.lro = cfg.is_lro /\ hw.strip = cfg.is_vlan_rx_strip
      /\ RssQueues > 1 => hw.key = cfg.key
      /\ \A i \in 0 .. RssSize - 1 : Redirect(i) = cfg.table[i]
      /\ work.at = "idle" /\ "itr" \notin crossed /\ cfg.itr # "auto" =>
            hw.itr = Timers(cfg.itr, cfg, mbps)
      /\ work.at = "idle" /\ ~news /\ link.mbps # 0 /\ "link" \notin crossed =>
            /\ hw.fc = link.fc
            /\ cfg.itr = "auto" => hw.itr = Timers("auto", cfg, link.mbps)

Accepts(a) ==
    \/ hw.promisc
    \/ a \in Multicast /\ hw.allmulti
    \/ a = hw.mac
    \/ \E i \in Slots : hw.on[i] /\ hw.addr[i] = a

\* The device takes in what the stack listens to: after every set_rx_mode,
\* open and restart, each address of the stack's lists and the interface's own
\* pass the filters, also when the lists do not fit, and promiscuous mode is on
\* if asked for.  Only a set_rx_mode inside aq_nic_start can undo it.
RxCovers ==
    AtRest /\ rx.at = "idle" /\ "rx" \notin crossed =>
      /\ \A a \in wanted.uc \cup wanted.mc \cup {cfg.mac} : Accepts(a)
      /\ "promisc" \in wanted.flags => hw.promisc
      /\ "allmulti" \in wanted.flags => hw.allmulti

=============================================================================

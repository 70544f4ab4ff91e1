-------------------------- MODULE NicConfigProofs --------------------------
(***************************************************************************)
(* Theorems about the settings: the registers say what was asked for, and  *)
(* the filters take in what the stack listens to, for any lists, tables    *)
(* and number of filters.                                                  *)
(***************************************************************************)
EXTENDS NicConfig, FiniteSetTheorems, FunctionTheorems, TLAPS

-----------------------------------------------------------------------------
(* Values. *)

\* Moderation timers are pairs of numbers, at any speed and in any mode.
LEMMA TimersType ==
    ASSUME NEW mode \in Modes, NEW c \in CfgType, NEW m \in Mbps
    PROVE  Timers(mode, c, m) \in ItrType
<1>1. \A u \in Nat : UserTimers(u) \in Nat \X Nat
  BY DEF UserTimers, Least
<1>2. speed_index(m) \in {0, 1, 3, 4, 5}
  BY DEF speed_index, Mbps
<1>3. AutoTx(speed_index(m)) \in Nat \X Nat /\ AutoRx(speed_index(m)) \in Nat \X Nat
  BY <1>2 DEF AutoTx, AutoRx
<1>4. c.tx_itr \in Nat /\ c.rx_itr \in Nat
  BY DEF CfgType
<1> QED BY <1>1, <1>3, <1>4 DEF Timers, ItrType, ResetRegisters, Modes

\* What the tables show replaces the user's microseconds in automatic mode
\* only; the timers do not depend on it.
LEMMA ShownType ==
    ASSUME NEW mode \in Modes, NEW c \in CfgType, NEW m \in Mbps
    PROVE  /\ Shown(mode, c, m) \in CfgType
           /\ mode # "auto" => Shown(mode, c, m) = c
           /\ \A x \in Mbps : Timers(mode, Shown(mode, c, m), x) = Timers(mode, c, x)
           /\ Shown(mode, c, m) = [c EXCEPT !.tx_itr = Shown(mode, c, m).tx_itr,
                                            !.rx_itr = Shown(mode, c, m).rx_itr]
<1>1. mode # "auto" => Shown(mode, c, m) = c
  BY DEF Shown
<1>2. speed_index(m) \in {0, 1, 3, 4, 5}
  BY DEF speed_index, Mbps
<1>3. 2 * AutoTx(speed_index(m))[2] \in Nat /\ 2 * AutoRx(speed_index(m))[2] \in Nat
  BY <1>2 DEF AutoTx, AutoRx
<1>4. PICK a \in Nat, b \in Nat :
          mode = "auto" => Shown(mode, c, m) = [c EXCEPT !.tx_itr = a, !.rx_itr = b]
  <2>1. mode = "auto" =>
          Shown(mode, c, m) = [c EXCEPT !.tx_itr = 2 * AutoTx(speed_index(m))[2],
                                        !.rx_itr = 2 * AutoRx(speed_index(m))[2]]
    BY DEF Shown
  <2> QED BY <1>3, <2>1
<1>5. mode = "auto" => \A x \in Mbps : Timers(mode, Shown(mode, c, m), x) = Timers(mode, c, x)
  BY DEF Timers
<1>6. Shown(mode, c, m) \in CfgType
  BY <1>1, <1>4 DEF CfgType
<1>7. Shown(mode, c, m) = [c EXCEPT !.tx_itr = Shown(mode, c, m).tx_itr,
                                    !.rx_itr = Shown(mode, c, m).rx_itr]
  BY <1>1, <1>4 DEF CfgType
<1> QED BY <1>1, <1>5, <1>6, <1>7

LEMMA ShownTimers ==
    ASSUME NEW mode \in Modes, NEW c \in CfgType, NEW m \in Mbps, NEW d, d = Shown(mode, c, m)
    PROVE  /\ d.itr = c.itr /\ Timers(mode, d, m) = Timers(mode, c, m)
           /\ mode # "auto" => d = c
<1>1. d = [c EXCEPT !.tx_itr = d.tx_itr, !.rx_itr = d.rx_itr]
  BY ShownType
<1>2. d.itr = c.itr
  BY <1>1 DEF CfgType
<1>3. mode # "auto" => d = c
  BY DEF Shown
<1>4. mode = "auto" => Timers(mode, d, m) = Timers(mode, c, m)
  BY DEF Timers
<1> QED BY <1>2, <1>3, <1>4

\* Bit b of an entry is bit 3 * i + b of the table.
LEMMA Redirected ==
    ASSUME NEW t \in Tables, hw.redir = RssBits(t), NEW i \in 0 .. RssSize - 1
    PROVE  Redirect(i) = t[i]
<1>1. RssSize \in Nat /\ RssQueues \in 1 .. 8 /\ t[i] \in 0 .. 7 /\ t[i] < RssQueues
  BY ConfigAssumption DEF Tables
<1>2. t[i] % RssQueues = t[i]
  BY <1>1
<1>3. ASSUME NEW b \in 0 .. 2
      PROVE  3 * i + b \in hw.redir <=> (t[i] \div 2^b) % 2 = 1
  <2>1. (3 * i + b) \div 3 = i /\ (3 * i + b) % 3 = b /\ 3 * i + b \in 0 .. 3 * RssSize - 1
    BY <1>1
  <2> QED BY <1>2, <2>1 DEF RssBits
<1>4. 2^0 = 1 /\ 2^1 = 2 /\ 2^2 = 4
  BY SMT
<1>5. /\ 3 * i + 0 \in hw.redir <=> (t[i] \div 1) % 2 = 1
      /\ 3 * i + 1 \in hw.redir <=> (t[i] \div 2) % 2 = 1
      /\ 3 * i + 2 \in hw.redir <=> (t[i] \div 4) % 2 = 1
  BY <1>3, <1>4
<1>6. Redirect(i) = (IF (t[i] \div 1) % 2 = 1 THEN 1 ELSE 0)
                    + (IF (t[i] \div 2) % 2 = 1 THEN 2 ELSE 0)
                    + (IF (t[i] \div 4) % 2 = 1 THEN 4 ELSE 0)
  BY <1>4, <1>5 DEF Redirect
<1> QED BY <1>1, <1>6

\* The addresses of a finite set, as a sequence.
LEMMA Sequenced ==
    ASSUME NEW S, IsFiniteSet(S)
    PROVE  /\ SetToSeq(S) \in Seq(S)
           /\ Len(SetToSeq(S)) = Cardinality(S) /\ Cardinality(S) \in Nat
           /\ \A a \in S : \E i \in 1 .. Cardinality(S) : SetToSeq(S)[i] = a
<1> DEFINE n == Cardinality(S)
           f == SetToSeq(S)
<1>1. n \in Nat /\ \E g : g \in Bijection(1 .. n, S)
  BY FS_CardinalityType DEF ExistsBijection
<1>2. PICK g : g \in Bijection(1 .. n, S)
  BY <1>1
<1>3. g \in [1 .. n -> S] /\ IsInjective(g)
  BY <1>2 DEF Bijection, Injection, Surjection, IsInjective
<1>4. f \in [1 .. n -> S] /\ IsInjective(f)
  BY <1>3 DEF SetToSeq
<1> HIDE DEF f
<1>5. ASSUME NEW a \in S, \A i \in 1 .. n : f[i] # a PROVE FALSE
  <2> DEFINE T == S \ {a}
  <2>1. IsFiniteSet(T) /\ Cardinality(T) = n - 1
    BY FS_RemoveElement
  <2>2. IsFiniteSet(1 .. n) /\ Cardinality(1 .. n) = n
    BY <1>1, FS_Interval
  <2>3. f \in [1 .. n -> T]
    BY <1>4, <1>5
  <2>4. \E i, j \in 1 .. n : i # j /\ f[i] = f[j]
    <3>1. Cardinality(1 .. n) > Cardinality(T)
      BY <1>1, <2>1, <2>2
    <3> HIDE DEF T
    <3> QED BY <2>1, <2>2, <2>3, <3>1, FS_PigeonHole
  <2> QED BY <1>4, <2>4 DEF IsInjective
<1>6. f \in Seq(S) /\ Len(f) = n
  BY <1>1, <1>4
<1> QED BY <1>1, <1>5, <1>6 DEF f

\* One list after the other.
LEMMA Joined ==
    ASSUME NEW S, NEW s \in Seq(S), NEW t \in Seq(S)
    PROVE  /\ s \o t \in Seq(S) /\ Len(s \o t) = Len(s) + Len(t)
           /\ Len(s) \in Nat /\ Len(t) \in Nat
           /\ \A i \in 1 .. Len(s) : (s \o t)[i] = s[i]
           /\ \A i \in 1 .. Len(t) : (s \o t)[Len(s) + i] = t[i]
  OBVIOUS

\* What set_rx_mode makes of the stack's lists: every address is in the list,
\* or the mode that takes its place is asked for.
LEMMA Filled ==
    ASSUME NEW w, w.uc \in SUBSET Unicast, w.mc \in SUBSET Multicast,
           IsFiniteSet(w.uc), IsFiniteSet(w.mc), NEW f, f = Fill(w)
    PROVE  /\ f.list \in Seq(Addrs) /\ Len(f.list) \in 0 .. ListMax
           /\ f.more \subseteq {"promisc", "allmulti"}
           /\ \A a \in w.uc \cup w.mc :
                 \/ "promisc" \in f.more
                 \/ a \in w.mc /\ "allmulti" \in f.more
                 \/ \E i \in 1 .. Len(f.list) : f.list[i] = a
<1> DEFINE uc == IF Cardinality(w.uc) > ListMax THEN {} ELSE w.uc
           mc == IF Cardinality(uc) + Cardinality(w.mc) > ListMax THEN {} ELSE w.mc
           su == SetToSeq(uc)
           sm == SetToSeq(mc)
<1>1. /\ f.list = su \o sm
      /\ f.more = (IF uc = w.uc THEN {} ELSE {"promisc"})
                    \cup (IF mc = w.mc THEN {} ELSE {"allmulti"})
  BY DEF Fill
<1>2. ListMax \in Nat /\ Cardinality({}) = 0 /\ IsFiniteSet({})
  BY ConfigAssumption, FS_EmptySet
<1>3. Cardinality(w.uc) \in Nat /\ Cardinality(w.mc) \in Nat
  BY FS_CardinalityType
<1>4. IsFiniteSet(uc) /\ Cardinality(uc) \in Nat /\ Cardinality(uc) <= ListMax /\ uc \subseteq Addrs
  BY <1>2, <1>3 DEF Addrs
<1> HIDE DEF uc
<1>5. IsFiniteSet(mc) /\ Cardinality(uc) + Cardinality(mc) <= ListMax /\ mc \subseteq Addrs
  BY <1>2, <1>3, <1>4 DEF Addrs
<1>6. uc \in {w.uc, {}} /\ mc \in {w.mc, {}}
  BY DEF uc
<1> HIDE DEF mc
<1>7. /\ su \in Seq(Addrs) /\ Len(su) = Cardinality(uc)
      /\ \A a \in uc : \E i \in 1 .. Len(su) : su[i] = a
  <2>1. su \in Seq(uc)
    BY <1>4, Sequenced
  <2>2. su \in Seq(Addrs)
    BY <1>4, <2>1
  <2>3. Len(su) = Cardinality(uc) /\ \A a \in uc : \E i \in 1 .. Cardinality(uc) : su[i] = a
    BY <1>4, Sequenced
  <2> QED BY <2>2, <2>3
<1>8. /\ sm \in Seq(Addrs) /\ Len(sm) = Cardinality(mc)
      /\ \A a \in mc : \E i \in 1 .. Len(sm) : sm[i] = a
  <2>1. sm \in Seq(mc)
    BY <1>5, Sequenced
  <2>2. sm \in Seq(Addrs)
    BY <1>5, <2>1
  <2>3. Len(sm) = Cardinality(mc) /\ \A a \in mc : \E i \in 1 .. Cardinality(mc) : sm[i] = a
    BY <1>5, Sequenced
  <2> QED BY <2>2, <2>3
<1> HIDE DEF su, sm
<1>9. /\ f.list \in Seq(Addrs) /\ Len(f.list) = Len(su) + Len(sm)
      /\ \A i \in 1 .. Len(su) : f.list[i] = su[i]
      /\ \A i \in 1 .. Len(sm) : f.list[Len(su) + i] = sm[i]
      /\ Len(su) \in Nat /\ Len(sm) \in Nat
  <2>1. su \in Seq(Addrs) /\ sm \in Seq(Addrs)
    BY <1>7, <1>8
  <2>2. /\ su \o sm \in Seq(Addrs) /\ Len(su \o sm) = Len(su) + Len(sm)
        /\ \A i \in 1 .. Len(su) : (su \o sm)[i] = su[i]
        /\ \A i \in 1 .. Len(sm) : (su \o sm)[Len(su) + i] = sm[i]
        /\ Len(su) \in Nat /\ Len(sm) \in Nat
    BY <2>1, Joined
  <2> QED BY <1>1, <2>2, Zenon
<1>10. Len(su) \in Nat /\ Len(sm) \in Nat /\ Len(f.list) \in 0 .. ListMax
  BY <1>2, <1>5, <1>7, <1>8, <1>9
<1>11. ASSUME NEW a \in uc \cup mc PROVE \E i \in 1 .. Len(f.list) : f.list[i] = a
  <2>1. CASE a \in uc
    <3>1. PICK i \in 1 .. Len(su) : su[i] = a
      BY <1>7, <2>1
    <3>2. i \in 1 .. Len(f.list) /\ f.list[i] = a
      BY <1>9, <1>10, <3>1
    <3> QED BY <3>2
  <2>2. CASE a \in mc
    <3>1. PICK i \in 1 .. Len(sm) : sm[i] = a
      BY <1>8, <2>2
    <3>2. Len(su) + i \in 1 .. Len(f.list) /\ f.list[Len(su) + i] = a
      BY <1>9, <1>10, <3>1
    <3> QED BY <3>2
  <2> QED BY <2>1, <2>2
<1>12. f.more \subseteq {"promisc", "allmulti"}
  BY <1>1
<1>13. ASSUME NEW a \in w.uc \cup w.mc
       PROVE  \/ "promisc" \in f.more
              \/ a \in w.mc /\ "allmulti" \in f.more
              \/ \E i \in 1 .. Len(f.list) : f.list[i] = a
  BY <1>1, <1>11
<1> QED BY <1>9, <1>10, <1>12, <1>13

-----------------------------------------------------------------------------
(* Types. *)

\* What the hardware layer makes of the registers.
LEMMA ListSetType ==
    ASSUME cfg \in CfgType, hw \in HwType, NEW ar \in [Slots -> Addrs], NEW n \in 0 .. ListMax,
           hw_multicast_list_set(ar, n)
    PROVE  cfg' \in CfgType /\ hw' \in HwType
<1> DEFINE ad == [i \in Slots |-> IF i <= n THEN ar[i] ELSE hw.addr[i]]
           on == [i \in Slots |-> IF i <= n THEN cfg.is_mc_list_enabled ELSE hw.on[i]]
<1>1. ad \in [Slots -> Addrs] /\ on \in [Slots -> BOOLEAN]
  BY DEF CfgType, HwType
<1>2. hw' = [hw EXCEPT !.addr = ad, !.on = on] /\ cfg' = [cfg EXCEPT !.mc_list_count = n]
  BY DEF hw_multicast_list_set
<1> HIDE DEF ad, on
<1>3. hw' \in HwType
  BY <1>1, <1>2 DEF HwType
<1>4. cfg' \in CfgType
  BY <1>2 DEF CfgType
<1> QED BY <1>3, <1>4

LEMMA FilterSetType ==
    ASSUME cfg \in CfgType, hw \in HwType, NEW f, hw_packet_filter_set(f)
    PROVE  cfg' \in CfgType /\ hw' \in HwType
<1> DEFINE on == [i \in Slots |-> "multicast" \in f /\ i <= cfg.mc_list_count]
           pr == "promisc" \in f
           al == "allmulti" \in f
           mu == "multicast" \in f
<1>1. on \in [Slots -> BOOLEAN] /\ {pr, al, mu} \subseteq BOOLEAN
  OBVIOUS
<1>2. /\ hw' = [hw EXCEPT !.promisc = pr, !.allmulti = al, !.on = on]
      /\ cfg' = [cfg EXCEPT !.is_mc_list_enabled = mu]
  BY DEF hw_packet_filter_set
<1> HIDE DEF on, pr, al, mu
<1>3. hw' \in HwType
  BY <1>1, <1>2 DEF HwType
<1>4. cfg' \in CfgType
  BY <1>1, <1>2 DEF CfgType
<1> QED BY <1>3, <1>4

LEMMA ResetType ==
    ResetRegisters \in HwType /\ ResetRegisters.itr \in ItrType
<1>1. NoAddr \in Addrs /\ {} \in SUBSET Nat
  BY DEF Addrs
<1> QED BY <1>1 DEF ResetRegisters, HwType, ItrType

LEMMA BitsType == \A t : RssBits(t) \in SUBSET Nat
  BY ConfigAssumption DEF RssBits

LEMMA InitRegsType ==
    ASSUME NEW h \in HwType, NEW c \in CfgType
    PROVE  /\ hw_init(h, c) \in HwType
           /\ hw_init(h, c) = [h EXCEPT !.on = [i \in Slots |-> FALSE], !.mac = c.mac,
                                        !.fc = c.flow_control, !.redir = RssBits(c.table),
                                        !.key = IF RssQueues > 1 THEN c.key ELSE NoKey,
                                        !.rxcsum = "rxcsum" \in c.features, !.lro = c.is_lro,
                                        !.strip = c.is_vlan_rx_strip]
<1> DEFINE on == [i \in Slots |-> FALSE]
           bits == RssBits(c.table)
           key == IF RssQueues > 1 THEN c.key ELSE NoKey
           cs == "rxcsum" \in c.features
<1>1. on \in [Slots -> BOOLEAN] /\ bits \in SUBSET Nat /\ key \in Keys \cup {NoKey}
  BY BitsType DEF CfgType
<1>2. hw_init(h, c) = [[[[[[[[h EXCEPT !.on = on] EXCEPT !.mac = c.mac]
                             EXCEPT !.fc = c.flow_control] EXCEPT !.redir = bits]
                             EXCEPT !.key = key]
                             EXCEPT !.rxcsum = cs, !.lro = c.is_lro]
                             EXCEPT !.strip = c.is_vlan_rx_strip] EXCEPT !.strip = c.is_vlan_rx_strip]
  BY DEF hw_init, hw_offload_set, hw_rss_hash_set, hw_rss_set, set_fc, hw_mac_addr_set,
         hw_init_rx_path
<1>3. c.mac \in Addrs /\ {cs, c.flow_control, c.is_lro, c.is_vlan_rx_strip} \subseteq BOOLEAN
  BY DEF CfgType, Addrs
<1> HIDE DEF on, bits, key, cs
<1>4. hw_init(h, c) = [h EXCEPT !.on = on, !.mac = c.mac, !.fc = c.flow_control, !.redir = bits,
                                !.key = key, !.rxcsum = cs,
                                !.lro = c.is_lro, !.strip = c.is_vlan_rx_strip]
  BY <1>2 DEF HwType
<1>5. hw_init(h, c) \in HwType
  BY <1>1, <1>3, <1>4 DEF HwType
<1> QED BY <1>4, <1>5 DEF on, bits, key, cs

\* Every step but for the ghost crossed.
Step == Stack \/ Rtnl \/ LinkChange \/ aq_nic_update_link_status

LEMMA CrossingType == Crossing => crossed' \subseteq {"rx", "itr", "link"}
  BY DEF Crossing

LEMMA StackType ==
    ASSUME TypeOK, Stack, Crossing, IsFiniteSet(wanted.uc), IsFiniteSet(wanted.mc)
    PROVE  TypeOK'
<1> USE CrossingType DEF TypeOK
<1>1. CASE ChangeDown \/ Change
  <2>1. setup.wanted \subseteq [uc : SUBSET Unicast, mc : SUBSET Multicast, flags : SUBSET Flags]
    BY ConfigAssumption
  <2> QED BY <1>1, <2>1 DEF ChangeDown, Change, Want, rtnl
<1>2. CASE RxFlags
  <2>1. cfg' \in CfgType /\ hw' \in HwType
    BY <1>2, FilterSetType DEF RxFlags, aq_nic_set_packet_filter
  <2> QED BY <1>2, <2>1 DEF RxFlags, aq_nic_set_packet_filter, rtnl
<1>3. CASE RxClear
  BY <1>3, ConfigAssumption DEF RxClear, rtnl
<1>4. CASE RxFill
  <2> DEFINE f == Fill(wanted)
             n == Len(f.list)
             ar == [i \in Slots |-> IF i <= n THEN f.list[i] ELSE nic.ar[i]]
  <2>1. f.list \in Seq(Addrs) /\ n \in 0 .. ListMax /\ f.more \subseteq {"promisc", "allmulti"}
    BY Filled
  <2>2. ar \in [Slots -> Addrs]
    <3> SUFFICES ASSUME NEW i \in Slots, i <= n PROVE f.list[i] \in Addrs
      OBVIOUS
    <3> HIDE DEF f
    <3> QED BY <2>1 DEF Slots
  <2>3. /\ nic' = [nic EXCEPT !.ar = ar, !.count = n]
        /\ rx' = IF n > 0
                 THEN [at |-> "list", filter |-> rx.filter \cup f.more \cup {"multicast"}]
                 ELSE [at |-> "filter", filter |-> rx.filter \cup f.more]
        /\ UNCHANGED <<setup, rtnl, up, service, wanted, cfg, work, link, mbps, seen, hw, news>>
    BY <1>4 DEF RxFill
  <2>4. rx.filter \cup f.more \in SUBSET Flags /\ "multicast" \in Flags
    BY <2>1 DEF Flags
  <2> HIDE DEF f, n, ar
  <2>5. nic' \in [packet_filter : SUBSET Flags, ar : [Slots -> Addrs], count : 0 .. ListMax]
    <3>1. nic \in [packet_filter : SUBSET Flags, ar : [Slots -> Addrs], count : 0 .. ListMax]
      OBVIOUS
    <3> HIDE DEF TypeOK
    <3> QED BY <2>1, <2>2, <2>3, <3>1
  <2>6. rx' \in [at : {"list", "filter"}, filter : SUBSET Flags]
    <3> HIDE DEF TypeOK
    <3> QED BY <2>3, <2>4
  <2> QED BY <2>3, <2>5, <2>6 DEF rtnl
<1>5. CASE RxList
  <2>1. cfg' \in CfgType /\ hw' \in HwType
    BY <1>5, ListSetType DEF RxList
  <2> QED BY <1>5, <2>1 DEF RxList, rtnl
<1>6. CASE RxFilter
  <2>1. cfg' \in CfgType /\ hw' \in HwType
    BY <1>6, FilterSetType DEF RxFilter, aq_nic_set_packet_filter
  <2> QED BY <1>6, <2>1 DEF RxFilter, aq_nic_set_packet_filter, rtnl
<1> QED BY <1>1, <1>2, <1>3, <1>4, <1>5, <1>6
        DEF Stack, aq_ndev_set_multicast_settings, aq_nic_set_multicast_list

LEMMA WorkType ==
    ASSUME TypeOK, LinkChange \/ aq_nic_update_link_status, Crossing
    PROVE  TypeOK'
<1> USE CrossingType DEF TypeOK
<1>0. IdleWork \in [at : {"idle"}, itr : Modes, timers : ItrType]
  BY ResetType DEF IdleWork, Modes
<1>1. CASE LinkChange
  <2>1. setup.links \subseteq [mbps : Mbps, fc : BOOLEAN]
    BY ConfigAssumption
  <2>2. link' \in [mbps : Mbps, fc : BOOLEAN] /\ news' \in BOOLEAN
    BY <1>1, <2>1 DEF LinkChange
  <2> QED BY <1>1, <2>2 DEF LinkChange, rtnl
<1> DEFINE WorkRec == [at : {"idle", "mode", "timers", "write", "fc"}, itr : Modes, timers : ItrType]
<1>w. work \in WorkRec
  OBVIOUS
<1>2. CASE Look
  <2>1. work' \in WorkRec
    <3> HIDE DEF TypeOK
    <3> QED BY <1>w, <1>2 DEF Look
  <2>2. mbps' \in Mbps /\ news' \in BOOLEAN
    BY <1>2 DEF Look
  <2> QED BY <1>2, <2>1, <2>2 DEF Look, rtnl
<1>3. CASE WorkMode
  <2>1. cfg.itr \in Modes
    BY DEF CfgType
  <2>2. work' \in WorkRec
    <3> HIDE DEF TypeOK
    <3> QED BY <1>w, <1>3, <2>1 DEF WorkMode
  <2> QED BY <1>3, <2>2 DEF WorkMode, rtnl
<1>4. CASE WorkTimers
  <2>1. Timers(work.itr, cfg, mbps) \in ItrType /\ Shown(work.itr, cfg, mbps) \in CfgType
    BY TimersType, ShownType
  <2>2. work' \in WorkRec /\ cfg' \in CfgType
    <3> HIDE DEF TypeOK
    <3> QED BY <1>w, <1>4, <2>1 DEF WorkTimers
  <2> QED BY <1>4, <2>2 DEF WorkTimers, rtnl
<1>5. CASE WorkWrite
  <2>1. hw' \in HwType
    BY <1>5 DEF WorkWrite, HwType
  <2>2. work' \in [at : {"fc"}, itr : Modes, timers : ItrType]
    BY <1>0, <1>5 DEF WorkWrite
  <2> QED BY <1>5, <2>1, <2>2 DEF WorkWrite, rtnl
<1>6. CASE WorkFc
  <2>1. hw' \in HwType
    BY <1>6 DEF WorkFc, set_fc, HwType
  <2> QED BY <1>0, <1>6, <2>1 DEF WorkFc, rtnl
<1> QED BY <1>1, <1>2, <1>3, <1>4, <1>5, <1>6 DEF aq_nic_update_link_status

LEMMA SettingType ==
    ASSUME TypeOK, Crossing,
           \/ aq_ndev_set_features \/ aq_ndev_set_mac_address \/ aq_ethtool_set_rss
           \/ aq_ethtool_set_pauseparam \/ aq_ethtool_set_coalesce
           \/ CoalesceRead \/ CoalesceWrite
    PROVE  TypeOK'
<1> USE CrossingType DEF TypeOK
<1>1. CASE aq_ndev_set_features
  <2>1. PICK f \in setup.features :
          LET c == [cfg EXCEPT !.features = f, !.is_lro = "lro" \in f,
                               !.is_vlan_rx_strip = "vlan_rx" \in f]
          IN /\ cfg' = c
             /\ hw' = IF ("rxcsum" \in f) # ("rxcsum" \in cfg.features)
                      THEN hw_offload_set(hw, c) ELSE hw
             /\ \/ pc' = "stop" /\ op' = "restart" /\ UNCHANGED held
                \/ UNCHANGED rtnl
    BY <1>1 DEF aq_ndev_set_features
  <2> DEFINE lro == "lro" \in f
             tag == "vlan_rx" \in f
             csum == "rxcsum" \in f
  <2>2. f \in SUBSET Features /\ {lro, tag, csum} \subseteq BOOLEAN
    BY ConfigAssumption
  <2>3. /\ cfg' = [cfg EXCEPT !.features = f, !.is_lro = lro, !.is_vlan_rx_strip = tag]
        /\ hw' \in {hw, hw_offload_set(hw, cfg')}
    BY <2>1
  <2>a. cfg'.features = f
    BY <2>3 DEF CfgType
  <2>b. hw' \in {hw, [hw EXCEPT !.rxcsum = csum, !.lro = cfg'.is_lro]}
    BY <2>3, <2>a DEF hw_offload_set
  <2> HIDE DEF lro, tag, csum
  <2>4. cfg' \in CfgType /\ cfg'.is_lro = lro
    BY <2>2, <2>3 DEF CfgType
  <2>c. hw' \in {hw, [hw EXCEPT !.rxcsum = csum, !.lro = lro]}
    BY <2>b, <2>4
  <2>5. hw' \in HwType
    <3>1. csum \in BOOLEAN /\ lro \in BOOLEAN /\ hw \in HwType
      BY <2>2
    <3>2. [hw EXCEPT !.rxcsum = csum, !.lro = lro] \in HwType
      BY <3>1 DEF HwType
    <3> QED BY <2>c, <3>1, <3>2
  <2> QED BY <1>1, <2>1, <2>4, <2>5 DEF aq_ndev_set_features, rtnl, Idle
<1>2. CASE aq_ndev_set_mac_address
  <2>1. PICK m \in setup.macs : cfg' = [cfg EXCEPT !.mac = m] /\ hw' = [hw EXCEPT !.mac = m]
    BY <1>2 DEF aq_ndev_set_mac_address, hw_mac_addr_set
  <2>2. m \in Macs /\ m \in Addrs
    BY ConfigAssumption DEF Addrs
  <2>3. cfg' \in CfgType /\ hw' \in HwType
    BY <2>1, <2>2 DEF CfgType, HwType
  <2> QED BY <1>2, <2>3 DEF aq_ndev_set_mac_address, rtnl
<1>3. CASE aq_ethtool_set_rss
  <2>1. PICK t \in setup.tables \cup {cfg.table}, k \in setup.keys :
          /\ cfg' = [cfg EXCEPT !.table = t, !.key = k]
          /\ hw' = hw_rss_set(IF k = cfg.key THEN hw ELSE hw_rss_hash_set(hw, cfg'), cfg')
    BY <1>3 DEF aq_ethtool_set_rss
  <2>2. t \in Tables /\ k \in Keys
    BY ConfigAssumption DEF CfgType
  <2>3. cfg' \in CfgType
    BY <2>1, <2>2 DEF CfgType
  <2>4. cfg'.key \in Keys /\ RssBits(cfg'.table) \in SUBSET Nat
    BY <2>3, BitsType DEF CfgType
  <2>5. hw' \in HwType
    BY <2>1, <2>4 DEF hw_rss_set, hw_rss_hash_set, HwType
  <2>6. UNCHANGED <<setup, rtnl, up, service, wanted, nic, rx, work, link, mbps, seen, news>>
    BY <1>3 DEF aq_ethtool_set_rss
  <2> QED BY <2>3, <2>5, <2>6 DEF rtnl
<1>4. CASE aq_ethtool_set_pauseparam
  <2>1. setup.pause \subseteq BOOLEAN
    BY ConfigAssumption
  <2>2. cfg' \in CfgType
    BY <1>4, <2>1 DEF aq_ethtool_set_pauseparam, CfgType
  <2> QED BY <1>4, <2>2 DEF aq_ethtool_set_pauseparam, rtnl
<1>5. CASE aq_ethtool_set_coalesce
  <2>1. PICK c \in setup.coalesce : cfg' = [cfg EXCEPT !.itr = "on", !.rx_itr = c.rx, !.tx_itr = c.tx]
    BY <1>5 DEF aq_ethtool_set_coalesce
  <2>2. c.rx \in Nat /\ c.tx \in Nat /\ "on" \in Modes
    BY ConfigAssumption DEF Modes
  <2>3. cfg' \in CfgType
    BY <2>1, <2>2 DEF CfgType
  <2> QED BY <1>5, <2>3 DEF aq_ethtool_set_coalesce
<1>6. CASE CoalesceRead
  <2>1. Timers("on", cfg, mbps) \in ItrType
    BY TimersType DEF Modes
  <2> QED BY <1>6, <2>1 DEF CoalesceRead
<1>7. CASE CoalesceWrite
  <2>1. hw' \in HwType
    BY <1>7 DEF CoalesceWrite, HwType
  <2> QED BY <1>7, <2>1 DEF CoalesceWrite
<1> QED BY <1>1, <1>2, <1>3, <1>4, <1>5, <1>6, <1>7

LEMMA LifeType ==
    ASSUME TypeOK, Crossing,
           \/ aq_ndev_open \/ aq_ndev_close \/ aq_nic_stop \/ hw_reset \/ aq_nic_init
           \/ aq_nic_start \/ OpenEnd
    PROVE  TypeOK'
<1> USE CrossingType DEF TypeOK, Goto
<1>1. CASE aq_ndev_open \/ aq_ndev_close \/ OpenEnd
  BY <1>1 DEF aq_ndev_open, aq_ndev_close, OpenEnd
<1>2. CASE aq_nic_stop
  BY <1>2 DEF aq_nic_stop
<1>3. CASE hw_reset
  BY <1>3, ResetType DEF hw_reset
<1>4. CASE aq_nic_init
  <2>1. hw' \in HwType
    BY <1>4, InitRegsType DEF aq_nic_init
  <2> QED BY <1>4, <2>1 DEF aq_nic_init, Mbps
<1>5. CASE StartCount
  BY <1>5 DEF StartCount
<1>6. CASE StartList
  <2>1. cfg' \in CfgType /\ hw' \in HwType
    BY <1>6, ListSetType DEF StartList
  <2> QED BY <1>6, <2>1 DEF StartList
<1>7. CASE StartFilter
  <2>1. cfg' \in CfgType /\ hw' \in HwType
    BY <1>7, FilterSetType DEF StartFilter
  <2> QED BY <1>7, <2>1 DEF StartFilter
<1>8. CASE StartItr
  <2>1. cfg.itr \in Modes
    BY DEF CfgType
  <2>2. Timers(cfg.itr, cfg, mbps) \in ItrType /\ Shown(cfg.itr, cfg, mbps) \in CfgType
    BY <2>1, TimersType, ShownType
  <2>3. hw' \in HwType /\ cfg' \in CfgType
    BY <1>8, <2>2 DEF StartItr, HwType
  <2> QED BY <1>8, <2>3 DEF StartItr
<1> QED BY <1>1, <1>2, <1>3, <1>4, <1>5, <1>6, <1>7, <1>8 DEF aq_nic_start

-----------------------------------------------------------------------------
(* Which steps touch which registers, and the settings behind them. *)

Offload == <<cfg.mac, cfg.features, cfg.is_lro, cfg.is_vlan_rx_strip, cfg.key, cfg.table,
             hw.mac, hw.rxcsum, hw.lro, hw.strip, hw.key, hw.redir>>
Moderation == <<cfg.itr, cfg.tx_itr, cfg.rx_itr, hw.itr>>
Filter == <<cfg.mc_list_count, hw.addr, hw.on, hw.promisc, hw.allmulti>>

\* set_rx_mode, and the same calls in aq_nic_start.
LEMMA FilterFrame ==
    ASSUME TypeOK,
           \/ \E f : hw_packet_filter_set(f)
           \/ \E n \in 0 .. ListMax : hw_multicast_list_set(nic.ar, n)
    PROVE  UNCHANGED <<Offload, Moderation, hw.fc>>
<1>1. cfg \in CfgType /\ hw \in HwType
  BY DEF TypeOK
<1>2. cfg' = [cfg EXCEPT !.mc_list_count = cfg'.mc_list_count,
                         !.is_mc_list_enabled = cfg'.is_mc_list_enabled]
  BY <1>1 DEF hw_packet_filter_set, hw_multicast_list_set, CfgType
<1>3. hw' = [hw EXCEPT !.promisc = hw'.promisc, !.allmulti = hw'.allmulti,
                       !.addr = hw'.addr, !.on = hw'.on]
  BY <1>1 DEF hw_packet_filter_set, hw_multicast_list_set, HwType
<1>4. UNCHANGED <<cfg.mac, cfg.features, cfg.is_lro, cfg.is_vlan_rx_strip, cfg.key, cfg.table,
                  cfg.itr, cfg.tx_itr, cfg.rx_itr>>
  BY <1>1, <1>2 DEF CfgType
<1>5. UNCHANGED <<hw.mac, hw.rxcsum, hw.lro, hw.strip, hw.key, hw.redir, hw.itr, hw.fc>>
  BY <1>1, <1>3 DEF HwType
<1> QED BY <1>4, <1>5 DEF Offload, Moderation

\* The settings of the user, whose registers are their own.
LEMMA SettingFrame ==
    ASSUME TypeOK, aq_ndev_set_features \/ aq_ndev_set_mac_address \/ aq_ethtool_set_rss
    PROVE  UNCHANGED <<Moderation, Filter, hw.fc>>
<1>1. cfg \in CfgType /\ hw \in HwType
  BY DEF TypeOK
<1>2. CASE aq_ndev_set_features
  <2>1. UNCHANGED <<cfg.itr, cfg.tx_itr, cfg.rx_itr, cfg.mc_list_count>>
    BY <1>1, <1>2 DEF aq_ndev_set_features, CfgType
  <2>2. UNCHANGED <<hw.itr, hw.fc, hw.addr, hw.on, hw.promisc, hw.allmulti>>
    BY <1>1, <1>2 DEF aq_ndev_set_features, hw_offload_set, HwType
  <2> QED BY <2>1, <2>2 DEF Moderation, Filter
<1>3. CASE aq_ndev_set_mac_address
  <2>1. UNCHANGED <<cfg.itr, cfg.tx_itr, cfg.rx_itr, cfg.mc_list_count>>
    BY <1>1, <1>3 DEF aq_ndev_set_mac_address, CfgType
  <2>2. UNCHANGED <<hw.itr, hw.fc, hw.addr, hw.on, hw.promisc, hw.allmulti>>
    BY <1>1, <1>3 DEF aq_ndev_set_mac_address, hw_mac_addr_set, HwType
  <2> QED BY <2>1, <2>2 DEF Moderation, Filter
<1>4. CASE aq_ethtool_set_rss
  <2>1. UNCHANGED <<cfg.itr, cfg.tx_itr, cfg.rx_itr, cfg.mc_list_count>>
    BY <1>1, <1>4 DEF aq_ethtool_set_rss, CfgType
  <2>2. UNCHANGED <<hw.itr, hw.fc, hw.addr, hw.on, hw.promisc, hw.allmulti>>
    BY <1>1, <1>4 DEF aq_ethtool_set_rss, hw_rss_set, hw_rss_hash_set, HwType
  <2> QED BY <2>1, <2>2 DEF Moderation, Filter
<1> QED BY <1>2, <1>3, <1>4

\* Moderation.
LEMMA TimerFrame ==
    ASSUME TypeOK,
           \/ aq_ethtool_set_coalesce \/ CoalesceRead \/ CoalesceWrite \/ StartItr
           \/ WorkMode \/ WorkTimers \/ WorkWrite
    PROVE  UNCHANGED <<Offload, Filter, hw.fc>>
<1>1. cfg \in CfgType /\ hw \in HwType /\ mbps \in Mbps /\ work.itr \in Modes /\ cfg.itr \in Modes
  BY DEF TypeOK, CfgType
<1>2. \E m, x, y : cfg' = [cfg EXCEPT !.itr = m, !.tx_itr = x, !.rx_itr = y]
  <2>1. CASE aq_ethtool_set_coalesce
    <3>1. PICK c : cfg' = [cfg EXCEPT !.itr = "on", !.rx_itr = c.rx, !.tx_itr = c.tx]
      BY <2>1 DEF aq_ethtool_set_coalesce
    <3>2. cfg' = [cfg EXCEPT !.itr = "on", !.tx_itr = c.tx, !.rx_itr = c.rx]
      BY <1>1, <3>1 DEF CfgType
    <3> QED BY <3>2
  <2>2. ASSUME NEW mode \in Modes, cfg' = Shown(mode, cfg, mbps)
        PROVE  \E m, x, y : cfg' = [cfg EXCEPT !.itr = m, !.tx_itr = x, !.rx_itr = y]
    <3>1. cfg' = [cfg EXCEPT !.tx_itr = cfg'.tx_itr, !.rx_itr = cfg'.rx_itr]
      BY <1>1, <2>2, ShownType
    <3>2. cfg' = [cfg EXCEPT !.itr = cfg.itr, !.tx_itr = cfg'.tx_itr, !.rx_itr = cfg'.rx_itr]
      BY <1>1, <3>1 DEF CfgType
    <3> QED BY <3>2
  <2>3. CASE UNCHANGED cfg
    <3>1. cfg' = [cfg EXCEPT !.itr = cfg.itr, !.tx_itr = cfg.tx_itr, !.rx_itr = cfg.rx_itr]
      BY <1>1, <2>3 DEF CfgType
    <3> QED BY <3>1
  <2> QED BY <1>1, <2>1, <2>2, <2>3
          DEF CoalesceRead, CoalesceWrite, StartItr, WorkMode, WorkTimers, WorkWrite
<1>3. \E x : hw' = [hw EXCEPT !.itr = x]
  <2>1. CASE UNCHANGED hw
    <3>1. hw' = [hw EXCEPT !.itr = hw.itr]
      BY <1>1, <2>1 DEF HwType
    <3> QED BY <3>1
  <2> QED BY <2>1 DEF aq_ethtool_set_coalesce, CoalesceRead, CoalesceWrite, StartItr,
                      WorkMode, WorkTimers, WorkWrite
<1>4. PICK m, x, y, z : /\ cfg' = [cfg EXCEPT !.itr = m, !.tx_itr = x, !.rx_itr = y]
                        /\ hw' = [hw EXCEPT !.itr = z]
  BY <1>2, <1>3
<1> QED BY <1>1, <1>4 DEF Offload, Filter, CfgType, HwType

\* Flow control.
LEMMA PauseFrame ==
    ASSUME TypeOK, aq_ethtool_set_pauseparam \/ WorkFc
    PROVE  /\ UNCHANGED <<Offload, Moderation, Filter>>
           /\ aq_ethtool_set_pauseparam => UNCHANGED hw
           /\ WorkFc => hw'.fc = link.fc
<1>1. cfg \in CfgType /\ hw \in HwType
  BY DEF TypeOK
<1>2. ASSUME aq_ethtool_set_pauseparam PROVE UNCHANGED <<Offload, Moderation, Filter, hw>>
  <2>1. cfg' = [cfg EXCEPT !.flow_control = cfg'.flow_control] /\ UNCHANGED hw
    BY <1>1, <1>2 DEF aq_ethtool_set_pauseparam, CfgType
  <2> QED BY <1>1, <2>1 DEF Offload, Moderation, Filter, CfgType
<1>3. ASSUME WorkFc PROVE UNCHANGED <<Offload, Moderation, Filter>> /\ hw'.fc = link.fc
  <2>1. hw' = [hw EXCEPT !.fc = link.fc] /\ UNCHANGED cfg
    BY <1>3 DEF WorkFc, set_fc
  <2> QED BY <1>1, <2>1 DEF Offload, Moderation, Filter, HwType
<1> QED BY <1>2, <1>3

-----------------------------------------------------------------------------
(* Who runs when. *)

Bringing == {"reset", "init", "count", "list", "filter", "itr"}

\* A device that is being brought up has no service work, and the stack no
\* set_rx_mode before the first open; after init the work has yet to look at
\* the link; and set_coalesce ends automatic moderation for good.
Control ==
    /\ IsFiniteSet(wanted.uc) /\ IsFiniteSet(wanted.mc)
    /\ ~up => ~service /\ rx.at = "idle"
    /\ ~service => work.at = "idle"
    /\ pc \in Bringing => ~service /\ op \in {"open", "restart"} /\ (op = "open" <=> ~up)
    /\ pc = "stop" => up /\ op \in {"close", "restart"}
    /\ pc = "rx_mode" => up
    /\ pc \in {"count", "list", "filter", "itr"} => news
    /\ ~news => mbps = link.mbps
    /\ pc \in {"coalesce", "coalesce_write"} => cfg.itr = "on"

LEMMA StackControl ==
    ASSUME TypeOK, Control, Stack
    PROVE  Control'
<1>1. CASE ChangeDown \/ Change
  <2>1. setup \in Setups /\ \A w \in setup.wanted : IsFiniteSet(w.uc) /\ IsFiniteSet(w.mc)
    BY ConfigAssumption DEF TypeOK
  <2>2. IsFiniteSet(wanted'.uc) /\ IsFiniteSet(wanted'.mc)
    BY <1>1, <2>1 DEF ChangeDown, Change, Want
  <2>3. rx' = rx \/ up
    BY <1>1 DEF ChangeDown, Change
  <2>4. UNCHANGED <<rtnl, up, service, cfg, work, link, mbps, news>>
    BY <1>1 DEF ChangeDown, Change
  <2> QED BY <2>2, <2>3, <2>4 DEF Control, rtnl, Bringing
<1>2. CASE RxFlags \/ RxClear \/ RxFill \/ RxList \/ RxFilter
  <2>1. rx.at # "idle" /\ up
    BY <1>2 DEF RxFlags, RxClear, RxFill, RxList, RxFilter, Control
  <2>2. UNCHANGED cfg.itr
    <3>1. CASE UNCHANGED cfg
      BY <3>1
    <3>2. CASE \/ \E f : hw_packet_filter_set(f)
               \/ \E n \in 0 .. ListMax : hw_multicast_list_set(nic.ar, n)
      BY <3>2, FilterFrame DEF Moderation
    <3> QED BY <1>2, <3>1, <3>2 DEF RxFlags, RxClear, RxFill, RxList, RxFilter, TypeOK,
                                    aq_nic_set_packet_filter
  <2>3. UNCHANGED <<rtnl, up, service, wanted, work, link, mbps, news>>
    BY <1>2 DEF RxFlags, RxClear, RxFill, RxList, RxFilter
  <2> QED BY <2>1, <2>2, <2>3 DEF Control, rtnl, Bringing
<1> QED BY <1>1, <1>2 DEF Stack, aq_ndev_set_multicast_settings, aq_nic_set_multicast_list

LEMMA WorkControl ==
    ASSUME TypeOK, Control, LinkChange \/ aq_nic_update_link_status
    PROVE  Control'
<1>1. work.at # "idle" => service /\ up /\ pc \notin Bringing
  BY DEF Control
<1>2. CASE LinkChange
  BY <1>2 DEF LinkChange, Control, rtnl, Bringing, TypeOK
<1>3. CASE Look
  BY <1>3 DEF Look, Control, rtnl, Bringing, TypeOK
<1>4. CASE WorkMode \/ WorkWrite \/ WorkFc
  <2>1. IdleWork.at = "idle" /\ work.at # "idle"
    BY <1>4 DEF WorkMode, WorkWrite, WorkFc, IdleWork
  <2>2. UNCHANGED <<rtnl, up, service, wanted, cfg, rx, link, mbps, news>>
    BY <1>4 DEF WorkMode, WorkWrite, WorkFc
  <2> QED BY <1>1, <2>1, <2>2 DEF Control, rtnl, Bringing
<1>5. CASE WorkTimers
  <2>1. work.itr \in Modes /\ cfg \in CfgType /\ mbps \in Mbps
    BY DEF TypeOK
  <2>2. cfg'.itr = cfg.itr
    <3>1. cfg' = Shown(work.itr, cfg, mbps)
      BY <1>5 DEF WorkTimers
    <3> QED BY <2>1, <3>1, ShownTimers
  <2>3. UNCHANGED <<rtnl, up, service, wanted, rx, link, mbps, news>> /\ work.at # "idle"
    BY <1>5 DEF WorkTimers
  <2> QED BY <1>1, <2>2, <2>3 DEF Control, rtnl, Bringing
<1> QED BY <1>2, <1>3, <1>4, <1>5 DEF aq_nic_update_link_status

LEMMA SettingControl ==
    ASSUME TypeOK, Control,
           \/ aq_ndev_set_features \/ aq_ndev_set_mac_address \/ aq_ethtool_set_rss
           \/ aq_ethtool_set_pauseparam \/ aq_ethtool_set_coalesce
           \/ CoalesceRead \/ CoalesceWrite
    PROVE  Control'
<1>1. CASE aq_ndev_set_features
  BY <1>1 DEF aq_ndev_set_features, Control, rtnl, Bringing, Idle
<1>2. CASE aq_ndev_set_mac_address \/ aq_ethtool_set_rss \/ aq_ethtool_set_pauseparam
  <2>1. UNCHANGED <<rtnl, up, service, wanted, rx, work, link, mbps, news>> /\ pc = "idle"
    BY <1>2 DEF aq_ndev_set_mac_address, aq_ethtool_set_rss, aq_ethtool_set_pauseparam, Idle
  <2> QED BY <2>1 DEF Control, rtnl, Bringing
<1>3. CASE aq_ethtool_set_coalesce
  <2>1. cfg'.itr = "on"
    BY <1>3 DEF aq_ethtool_set_coalesce, TypeOK, CfgType
  <2>2. UNCHANGED <<up, service, wanted, rx, work, link, mbps, news>> /\ pc' = "coalesce"
    BY <1>3 DEF aq_ethtool_set_coalesce
  <2> QED BY <2>1, <2>2 DEF Control, Bringing
<1>4. CASE CoalesceRead
  BY <1>4 DEF CoalesceRead, Control, Bringing
<1>5. CASE CoalesceWrite
  BY <1>5 DEF CoalesceWrite, Control, Bringing
<1> QED BY <1>1, <1>2, <1>3, <1>4, <1>5

LEMMA LifeControl ==
    ASSUME TypeOK, Control,
           \/ aq_ndev_open \/ aq_ndev_close \/ aq_nic_stop \/ hw_reset \/ aq_nic_init
           \/ aq_nic_start \/ OpenEnd
    PROVE  Control'
<1> USE DEF Control, Goto, Bringing
<1>1. CASE aq_ndev_open
  BY <1>1 DEF aq_ndev_open, Idle
<1>2. CASE aq_ndev_close
  BY <1>2 DEF aq_ndev_close, Idle
<1>3. CASE OpenEnd
  BY <1>3 DEF OpenEnd
<1>4. CASE aq_nic_stop
  BY <1>4 DEF aq_nic_stop
<1>5. CASE hw_reset
  BY <1>5 DEF hw_reset
<1>6. CASE aq_nic_init
  BY <1>6 DEF aq_nic_init
<1>7. CASE StartCount
  BY <1>7 DEF StartCount
<1>8. CASE StartList \/ StartFilter
  BY <1>8 DEF StartList, StartFilter
<1>9. CASE StartItr
  <2>1. pc' \in {"idle", "rx_mode"} /\ up' /\ service'
    BY <1>9 DEF StartItr
  <2>2. UNCHANGED <<wanted, work, link, mbps, news>>
    BY <1>9 DEF StartItr
  <2> QED BY <2>1, <2>2
<1> QED BY <1>1, <1>2, <1>3, <1>4, <1>5, <1>6, <1>7, <1>8, <1>9 DEF aq_nic_start

-----------------------------------------------------------------------------
(* The address, the offloads and RSS. *)

\* From init on the registers are those of aq_nic_cfg, until the next stop.
Initialised ==
    \/ pc \in {"count", "list", "filter", "itr"}
    \/ up /\ pc \in {"idle", "rx_mode", "coalesce", "coalesce_write"}
Written ==
    /\ hw.mac = cfg.mac
    /\ hw.rxcsum = ("rxcsum" \in cfg.features)
    /\ hw.lro = cfg.is_lro /\ hw.strip = cfg.is_vlan_rx_strip
    /\ RssQueues > 1 => hw.key = cfg.key
    /\ hw.redir = RssBits(cfg.table)
Offloads == Initialised => Written

\* Where no step writes them, and the device was initialised before.
LEMMA OffloadsStay ==
    ASSUME Offloads, UNCHANGED Offload, Initialised' => Initialised
    PROVE  Offloads'
<1>1. UNCHANGED <<cfg.mac, cfg.features, cfg.is_lro, cfg.is_vlan_rx_strip, cfg.key, cfg.table,
                  hw.mac, hw.rxcsum, hw.lro, hw.strip, hw.key, hw.redir>>
  BY DEF Offload
<1> QED BY <1>1 DEF Offloads, Written

LEMMA OffloadsNext ==
    ASSUME TypeOK, Control, Offloads, Step
    PROVE  Offloads'
<1>0. cfg \in CfgType /\ hw \in HwType
  BY DEF TypeOK
<1>1. CASE Stack
  <2>1. UNCHANGED <<pc, up>>
    BY <1>1 DEF Stack, ChangeDown, aq_ndev_set_multicast_settings, Change, RxFlags,
          aq_nic_set_multicast_list, RxClear, RxFill, RxList, RxFilter, rtnl
  <2>2. UNCHANGED Offload
    <3>1. CASE UNCHANGED <<cfg, hw>>
      BY <3>1 DEF Offload
    <3>2. CASE \/ \E f : hw_packet_filter_set(f)
               \/ \E n \in 0 .. ListMax : hw_multicast_list_set(nic.ar, n)
      BY <3>2, FilterFrame
    <3> QED BY <1>1, <3>1, <3>2 DEF Stack, ChangeDown, aq_ndev_set_multicast_settings, Change,
          RxFlags, aq_nic_set_multicast_list, RxClear, RxFill, RxList, RxFilter, TypeOK,
          aq_nic_set_packet_filter
  <2> QED BY <2>1, <2>2, OffloadsStay DEF Initialised
<1>2. CASE LinkChange \/ aq_nic_update_link_status
  <2>1. UNCHANGED <<pc, up>>
    BY <1>2 DEF LinkChange, aq_nic_update_link_status, Look, WorkMode, WorkTimers, WorkWrite,
          WorkFc, rtnl
  <2>2. UNCHANGED Offload
    <3>1. CASE LinkChange \/ Look
      BY <3>1 DEF LinkChange, Look, Offload
    <3> QED BY <1>2, <3>1, TimerFrame, PauseFrame DEF aq_nic_update_link_status
  <2> QED BY <2>1, <2>2, OffloadsStay DEF Initialised
<1>3. CASE aq_ndev_set_features
  <2>1. PICK f \in setup.features :
          LET c == [cfg EXCEPT !.features = f, !.is_lro = "lro" \in f,
                               !.is_vlan_rx_strip = "vlan_rx" \in f]
              restart == c.is_lro # cfg.is_lro \/ c.is_vlan_rx_strip # cfg.is_vlan_rx_strip
          IN /\ cfg' = c
             /\ hw' = IF ("rxcsum" \in f) # ("rxcsum" \in cfg.features)
                      THEN hw_offload_set(hw, c) ELSE hw
             /\ IF restart /\ up
                THEN pc' = "stop" /\ op' = "restart" /\ UNCHANGED held
                ELSE UNCHANGED rtnl
    BY <1>3 DEF aq_ndev_set_features
  <2>2. /\ cfg'.mac = cfg.mac /\ cfg'.key = cfg.key /\ cfg'.table = cfg.table
        /\ cfg'.features = f
    BY <1>0, <2>1 DEF CfgType
  <2>3. /\ hw'.mac = hw.mac /\ hw'.key = hw.key /\ hw'.redir = hw.redir /\ hw'.strip = hw.strip
        /\ (hw' = hw /\ ("rxcsum" \in f) = ("rxcsum" \in cfg.features))
           \/ (hw'.rxcsum = ("rxcsum" \in f) /\ hw'.lro = cfg'.is_lro)
    BY <1>0, <2>1, <2>2 DEF hw_offload_set, HwType
  <2>4. pc = "idle" /\ pc' \in {"idle", "stop"} /\ UNCHANGED up
    BY <1>3 DEF aq_ndev_set_features, Idle, rtnl
  <2>5. ASSUME Initialised'
        PROVE  cfg'.is_lro = cfg.is_lro /\ cfg'.is_vlan_rx_strip = cfg.is_vlan_rx_strip /\ Written
    <3>1. pc' # "stop" /\ up
      BY <2>4, <2>5 DEF Initialised
    <3>2. cfg'.is_lro = cfg.is_lro /\ cfg'.is_vlan_rx_strip = cfg.is_vlan_rx_strip
      <4> DEFINE c == [cfg EXCEPT !.features = f, !.is_lro = "lro" \in f,
                                  !.is_vlan_rx_strip = "vlan_rx" \in f]
      <4>1. cfg' = c
        BY <2>1
      <4>2. c.is_lro = cfg.is_lro /\ c.is_vlan_rx_strip = cfg.is_vlan_rx_strip
        BY <2>1, <3>1, Zenon
      <4> QED BY <4>1, <4>2
    <3> QED BY <2>4, <3>1, <3>2 DEF Initialised, Offloads
  <2> QED BY <2>2, <2>3, <2>5 DEF Offloads, Written
<1>4. CASE aq_ndev_set_mac_address
  <2>1. PICK m : cfg' = [cfg EXCEPT !.mac = m] /\ hw' = [hw EXCEPT !.mac = m]
    BY <1>4 DEF aq_ndev_set_mac_address, hw_mac_addr_set
  <2>2. UNCHANGED <<pc, up>>
    BY <1>4 DEF aq_ndev_set_mac_address, rtnl
  <2>3. Written => Written'
    BY <1>0, <2>1 DEF Written, CfgType, HwType
  <2> QED BY <2>2, <2>3 DEF Offloads, Initialised
<1>5. CASE aq_ethtool_set_rss
  <2>1. PICK t, k :
          /\ cfg' = [cfg EXCEPT !.table = t, !.key = k]
          /\ hw' = hw_rss_set(IF k = cfg.key THEN hw ELSE hw_rss_hash_set(hw, cfg'), cfg')
    BY <1>5 DEF aq_ethtool_set_rss
  <2>2. UNCHANGED <<pc, up>>
    BY <1>5 DEF aq_ethtool_set_rss, rtnl
  <2>3. /\ cfg'.table = t /\ cfg'.key = k
        /\ UNCHANGED <<cfg.mac, cfg.features, cfg.is_lro, cfg.is_vlan_rx_strip>>
    BY <1>0, <2>1 DEF CfgType
  <2>4. /\ hw'.redir = RssBits(t)
        /\ (k = cfg.key /\ hw'.key = hw.key) \/ hw'.key = IF RssQueues > 1 THEN k ELSE NoKey
        /\ UNCHANGED <<hw.mac, hw.rxcsum, hw.lro, hw.strip>>
    BY <1>0, <2>1, <2>3 DEF hw_rss_set, hw_rss_hash_set, HwType
  <2>5. Written => Written'
    BY <2>3, <2>4 DEF Written
  <2> QED BY <2>2, <2>5 DEF Offloads, Initialised
<1>6. CASE aq_ethtool_set_pauseparam
  <2>1. UNCHANGED <<pc, up>>
    BY <1>6 DEF aq_ethtool_set_pauseparam, rtnl
  <2> QED BY <1>6, <2>1, PauseFrame, OffloadsStay DEF Initialised
<1>7. CASE aq_ethtool_set_coalesce \/ CoalesceRead \/ CoalesceWrite \/ StartItr
  <2>1. Initialised' => Initialised
    BY <1>7 DEF aq_ethtool_set_coalesce, CoalesceRead, CoalesceWrite, StartItr, Initialised, Idle
  <2> QED BY <1>7, <2>1, TimerFrame, OffloadsStay
<1>8. CASE aq_ndev_open \/ aq_ndev_close \/ aq_nic_stop \/ OpenEnd \/ StartCount
  <2>1. Initialised' => Initialised
    BY <1>8 DEF aq_ndev_open, aq_ndev_close, aq_nic_stop, OpenEnd, StartCount, Initialised, Goto,
          Idle, Control
  <2>2. UNCHANGED <<cfg, hw>>
    BY <1>8 DEF aq_ndev_open, aq_ndev_close, aq_nic_stop, OpenEnd, StartCount
  <2>3. UNCHANGED Offload
    BY <2>2 DEF Offload
  <2> QED BY <2>1, <2>3, OffloadsStay
<1>9. CASE StartList \/ StartFilter
  <2>1. Initialised
    BY <1>9 DEF StartList, StartFilter, Initialised
  <2>2. \/ \E f : hw_packet_filter_set(f)
        \/ \E n \in 0 .. ListMax : hw_multicast_list_set(nic.ar, n)
    BY <1>9 DEF StartList, StartFilter, TypeOK
  <2> QED BY <2>1, <2>2, FilterFrame, OffloadsStay
<1>10. CASE hw_reset
  BY <1>10 DEF hw_reset, Goto, Offloads, Initialised
<1>11. CASE aq_nic_init
  <2>1. hw' = [hw EXCEPT !.on = [i \in Slots |-> FALSE], !.mac = cfg.mac,
                         !.fc = cfg.flow_control, !.redir = RssBits(cfg.table),
                         !.key = IF RssQueues > 1 THEN cfg.key ELSE NoKey,
                         !.rxcsum = "rxcsum" \in cfg.features, !.lro = cfg.is_lro,
                         !.strip = cfg.is_vlan_rx_strip]
    BY <1>0, <1>11, InitRegsType DEF aq_nic_init
  <2>2. UNCHANGED cfg
    BY <1>11 DEF aq_nic_init
  <2>3. Written'
    BY <1>0, <2>1, <2>2 DEF Written, HwType
  <2> QED BY <2>3 DEF Offloads
<1> QED BY <1>1, <1>2, <1>3, <1>4, <1>5, <1>6, <1>7, <1>8, <1>9, <1>10, <1>11
        DEF Step, Rtnl, aq_nic_start

-----------------------------------------------------------------------------
(* Interrupt moderation and flow control. *)

\* Timers depend on the microseconds only if the user gave them, and on the
\* speed only in automatic mode.
LEMMA TimersDepend ==
    ASSUME NEW c, NEW d, NEW m, NEW n
    PROVE  /\ Timers("auto", c, m) = Timers("auto", d, m)
           /\ c.tx_itr = d.tx_itr /\ c.rx_itr = d.rx_itr =>
                 \A mode \in {"off", "on"} : Timers(mode, c, m) = Timers(mode, d, n)
  BY DEF Timers

\* With no set_coalesce in the work's way, the mode and the timers it holds are
\* those of aq_nic_cfg, so are those set_coalesce holds, and so is the register
\* when neither is about to write it.
Tuned ==
    /\ work.at \in {"timers", "write"} => work.itr = cfg.itr
    /\ work.at = "write" => work.timers = Timers(cfg.itr, cfg, mbps)
    /\ pc = "coalesce_write" => held = Timers("on", cfg, mbps)
    /\ up /\ pc \in {"idle", "rx_mode"} /\ work.at \in {"idle", "fc"} /\ cfg.itr # "auto" =>
          hw.itr = Timers(cfg.itr, cfg, mbps)
Moderated == "itr" \notin crossed => Tuned

\* In automatic mode the work is alone: it writes the table for its speed.
Automatic ==
    cfg.itr = "auto" =>
      /\ work.at \in {"timers", "write"} => work.itr = "auto"
      /\ work.at = "write" => work.timers = Timers("auto", cfg, mbps)
      /\ work.at = "fc" => hw.itr = Timers("auto", cfg, mbps)

\* The work has carried the link's settings over, and nothing has undone it.
Linked ==
    work.at = "idle" /\ ~news /\ link.mbps # 0 /\ "link" \notin crossed /\ pc # "init" =>
      /\ hw.fc = link.fc
      /\ cfg.itr = "auto" => hw.itr = Timers("auto", cfg, link.mbps)

\* A step that leaves moderation, flow control and the service work alone.
Quiet ==
    /\ UNCHANGED <<Moderation, hw.fc, work, mbps>>
    /\ ~news' => ~news /\ UNCHANGED link
    /\ up' /\ pc' \in {"idle", "rx_mode"} => up /\ pc \in {"idle", "rx_mode"}
    /\ pc' \in {"coalesce", "coalesce_write"} => UNCHANGED <<pc, held>>
    /\ pc = "init" => pc' = "init"

QuietStep ==
    \/ Stack \/ LinkChange
    \/ aq_ndev_set_features \/ aq_ndev_set_mac_address \/ aq_ethtool_set_rss
    \/ aq_ethtool_set_pauseparam
    \/ aq_ndev_open \/ aq_ndev_close \/ aq_nic_stop \/ OpenEnd
    \/ StartCount \/ StartList \/ StartFilter

LEMMA QuietSteps ==
    ASSUME TypeOK, Control, QuietStep
    PROVE  Quiet
<1>1. CASE Stack
  <2>1. UNCHANGED <<pc, held, up, work, link, mbps, news>>
    BY <1>1 DEF Stack, ChangeDown, aq_ndev_set_multicast_settings, Change, RxFlags,
          aq_nic_set_multicast_list, RxClear, RxFill, RxList, RxFilter, rtnl
  <2>2. UNCHANGED <<Moderation, hw.fc>>
    <3>1. CASE UNCHANGED <<cfg, hw>>
      BY <3>1 DEF Moderation
    <3>2. CASE \/ \E f : hw_packet_filter_set(f)
               \/ \E n \in 0 .. ListMax : hw_multicast_list_set(nic.ar, n)
      BY <3>2, FilterFrame
    <3> QED BY <1>1, <3>1, <3>2 DEF Stack, ChangeDown, aq_ndev_set_multicast_settings, Change,
          RxFlags, aq_nic_set_multicast_list, RxClear, RxFill, RxList, RxFilter, TypeOK,
          aq_nic_set_packet_filter
  <2> QED BY <2>1, <2>2 DEF Quiet
<1>2. CASE LinkChange
  BY <1>2 DEF LinkChange, Quiet, Moderation, rtnl
<1>3. CASE aq_ndev_set_features \/ aq_ndev_set_mac_address \/ aq_ethtool_set_rss
  <2>1. pc = "idle" /\ pc' \in {"idle", "stop"} /\ UNCHANGED <<up, work, link, mbps, news>>
    BY <1>3 DEF aq_ndev_set_features, aq_ndev_set_mac_address, aq_ethtool_set_rss, Idle, rtnl
  <2> QED BY <1>3, <2>1, SettingFrame DEF Quiet
<1>4. CASE aq_ethtool_set_pauseparam
  <2>1. pc = "idle" /\ UNCHANGED <<pc, up, work, link, mbps, news, hw>>
    BY <1>4 DEF aq_ethtool_set_pauseparam, Idle, rtnl
  <2> QED BY <1>4, <2>1, PauseFrame DEF Quiet
<1>5. CASE aq_ndev_open \/ aq_ndev_close \/ aq_nic_stop \/ OpenEnd \/ StartCount
  <2>1. UNCHANGED <<cfg, hw, work, link, mbps, news>>
    BY <1>5 DEF aq_ndev_open, aq_ndev_close, aq_nic_stop, OpenEnd, StartCount
  <2>2. /\ up' /\ pc' \in {"idle", "rx_mode"} => up /\ pc \in {"idle", "rx_mode"}
        /\ pc' \notin {"coalesce", "coalesce_write"} /\ pc # "init"
    BY <1>5 DEF aq_ndev_open, aq_ndev_close, aq_nic_stop, OpenEnd, StartCount, Goto, Idle, Control
  <2>3. UNCHANGED <<Moderation, hw.fc>>
    BY <2>1 DEF Moderation
  <2> QED BY <2>1, <2>2, <2>3 DEF Quiet
<1>6. CASE StartList \/ StartFilter
  <2>1. UNCHANGED <<up, work, link, mbps, news>>
    BY <1>6 DEF StartList, StartFilter
  <2>2. pc' \in {"filter", "itr"} /\ pc # "init"
    BY <1>6 DEF StartList, StartFilter, Goto
  <2>3. \/ \E f : hw_packet_filter_set(f)
        \/ \E n \in 0 .. ListMax : hw_multicast_list_set(nic.ar, n)
    BY <1>6 DEF StartList, StartFilter, TypeOK
  <2> QED BY <2>1, <2>2, <2>3, FilterFrame DEF Quiet
<1> QED BY <1>1, <1>2, <1>3, <1>4, <1>5, <1>6 DEF QuietStep

LEMMA QuietKeeps ==
    ASSUME TypeOK, Quiet
    PROVE  /\ Tuned => Tuned'
           /\ Automatic => Automatic'
           /\ Linked /\ ("link" \notin crossed' => "link" \notin crossed \/ work'.at = "mode")
                => Linked'
<1>1. /\ UNCHANGED <<cfg.itr, cfg.tx_itr, cfg.rx_itr, hw.itr, hw.fc, work, mbps>>
      /\ cfg.itr \in Modes
  BY DEF Quiet, Moderation, TypeOK, CfgType
<1>2. \A m : Timers("auto", cfg', m) = Timers("auto", cfg, m)
  BY TimersDepend
<1>3. \A mode \in {"off", "on"} : \A m : Timers(mode, cfg', m) = Timers(mode, cfg, m)
  BY <1>1, TimersDepend
<1>4. Timers("on", cfg', mbps') = Timers("on", cfg, mbps)
  BY <1>1, <1>3
<1>5. Timers(cfg'.itr, cfg', mbps') = Timers(cfg.itr, cfg, mbps)
  BY <1>1, <1>2, <1>3 DEF Modes
<1>6. Tuned => Tuned'
  BY <1>1, <1>4, <1>5 DEF Tuned, Quiet
<1>7. Automatic => Automatic'
  BY <1>1, <1>2 DEF Automatic
<1>8. ASSUME Linked, "link" \notin crossed' => "link" \notin crossed \/ work'.at = "mode"
      PROVE  Linked'
  BY <1>1, <1>2, <1>8 DEF Linked, Quiet
<1> QED BY <1>6, <1>7, <1>8

\* The service work and the steps of moderation.
LEMMA WorkTuned ==
    ASSUME TypeOK, Control, aq_nic_update_link_status
    PROVE  (Tuned => Tuned') /\ (Automatic => Automatic')
<1>w. work \in [at : {"idle", "mode", "timers", "write", "fc"}, itr : Modes, timers : ItrType]
  BY DEF TypeOK
<1>0. cfg \in CfgType /\ hw \in HwType /\ mbps \in Mbps /\ work.itr \in Modes /\ cfg.itr \in Modes
  BY DEF TypeOK, CfgType
<1>1. CASE Look
  <2>1. UNCHANGED <<cfg, hw, pc, held, up>> /\ work.at = "idle" /\ work'.at \in {"idle", "mode"}
    BY <1>0, <1>w, <1>1 DEF Look, rtnl
  <2>2. \A mode \in {"off", "on"} : Timers(mode, cfg, mbps') = Timers(mode, cfg, mbps)
    BY TimersDepend
  <2> QED BY <1>0, <2>1, <2>2 DEF Tuned, Automatic, Modes
<1>2. CASE WorkMode
  <2>1. UNCHANGED <<cfg, hw, pc, held, up, mbps>> /\ work'.at = "timers" /\ work'.itr = cfg.itr
    BY <1>0, <1>w, <1>2 DEF WorkMode, rtnl
  <2> QED BY <2>1 DEF Tuned, Automatic
<1>3. CASE WorkTimers
  <2>1. /\ UNCHANGED <<hw, pc, held, up, mbps>> /\ work.at = "timers" /\ work'.at = "write"
        /\ work'.itr = work.itr /\ work'.timers = Timers(work.itr, cfg, mbps)
        /\ cfg' = Shown(work.itr, cfg, mbps)
    BY <1>0, <1>w, <1>3 DEF WorkTimers, rtnl
  <2>2. cfg' = Shown(work.itr, cfg, mbps)
    BY <2>1
  <2>3. /\ cfg'.itr = cfg.itr /\ Timers(work.itr, cfg', mbps) = Timers(work.itr, cfg, mbps)
        /\ work.itr # "auto" => cfg' = cfg
    BY <1>0, <2>2, ShownTimers
  <2>4. pc = "coalesce_write" => cfg.itr = "on"
    BY DEF Control
  <2>5. Tuned => Tuned'
    BY <2>1, <2>3, <2>4 DEF Tuned
  <2>6. Automatic => Automatic'
    BY <2>1, <2>3 DEF Automatic
  <2> QED BY <2>5, <2>6
<1>4. CASE WorkWrite
  <2>1. /\ UNCHANGED <<cfg, pc, held, up, mbps>> /\ work.at = "write" /\ work'.at = "fc"
        /\ hw'.itr = work.timers
    BY <1>0, <1>w, <1>4 DEF WorkWrite, IdleWork, HwType, rtnl
  <2> QED BY <2>1 DEF Tuned, Automatic
<1>5. CASE WorkFc
  <2>1. UNCHANGED <<cfg, pc, held, up, mbps>> /\ work.at = "fc" /\ work'.at = "idle"
    BY <1>5 DEF WorkFc, IdleWork, rtnl
  <2>2. hw'.itr = hw.itr
    BY <1>5, PauseFrame DEF Moderation
  <2> QED BY <2>1, <2>2 DEF Tuned, Automatic
<1> QED BY <1>1, <1>2, <1>3, <1>4, <1>5 DEF aq_nic_update_link_status

LEMMA CoalesceTuned ==
    ASSUME TypeOK, Control, CoalesceRead \/ CoalesceWrite
    PROVE  (Tuned => Tuned') /\ (Automatic => Automatic')
<1>1. UNCHANGED <<cfg, up, work, mbps>> /\ cfg.itr = "on"
  BY DEF CoalesceRead, CoalesceWrite, Control
<1>2. CASE CoalesceRead
  BY <1>1, <1>2 DEF CoalesceRead, Tuned, Automatic
<1>3. CASE CoalesceWrite
  <2>1. hw'.itr = held /\ pc = "coalesce_write" /\ pc' = "idle"
    BY <1>3 DEF CoalesceWrite, TypeOK, HwType
  <2> QED BY <1>1, <2>1 DEF Tuned, Automatic
<1> QED BY <1>2, <1>3

LEMMA ResetTuned ==
    ASSUME TypeOK, Control, hw_reset \/ aq_nic_init \/ StartItr
    PROVE  Tuned' /\ Automatic'
<1>0. cfg \in CfgType /\ hw \in HwType /\ mbps \in Mbps /\ cfg.itr \in Modes
  BY DEF TypeOK, CfgType
<1>1. work'.at = "idle"
  BY DEF hw_reset, aq_nic_init, StartItr, Control, Bringing
<1>2. CASE hw_reset \/ aq_nic_init
  BY <1>1, <1>2 DEF hw_reset, aq_nic_init, Goto, Tuned, Automatic
<1>3. CASE StartItr
  <2>1. /\ cfg' = Shown(cfg.itr, cfg, mbps) /\ hw'.itr = Timers(cfg.itr, cfg, mbps)
        /\ mbps' = mbps /\ pc' # "coalesce_write"
    BY <1>0, <1>3 DEF StartItr, HwType, Goto
  <2>2. cfg' = Shown(cfg.itr, cfg, mbps)
    BY <2>1
  <2>3. cfg'.itr = cfg.itr /\ (cfg.itr # "auto" => cfg' = cfg)
    BY <1>0, <2>2, ShownTimers
  <2> QED BY <1>1, <2>1, <2>3 DEF Tuned, Automatic
<1> QED BY <1>2, <1>3

\* What crossed records of moderation, step by step.
LEMMA ItrCrossing ==
    ASSUME Crossing, "itr" \notin crossed'
    PROVE  /\ ~(pc = "idle" /\ pc' = "coalesce" /\ work.at \in {"timers", "write"})
           /\ \/ "itr" \notin crossed
              \/ pc = "idle" /\ pc' = "coalesce"
              \/ pc = "idle" /\ work'.at = "mode"
              \/ pc' = "itr"
  BY DEF Crossing

LEMMA LinkCrossing ==
    ASSUME Crossing, "link" \notin crossed'
    PROVE  /\ ~(news /\ ~news' /\ work'.at = "idle")
           /\ "link" \notin crossed \/ work'.at = "mode"
  BY DEF Crossing

LEMMA StepKinds ==
    Step => \/ QuietStep \/ aq_nic_update_link_status
            \/ aq_ethtool_set_coalesce \/ CoalesceRead \/ CoalesceWrite
            \/ hw_reset \/ aq_nic_init \/ StartItr
  BY DEF Step, Rtnl, aq_nic_start, QuietStep

\* set_coalesce is entered through its first step only.
LEMMA CoalesceEntry ==
    ASSUME TypeOK, Control, Step, pc = "idle"
    PROVE  pc' # "coalesce_write" /\ (pc' = "coalesce" => aq_ethtool_set_coalesce)
<1>1. CASE QuietStep
  BY <1>1, QuietSteps DEF Quiet
<1>2. CASE aq_nic_update_link_status
  BY <1>2 DEF aq_nic_update_link_status, Look, WorkMode, WorkTimers, WorkWrite, WorkFc, rtnl
<1>3. CASE aq_ethtool_set_coalesce
  BY <1>3 DEF aq_ethtool_set_coalesce
<1>4. CASE CoalesceRead \/ CoalesceWrite \/ hw_reset \/ aq_nic_init \/ StartItr
  BY <1>4 DEF CoalesceRead, CoalesceWrite, hw_reset, aq_nic_init, StartItr
<1> QED BY <1>1, <1>2, <1>3, <1>4, StepKinds

LEMMA ModeratedNext ==
    ASSUME TypeOK, Control, Control', Moderated, Step, Crossing
    PROVE  Moderated'
<1> SUFFICES ASSUME "itr" \notin crossed' PROVE Tuned'
  BY DEF Moderated
<1>1. CASE pc' = "itr"
  <2>1. work'.at = "idle"
    BY <1>1 DEF Control, Bringing
  <2> QED BY <1>1, <2>1 DEF Tuned
<1>2. CASE aq_ethtool_set_coalesce
  <2>1. pc = "idle" /\ pc' = "coalesce" /\ UNCHANGED work
    BY <1>2 DEF aq_ethtool_set_coalesce, Idle
  <2>2. work.at \notin {"timers", "write"}
    BY <2>1, ItrCrossing
  <2> QED BY <2>1, <2>2 DEF Tuned
<1>3. CASE pc = "idle" /\ work'.at = "mode" /\ pc' # "coalesce_write"
  BY <1>3 DEF Tuned
<1>4. CASE ~aq_ethtool_set_coalesce /\ Tuned
  <2>1. CASE QuietStep
    BY <1>4, <2>1, QuietSteps, QuietKeeps
  <2>2. CASE aq_nic_update_link_status
    BY <1>4, <2>2, WorkTuned
  <2>3. CASE CoalesceRead \/ CoalesceWrite
    BY <1>4, <2>3, CoalesceTuned
  <2>4. CASE hw_reset \/ aq_nic_init \/ StartItr
    BY <2>4, ResetTuned
  <2> QED BY <1>4, <2>1, <2>2, <2>3, <2>4, StepKinds
<1>5. \/ "itr" \notin crossed
      \/ pc = "idle" /\ pc' = "coalesce"
      \/ pc = "idle" /\ work'.at = "mode"
      \/ pc' = "itr"
  BY ItrCrossing
<1> QED BY <1>1, <1>2, <1>3, <1>4, <1>5, CoalesceEntry DEF Moderated

LEMMA AutomaticNext ==
    ASSUME TypeOK, Control, Automatic, Step
    PROVE  Automatic'
<1>1. CASE QuietStep
  BY <1>1, QuietSteps, QuietKeeps
<1>2. CASE aq_nic_update_link_status
  BY <1>2, WorkTuned
<1>3. CASE aq_ethtool_set_coalesce
  <2>1. cfg'.itr = "on"
    BY <1>3 DEF aq_ethtool_set_coalesce, TypeOK, CfgType
  <2> QED BY <2>1 DEF Automatic
<1>4. CASE CoalesceRead \/ CoalesceWrite
  BY <1>4, CoalesceTuned
<1>5. CASE hw_reset \/ aq_nic_init \/ StartItr
  BY <1>5, ResetTuned
<1> QED BY <1>1, <1>2, <1>3, <1>4, <1>5, StepKinds

LEMMA LinkedNext ==
    ASSUME TypeOK, Control, Automatic, Linked, Step, Crossing
    PROVE  Linked'
<1>1. CASE QuietStep
  BY <1>1, QuietSteps, QuietKeeps, LinkCrossing
<1>2. CASE Look
  <2> SUFFICES ASSUME work'.at = "idle", "link" \notin crossed', ~news', link'.mbps # 0, pc' # "init"
               PROVE  /\ hw'.fc = link'.fc
                      /\ cfg'.itr = "auto" => hw'.itr = Timers("auto", cfg', link'.mbps)
    BY DEF Linked
  <2>1. UNCHANGED <<cfg, hw, pc, link>> /\ work.at = "idle"
    BY <1>2 DEF Look, rtnl
  <2>2. ~news /\ "link" \notin crossed
    BY LinkCrossing
  <2> QED BY <2>1, <2>2 DEF Linked
<1>3. CASE WorkMode \/ WorkTimers \/ WorkWrite
  <2>1. work'.at # "idle"
    BY <1>3 DEF WorkMode, WorkTimers, WorkWrite, IdleWork, TypeOK
  <2> QED BY <2>1 DEF Linked
<1>4. CASE WorkFc
  <2>1. UNCHANGED <<cfg, link, mbps, news>> /\ work.at = "fc"
    BY <1>4 DEF WorkFc
  <2>2. hw'.fc = link.fc /\ hw'.itr = hw.itr
    BY <1>4, PauseFrame DEF Moderation
  <2>3. ~news => mbps = link.mbps
    BY DEF Control
  <2> QED BY <2>1, <2>2, <2>3 DEF Linked, Automatic
<1>5. CASE aq_ethtool_set_coalesce \/ CoalesceRead \/ CoalesceWrite
  <2>1. hw'.fc = hw.fc
    BY <1>5, TimerFrame
  <2>2. cfg'.itr = "on"
    BY <1>5 DEF aq_ethtool_set_coalesce, CoalesceRead, CoalesceWrite, Control, TypeOK, CfgType
  <2>3. UNCHANGED <<work, news, link>> /\ pc # "init"
    BY <1>5 DEF aq_ethtool_set_coalesce, CoalesceRead, CoalesceWrite, Idle
  <2>4. "link" \notin crossed' => "link" \notin crossed \/ work'.at = "mode"
    BY LinkCrossing
  <2> QED BY <2>1, <2>2, <2>3, <2>4 DEF Linked
<1>6. CASE hw_reset
  BY <1>6 DEF hw_reset, Goto, Linked
<1>7. CASE aq_nic_init \/ StartItr
  <2>1. news'
    BY <1>7 DEF aq_nic_init, StartItr, Control
  <2> QED BY <2>1 DEF Linked
<1> QED BY <1>1, <1>2, <1>3, <1>4, <1>5, <1>6, <1>7, StepKinds DEF aq_nic_update_link_status

-----------------------------------------------------------------------------
(* The packet filter and the list of addresses. *)

\* The flags f with mc_list take in what the stack listens to.
Covered(f) ==
    /\ {"promisc", "allmulti"} \cap wanted.flags \subseteq f
    /\ \A a \in wanted.uc \cup wanted.mc :
          \/ "promisc" \in f
          \/ a \in wanted.mc /\ "allmulti" \in f
          \/ "multicast" \in f /\ \E i \in 1 .. nic.count : nic.ar[i] = a

\* set_rx_mode: what it has put together so far, and what it leaves behind.
Listed ==
    /\ rx.at \in {"clear", "fill"} => rx.filter = wanted.flags
    /\ rx.at \in {"list", "filter"} => Covered(rx.filter)
    /\ rx.at = "idle" /\ up => Covered(nic.packet_filter)

\* The registers: the addresses of mc_list are written unless the device was
\* reset or set_rx_mode is about to write them, and the modes likewise.
AddressesWritten ==
    /\ nic.count <= cfg.mc_list_count
    /\ \A i \in 1 .. nic.count : hw.addr[i] = nic.ar[i]
ModesWritten ==
    /\ hw.promisc = ("promisc" \in nic.packet_filter)
    /\ hw.allmulti = ("allmulti" \in nic.packet_filter)
    /\ \A i \in 1 .. nic.count : hw.on[i] = ("multicast" \in nic.packet_filter)
FiltersWritten ==
    /\ pc = "list" => rx.at = "idle" /\ held = nic.count
    /\ pc \notin {"init", "count", "list"} /\ rx.at \in {"idle", "fill", "filter"} =>
          AddressesWritten
    /\ pc \notin {"init", "count", "list", "filter"} /\ rx.at = "idle" => ModesWritten
Filtering == "rx" \notin crossed => FiltersWritten

LEMMA StackListed ==
    ASSUME TypeOK, Control, Listed, Stack
    PROVE  Listed'
<1>0. /\ wanted \in [uc : SUBSET Unicast, mc : SUBSET Multicast, flags : SUBSET Flags]
      /\ nic \in [packet_filter : SUBSET Flags, ar : [Slots -> Addrs], count : 0 .. ListMax]
      /\ rx \in [at : {"idle", "flags", "clear", "fill", "list", "filter"}, filter : SUBSET Flags]
  BY DEF TypeOK
<1>1. CASE ChangeDown
  BY <1>1 DEF ChangeDown, Listed
<1>2. CASE Change
  <2>1. rx'.at = "flags"
    BY <1>0, <1>2 DEF Change
  <2> QED BY <2>1 DEF Listed
<1>3. CASE RxFlags
  BY <1>3 DEF RxFlags, Listed
<1>4. CASE RxClear
  <2>1. rx'.at = "fill" /\ rx'.filter = rx.filter /\ rx.at = "clear" /\ UNCHANGED wanted
    BY <1>0, <1>4 DEF RxClear
  <2> QED BY <2>1 DEF Listed
<1>5. CASE RxFill
  <2> DEFINE f == Fill(wanted)
             n == Len(f.list)
             ar == [i \in Slots |-> IF i <= n THEN f.list[i] ELSE nic.ar[i]]
  <2>1. IsFiniteSet(wanted.uc) /\ IsFiniteSet(wanted.mc)
    BY DEF Control
  <2>2. /\ n \in 0 .. ListMax
        /\ \A a \in wanted.uc \cup wanted.mc :
              \/ "promisc" \in f.more
              \/ a \in wanted.mc /\ "allmulti" \in f.more
              \/ \E i \in 1 .. n : f.list[i] = a
    BY <1>0, <2>1, Filled
  <2>3. /\ nic' = [nic EXCEPT !.ar = ar, !.count = n] /\ UNCHANGED wanted /\ rx.at = "fill"
        /\ rx' = IF n > 0
                 THEN [at |-> "list", filter |-> rx.filter \cup f.more \cup {"multicast"}]
                 ELSE [at |-> "filter", filter |-> rx.filter \cup f.more]
    BY <1>5 DEF RxFill
  <2>4. rx'.at \in {"list", "filter"} /\ rx.filter = wanted.flags
    BY <2>3 DEF Listed
  <2>5. /\ rx.filter \cup f.more \subseteq rx'.filter
        /\ n > 0 => "multicast" \in rx'.filter
    <3> HIDE DEF f, n
    <3> QED BY <2>3
  <2>6. nic'.count = n /\ \A i \in 1 .. n : nic'.ar[i] = f.list[i]
    <3>1. nic'.count = n /\ nic'.ar = ar
      BY <1>0, <2>3
    <3>2. \A i \in 1 .. n : i \in Slots
      BY <2>2, ConfigAssumption DEF Slots
    <3> QED BY <3>1, <3>2, <2>2
  <2> HIDE DEF f, n, ar
  <2>7. ASSUME NEW a \in wanted.uc \cup wanted.mc
        PROVE  \/ "promisc" \in rx'.filter
               \/ a \in wanted.mc /\ "allmulti" \in rx'.filter
               \/ "multicast" \in rx'.filter /\ \E i \in 1 .. n : nic'.ar[i] = a
    <3>1. CASE \E i \in 1 .. n : f.list[i] = a
      <4>1. PICK i \in 1 .. n : f.list[i] = a
        BY <3>1
      <4>2. n > 0 /\ nic'.ar[i] = a
        BY <2>2, <2>6, <4>1
      <4> QED BY <2>5, <4>2
    <3> QED BY <2>2, <2>5, <3>1
  <2>8. Covered(rx.filter)'
    BY <2>3, <2>4, <2>5, <2>6, <2>7 DEF Covered
  <2> QED BY <2>4, <2>8 DEF Listed
<1>6. CASE RxList
  <2>1. rx'.at = "filter" /\ rx'.filter = rx.filter /\ rx.at = "list" /\ UNCHANGED <<wanted, nic>>
    BY <1>0, <1>6 DEF RxList
  <2> QED BY <2>1 DEF Listed, Covered
<1>7. CASE RxFilter
  <2>1. /\ rx'.at = "idle" /\ rx.at = "filter" /\ UNCHANGED wanted
        /\ nic'.packet_filter = rx.filter /\ nic'.ar = nic.ar /\ nic'.count = nic.count
    BY <1>0, <1>7 DEF RxFilter, aq_nic_set_packet_filter
  <2> QED BY <2>1 DEF Listed, Covered
<1> QED BY <1>1, <1>2, <1>3, <1>4, <1>5, <1>6, <1>7
        DEF Stack, aq_ndev_set_multicast_settings, aq_nic_set_multicast_list

LEMMA ListedNext ==
    ASSUME TypeOK, Control, Listed, Step
    PROVE  Listed'
<1>1. CASE Stack
  BY <1>1, StackListed
<1>2. CASE ~Stack
  <2>1. UNCHANGED <<wanted, nic>>
    BY <1>2 DEF Step, Rtnl, LinkChange, aq_nic_update_link_status, Look, WorkMode, WorkTimers,
          WorkWrite, WorkFc, aq_ndev_open, aq_ndev_close, aq_ndev_set_features,
          aq_ndev_set_mac_address, aq_ethtool_set_rss, aq_ethtool_set_pauseparam,
          aq_ethtool_set_coalesce, CoalesceRead, CoalesceWrite, aq_nic_stop, hw_reset,
          aq_nic_init, aq_nic_start, StartCount, StartList, StartFilter, StartItr, OpenEnd
  <2>2. (UNCHANGED rx /\ (up' => up)) \/ rx'.at = "flags"
    <3>1. CASE StartItr
      BY <3>1 DEF StartItr, TypeOK, Control, Bringing
    <3>2. CASE aq_nic_stop
      BY <3>2 DEF aq_nic_stop
    <3> QED BY <1>2, <3>1, <3>2 DEF Step, Rtnl, LinkChange, aq_nic_update_link_status, Look,
          WorkMode, WorkTimers, WorkWrite, WorkFc, aq_ndev_open, aq_ndev_close,
          aq_ndev_set_features, aq_ndev_set_mac_address, aq_ethtool_set_rss,
          aq_ethtool_set_pauseparam, aq_ethtool_set_coalesce, CoalesceRead, CoalesceWrite,
          hw_reset, aq_nic_init, aq_nic_start, StartCount, StartList, StartFilter, OpenEnd
  <2> QED BY <2>1, <2>2 DEF Listed, Covered
<1> QED BY <1>1, <1>2

\* What the two calls of the hardware layer leave in the filters.
LEMMA ListWrites ==
    ASSUME TypeOK, hw_multicast_list_set(nic.ar, nic.count), UNCHANGED nic
    PROVE  AddressesWritten'
<1>1. cfg \in CfgType /\ hw \in HwType /\ nic.count \in 0 .. ListMax /\ ListMax \in Nat
  BY ConfigAssumption DEF TypeOK
<1>2. cfg'.mc_list_count = nic.count
  BY <1>1 DEF hw_multicast_list_set, CfgType
<1>3. hw'.addr = [i \in Slots |-> IF i <= nic.count THEN nic.ar[i] ELSE hw.addr[i]]
  BY <1>1 DEF hw_multicast_list_set, HwType
<1>4. \A i \in 1 .. nic.count : i \in Slots /\ i <= nic.count
  BY <1>1 DEF Slots
<1> QED BY <1>1, <1>2, <1>3, <1>4 DEF AddressesWritten

LEMMA ModesWrites ==
    ASSUME TypeOK, NEW f, hw_packet_filter_set(f), nic'.packet_filter = f,
           nic'.ar = nic.ar, nic'.count = nic.count, AddressesWritten
    PROVE  AddressesWritten' /\ ModesWritten'
<1>1. cfg \in CfgType /\ hw \in HwType /\ nic.count \in 0 .. ListMax /\ ListMax \in Nat
      /\ cfg.mc_list_count \in 0 .. ListMax
  BY ConfigAssumption DEF TypeOK, CfgType
<1>2. cfg'.mc_list_count = cfg.mc_list_count /\ hw'.addr = hw.addr
  BY <1>1 DEF hw_packet_filter_set, CfgType, HwType
<1>3. /\ hw'.promisc = ("promisc" \in f) /\ hw'.allmulti = ("allmulti" \in f)
      /\ hw'.on = [i \in Slots |-> "multicast" \in f /\ i <= cfg.mc_list_count]
  BY <1>1 DEF hw_packet_filter_set, HwType
<1>4. nic.count <= cfg.mc_list_count
  BY DEF AddressesWritten
<1>5. \A i \in 1 .. nic.count : i \in Slots /\ i <= cfg.mc_list_count
  BY <1>1, <1>4 DEF Slots
<1>6. \A i \in 1 .. nic.count : hw'.on[i] = ("multicast" \in f)
  BY <1>3, <1>5
<1> QED BY <1>2, <1>3, <1>6 DEF AddressesWritten, ModesWritten

\* What crossed records of the filters.
LEMMA RxCrossing ==
    ASSUME Crossing, "rx" \notin crossed'
    PROVE  /\ ~(pc' = "list" /\ rx'.at # "idle")
           /\ "rx" \notin crossed \/ rx'.at = "flags" \/ pc' = "count"
  BY DEF Crossing

LEMMA StackFiltering ==
    ASSUME TypeOK, Control, FiltersWritten, Stack, pc' = "list" => rx'.at = "idle"
    PROVE  FiltersWritten'
<1>0. /\ cfg.mc_list_count \in Nat
      /\ nic \in [packet_filter : SUBSET Flags, ar : [Slots -> Addrs], count : 0 .. ListMax]
      /\ rx \in [at : {"idle", "flags", "clear", "fill", "list", "filter"}, filter : SUBSET Flags]
  BY ConfigAssumption DEF TypeOK, CfgType
<1>1. UNCHANGED <<pc, held>>
  BY DEF Stack, ChangeDown, aq_ndev_set_multicast_settings, Change, RxFlags,
         aq_nic_set_multicast_list, RxClear, RxFill, RxList, RxFilter, rtnl
<1>2. pc' = "list" => rx.at = "idle"
  BY <1>1 DEF FiltersWritten
<1>3. CASE ChangeDown
  BY <1>1, <1>3 DEF ChangeDown, FiltersWritten, AddressesWritten, ModesWritten
<1>4. CASE Change \/ RxFlags
  <2>1. rx'.at \in {"flags", "clear"}
    BY <1>0, <1>4 DEF Change, RxFlags
  <2> QED BY <2>1 DEF FiltersWritten
<1>5. CASE RxClear \/ RxFill
  <2>1. rx.at # "idle"
    BY <1>5 DEF RxClear, RxFill
  <2>2. rx'.at # "idle" /\ (rx'.at \in {"fill", "filter"} => nic'.count = 0) /\ UNCHANGED cfg
    <3>1. CASE RxClear
      BY <1>0, <3>1 DEF RxClear
    <3>2. CASE RxFill
      <4>1. Len(Fill(wanted).list) > 0 => rx'.at = "list"
        BY <3>2 DEF RxFill
      <4>2. ~(Len(Fill(wanted).list) > 0) => rx'.at = "filter"
        BY <3>2 DEF RxFill
      <4>3. nic'.count = Len(Fill(wanted).list) /\ UNCHANGED cfg
        BY <1>0, <3>2 DEF RxFill
      <4>4. Len(Fill(wanted).list) \in Nat
        BY Filled DEF Control, TypeOK
      <4> QED BY <4>1, <4>2, <4>3, <4>4
    <3> QED BY <1>5, <3>1, <3>2
  <2>3. rx'.at \in {"fill", "filter"} => AddressesWritten'
    BY <1>0, <2>2 DEF AddressesWritten
  <2> QED BY <1>1, <1>2, <2>1, <2>2, <2>3 DEF FiltersWritten
<1>6. CASE RxList
  <2>1. rx'.at = "filter" /\ rx.at # "idle"
    BY <1>0, <1>6 DEF RxList
  <2>2. AddressesWritten'
    BY <1>6, ListWrites DEF RxList
  <2> QED BY <1>1, <1>2, <2>1, <2>2 DEF FiltersWritten
<1>7. CASE RxFilter
  <2>1. /\ rx.at = "filter" /\ hw_packet_filter_set(rx.filter)
        /\ nic'.packet_filter = rx.filter /\ nic'.ar = nic.ar /\ nic'.count = nic.count
    BY <1>0, <1>7 DEF RxFilter, aq_nic_set_packet_filter
  <2>2. AddressesWritten => AddressesWritten' /\ ModesWritten'
    BY <2>1, ModesWrites
  <2> QED BY <1>1, <1>2, <2>1, <2>2 DEF FiltersWritten
<1> QED BY <1>3, <1>4, <1>5, <1>6, <1>7
        DEF Stack, aq_ndev_set_multicast_settings, aq_nic_set_multicast_list

\* Steps that leave the filters alone.
LEMMA FilteringStays ==
    ASSUME TypeOK, Control, FiltersWritten,
           \/ LinkChange \/ aq_nic_update_link_status
           \/ aq_ndev_set_features \/ aq_ndev_set_mac_address \/ aq_ethtool_set_rss
           \/ aq_ethtool_set_pauseparam \/ aq_ethtool_set_coalesce \/ CoalesceRead \/ CoalesceWrite
           \/ aq_ndev_open \/ aq_ndev_close \/ aq_nic_stop \/ OpenEnd \/ StartItr
    PROVE  FiltersWritten'
<1>1. UNCHANGED Filter
  <2>1. CASE UNCHANGED <<cfg, hw>>
    BY <2>1 DEF Filter
  <2> QED BY <2>1, SettingFrame, TimerFrame, PauseFrame
          DEF LinkChange, aq_nic_update_link_status, Look, aq_ndev_open, aq_ndev_close,
              aq_nic_stop, OpenEnd
<1>2. UNCHANGED nic /\ (UNCHANGED rx \/ rx'.at = "flags")
  BY DEF LinkChange, aq_nic_update_link_status, Look, WorkMode, WorkTimers, WorkWrite, WorkFc,
         aq_ndev_open, aq_ndev_close, aq_ndev_set_features, aq_ndev_set_mac_address,
         aq_ethtool_set_rss, aq_ethtool_set_pauseparam, aq_ethtool_set_coalesce, CoalesceRead,
         CoalesceWrite, aq_nic_stop, StartItr, OpenEnd, TypeOK
<1>3. \/ UNCHANGED <<pc, held>>
      \/ pc \notin {"init", "count", "list", "filter"} /\ pc' # "list"
  BY DEF LinkChange, aq_nic_update_link_status, Look, WorkMode, WorkTimers, WorkWrite, WorkFc,
         aq_ndev_open, aq_ndev_close, aq_ndev_set_features, aq_ndev_set_mac_address,
         aq_ethtool_set_rss, aq_ethtool_set_pauseparam, aq_ethtool_set_coalesce, CoalesceRead,
         CoalesceWrite, aq_nic_stop, StartItr, OpenEnd, Goto, Idle, rtnl
<1>4. pc' = "list" => UNCHANGED <<pc, held, rx>>
  BY <1>3 DEF LinkChange, aq_nic_update_link_status, Look, WorkMode, WorkTimers, WorkWrite,
         WorkFc, aq_ndev_open, aq_ndev_close, aq_ndev_set_features, aq_ndev_set_mac_address,
         aq_ethtool_set_rss, aq_ethtool_set_pauseparam, aq_ethtool_set_coalesce, CoalesceRead,
         CoalesceWrite, aq_nic_stop, StartItr, OpenEnd, Goto
<1>5. UNCHANGED <<cfg.mc_list_count, hw.addr, hw.on, hw.promisc, hw.allmulti>>
  BY <1>1 DEF Filter
<1>6. UNCHANGED nic /\ (AddressesWritten => AddressesWritten') /\ (ModesWritten => ModesWritten')
  BY <1>2, <1>5 DEF AddressesWritten, ModesWritten
<1> QED BY <1>2, <1>3, <1>4, <1>6 DEF FiltersWritten

LEMMA FilteringNext ==
    ASSUME TypeOK, Control, Filtering, Step, Crossing
    PROVE  Filtering'
<1> SUFFICES ASSUME "rx" \notin crossed' PROVE FiltersWritten'
  BY DEF Filtering
<1>0. nic.count \in 0 .. ListMax
  BY DEF TypeOK
<1>1. pc' = "list" => rx'.at = "idle"
  BY RxCrossing
<1>2. CASE rx'.at = "flags" \/ pc' = "count"
  BY <1>1, <1>2 DEF FiltersWritten
<1>3. CASE FiltersWritten
  <2>1. CASE Stack
    BY <1>1, <1>3, <2>1, StackFiltering
  <2>2. CASE hw_reset \/ aq_nic_init
    BY <2>2 DEF hw_reset, aq_nic_init, Goto, FiltersWritten
  <2>3. CASE StartCount
    BY <1>1, <2>3 DEF StartCount, FiltersWritten
  <2>4. CASE StartList
    <3>1. pc = "list" /\ pc' = "filter" /\ UNCHANGED nic /\ hw_multicast_list_set(nic.ar, held)
      BY <2>4 DEF StartList
    <3>2. held = nic.count
      BY <1>3, <3>1 DEF FiltersWritten
    <3>3. AddressesWritten'
      BY <3>1, <3>2, ListWrites
    <3> QED BY <3>1, <3>3 DEF FiltersWritten
  <2>5. CASE StartFilter
    <3>1. /\ pc = "filter" /\ pc' = "itr" /\ UNCHANGED <<nic, rx>>
          /\ hw_packet_filter_set(nic.packet_filter)
      BY <2>5 DEF StartFilter, Goto
    <3>2. AddressesWritten => AddressesWritten' /\ ModesWritten'
      BY <3>1, ModesWrites
    <3> QED BY <1>3, <3>1, <3>2 DEF FiltersWritten
  <2> QED BY <1>3, <2>1, <2>2, <2>3, <2>4, <2>5, FilteringStays DEF Step, Rtnl, aq_nic_start
<1> QED BY <1>2, <1>3, RxCrossing DEF Filtering

-----------------------------------------------------------------------------
(* The inductive invariant. *)

Inv == TypeOK /\ Control /\ Offloads /\ Moderated /\ Automatic /\ Linked /\ Listed /\ Filtering

LEMMA InitInv == Init => Inv
<1> SUFFICES ASSUME Init PROVE Inv
  OBVIOUS
<1>1. PICK m \in setup.macs, k \in setup.keys, vmklnx \in BOOLEAN :
          cfg = [mac |-> m, features |-> Features, is_lro |-> TRUE,
                 is_vlan_rx_strip |-> vmklnx, flow_control |-> TRUE,
                 itr |-> setup.itr, tx_itr |-> 0, rx_itr |-> 0,
                 table |-> [i \in 0 .. RssSize - 1 |-> i % RssQueues],
                 key |-> k, mc_list_count |-> 0, is_mc_list_enabled |-> FALSE]
  BY DEF Init
<1>2. /\ setup \in Setups /\ pc = "idle" /\ op = "none" /\ up = FALSE /\ service = FALSE
      /\ wanted = [uc |-> {}, mc |-> {}, flags |-> {"multicast"}]
      /\ nic = [packet_filter |-> {}, ar |-> [i \in Slots |-> NoAddr], count |-> 0]
      /\ rx = [at |-> "idle", filter |-> {}] /\ work = IdleWork
      /\ link = [mbps |-> 0, fc |-> FALSE] /\ mbps = 0 /\ seen = 0
      /\ hw = ResetRegisters /\ news = FALSE /\ crossed = {}
  BY DEF Init
<1>3. work.at = "idle" /\ link.mbps = 0 /\ rx.at = "idle"
  BY <1>2 DEF IdleWork
<1>4. TypeOK
  <2>1. m \in Macs /\ k \in Keys /\ setup.itr \in Modes
    BY <1>2, ConfigAssumption DEF Modes
  <2>2. [i \in 0 .. RssSize - 1 |-> i % RssQueues] \in Tables
    BY ConfigAssumption DEF Tables
  <2>3. cfg \in CfgType
    BY <1>1, <2>1, <2>2, ConfigAssumption DEF CfgType
  <2>4. work \in [at : {"idle"}, itr : Modes, timers : ItrType] /\ hw \in HwType
    BY <1>2, ResetType DEF IdleWork, Modes
  <2>5. nic \in [packet_filter : SUBSET Flags, ar : [Slots -> Addrs], count : 0 .. ListMax]
    BY <1>2, ConfigAssumption DEF Addrs
  <2>6. /\ wanted \in [uc : SUBSET Unicast, mc : SUBSET Multicast, flags : SUBSET Flags]
        /\ link \in [mbps : Mbps, fc : BOOLEAN] /\ {mbps, seen} \subseteq Mbps
    BY <1>2 DEF Flags, Mbps
  <2> QED BY <1>2, <2>3, <2>4, <2>5, <2>6 DEF TypeOK
<1>5. Control
  <2>1. IsFiniteSet(wanted.uc) /\ IsFiniteSet(wanted.mc)
    BY <1>2, FS_EmptySet
  <2>2. mbps = link.mbps
    BY <1>2
  <2> QED BY <1>2, <1>3, <2>1, <2>2 DEF Control, Bringing
<1>6. Offloads /\ Moderated /\ Automatic /\ Linked
  BY <1>2, <1>3 DEF Offloads, Initialised, Moderated, Tuned, Automatic, Linked
<1>7. Listed
  BY <1>2, <1>3 DEF Listed
<1>8. Filtering
  <2>1. nic.count = 0 /\ cfg.mc_list_count = 0 /\ nic.packet_filter = {}
    BY <1>1, <1>2
  <2>2. hw.promisc = FALSE /\ hw.allmulti = FALSE
    BY <1>2 DEF ResetRegisters
  <2>3. AddressesWritten
    BY <2>1 DEF AddressesWritten
  <2>4. ModesWritten
    <3>1. 1 .. nic.count = {}
      BY <2>1
    <3>2. \A x : (x \in nic.packet_filter) = FALSE
      BY <2>1
    <3>3. /\ hw.promisc = ("promisc" \in nic.packet_filter)
          /\ hw.allmulti = ("allmulti" \in nic.packet_filter)
      BY <2>2, <3>2, Zenon
    <3> QED BY <3>1, <3>3 DEF ModesWritten
  <2> QED BY <1>2, <2>3, <2>4 DEF Filtering, FiltersWritten
<1> QED BY <1>4, <1>5, <1>6, <1>7, <1>8 DEF Inv

LEMMA NextInv == Inv /\ [Next]_vars => Inv'
<1>1. ASSUME Inv, Next PROVE Inv'
  <2>1. Step /\ Crossing
    BY <1>1 DEF Next, Step
  <2>2. TypeOK /\ Control /\ Offloads /\ Moderated /\ Automatic /\ Linked /\ Listed /\ Filtering
    BY <1>1 DEF Inv
  <2>3. IsFiniteSet(wanted.uc) /\ IsFiniteSet(wanted.mc)
    BY <2>2 DEF Control
  <2>4. TypeOK'
    BY <2>1, <2>2, <2>3, StackType, WorkType, SettingType, LifeType DEF Step, Rtnl
  <2>5. Control'
    BY <2>1, <2>2, StackControl, WorkControl, SettingControl, LifeControl DEF Step, Rtnl
  <2>6. Offloads'
    BY <2>1, <2>2, OffloadsNext
  <2>7. Moderated' /\ Automatic' /\ Linked'
    BY <2>1, <2>2, <2>5, ModeratedNext, AutomaticNext, LinkedNext
  <2>8. Listed' /\ Filtering'
    BY <2>1, <2>2, ListedNext, FilteringNext
  <2> QED BY <2>4, <2>5, <2>6, <2>7, <2>8 DEF Inv
<1>2. ASSUME Inv, UNCHANGED vars PROVE Inv'
  <2>1. UNCHANGED <<setup, pc, op, held, up, service, wanted, cfg, nic, rx, work, link, mbps,
                    seen, hw, news, crossed>>
    BY <1>2 DEF vars, rtnl
  <2> QED BY <1>2, <2>1 DEF Inv, TypeOK, Control, Offloads, Initialised, Written, Moderated, Tuned,
          Automatic, Linked, Listed, Covered, Filtering, FiltersWritten, AddressesWritten,
          ModesWritten
<1> QED BY <1>1, <1>2

LEMMA Always == Spec => []Inv
  BY InitInv, NextInv, PTL DEF Spec

\* Every setting, register and value a thread holds between two steps has its
\* type; the counts never pass the number of filters.
THEOREM TypeCorrect == Spec => []TypeOK
<1>1. Inv => TypeOK
  BY DEF Inv
<1> QED BY <1>1, Always, PTL

\* Whatever calls, resets and link changes led here, an interface that is up
\* and at rest has in its registers what was asked for: address, offloads, RSS
\* key, every entry of an indirection table of any size, and, but for the races
\* named in crossed, moderation and flow control.
THEOREM SettingsInForce == Spec => []InForce
<1>1. ASSUME Inv PROVE InForce
  <2> SUFFICES ASSUME AtRest PROVE InForce
    BY DEF InForce
  <2>1. up /\ pc = "idle"
    BY DEF AtRest
  <2>2. Written
    BY <1>1, <2>1 DEF Inv, Offloads, Initialised
  <2>3. cfg.table \in Tables
    BY <1>1 DEF Inv, TypeOK, CfgType
  <2>4. \A i \in 0 .. RssSize - 1 : Redirect(i) = cfg.table[i]
    BY <2>2, <2>3, Redirected DEF Written
  <2>5. work.at = "idle" /\ "itr" \notin crossed /\ cfg.itr # "auto" =>
            hw.itr = Timers(cfg.itr, cfg, mbps)
    BY <1>1, <2>1 DEF Inv, Moderated, Tuned
  <2>6. work.at = "idle" /\ ~news /\ link.mbps # 0 /\ "link" \notin crossed =>
            /\ hw.fc = link.fc
            /\ cfg.itr = "auto" => hw.itr = Timers("auto", cfg, link.mbps)
    BY <1>1, <2>1 DEF Inv, Linked
  <2> QED BY <2>2, <2>4, <2>5, <2>6 DEF InForce, Written
<1> QED BY <1>1, Always, PTL

\* Whatever lists the stack hands over, and however many filters there are, the
\* device takes in every address of them after set_rx_mode, open and restart,
\* unless a set_rx_mode ran inside aq_nic_start.
THEOREM StackIsHeard == Spec => []RxCovers
<1>1. ASSUME Inv PROVE RxCovers
  <2> SUFFICES ASSUME AtRest, rx.at = "idle", "rx" \notin crossed
               PROVE  /\ \A a \in wanted.uc \cup wanted.mc \cup {cfg.mac} : Accepts(a)
                      /\ "promisc" \in wanted.flags => hw.promisc
                      /\ "allmulti" \in wanted.flags => hw.allmulti
    BY DEF RxCovers
  <2>1. up /\ pc = "idle"
    BY DEF AtRest
  <2>2. hw.mac = cfg.mac
    BY <1>1, <2>1 DEF Inv, Offloads, Initialised, Written
  <2>3. Covered(nic.packet_filter)
    BY <1>1, <2>1 DEF Inv, Listed
  <2>4. AddressesWritten /\ ModesWritten
    BY <1>1, <2>1 DEF Inv, Filtering, FiltersWritten
  <2>5. nic.count \in 0 .. ListMax /\ wanted.mc \subseteq Multicast /\ ListMax \in Nat
    BY <1>1, ConfigAssumption DEF Inv, TypeOK
  <2>6. ASSUME NEW a \in wanted.uc \cup wanted.mc PROVE Accepts(a)
    <3>1. CASE "promisc" \in nic.packet_filter
      BY <2>4, <3>1 DEF ModesWritten, Accepts
    <3>2. CASE a \in wanted.mc /\ "allmulti" \in nic.packet_filter
      BY <2>4, <2>5, <3>2 DEF ModesWritten, Accepts
    <3>3. CASE "multicast" \in nic.packet_filter /\ \E i \in 1 .. nic.count : nic.ar[i] = a
      <4>1. PICK i \in 1 .. nic.count : nic.ar[i] = a
        BY <3>3
      <4>2. i \in Slots
        BY <2>5 DEF Slots
      <4>3. hw.on[i] /\ hw.addr[i] = a
        BY <2>4, <3>3, <4>1 DEF AddressesWritten, ModesWritten
      <4> QED BY <4>2, <4>3 DEF Accepts
    <3> QED BY <2>3, <3>1, <3>2, <3>3 DEF Covered
  <2>7. Accepts(cfg.mac)
    BY <2>2 DEF Accepts
  <2>8. /\ "promisc" \in wanted.flags => hw.promisc
        /\ "allmulti" \in wanted.flags => hw.allmulti
    BY <2>3, <2>4 DEF Covered, ModesWritten
  <2> QED BY <2>6, <2>7, <2>8
<1> QED BY <1>1, Always, PTL

=============================================================================

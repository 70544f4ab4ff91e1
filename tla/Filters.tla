------------------------------ MODULE Filters ------------------------------
(***************************************************************************)
(* The Rx flow rules of ethtool -N and the VLAN filter: the rule list, the *)
(* table of VLANs, and the filter registers they are written to.  All      *)
(* operations run under the rtnl lock.                                     *)
(*                                                                         *)
(* Locations 0 .. NV-1 hold VLAN ID rules, the next NE EtherType rules and *)
(* the last NL L3/L4 rules, as in the driver's fixed order.  A rule's      *)
(* location is also the place of its registers; an IPv6 rule takes the     *)
(* registers of V6 locations.  The list, sorted by location and without    *)
(* duplicates, is a function from locations to rules.                      *)
(***************************************************************************)
EXTENDS Integers, FiniteSets

CONSTANTS
    NV, NE, NL,  \* number of locations: 16, 16 and 8 in the driver
    V6,          \* HW_ATL_RX_CNT_REG_ADDR_IPV6
    Vids,        \* VLAN ids
    NumRss,      \* num_rss_queues
    MaxQueue,    \* HW_ATL_RX_MAX_QUEUE
    Disc,        \* RX_CLS_FLOW_DISC: discard instead of a queue
    NoQueue,     \* AQ_RX_QUEUE_INVALID
    NoRule,
    Specs        \* the flow specs the user asks for

VlanLocs  == 0 .. NV - 1
EtherLocs == NV .. NV + NE - 1
L3L4Locs  == NV + NE .. NV + NE + NL - 1
Locs      == 0 .. NV + NE + NL - 1
Queues    == Nat \cup {Disc}

(***************************************************************************)
(* A flow spec: its flow type, the mask of its vlan_tci (FLOW_EXT), the    *)
(* tci itself, the other fields it compares (key), its action and its      *)
(* location.  "v4" and "v6" stand for the TCP, UDP, SCTP and user flows;   *)
(* "ip4" and "ip6" for IPV4_FLOW and IPV6_FLOW, which the check lets pass  *)
(* and aq_add_del_rule refuses.                                            *)
(***************************************************************************)
IsSpec(r) ==
    /\ r.flow \in {"ether", "v4", "v6", "ip4", "ip6"}
    /\ r.mask \in {"none", "vid", "prio"}
    /\ r.tci \in Nat /\ r.queue \in Queues /\ r.loc \in Nat
    /\ r.mask = "none" => r.tci = 0
    /\ r.mask = "vid" => r.tci \in Vids

\* A driver has at most 8 RSS queues; a VLAN register keeps 5 bits of a queue.
ASSUME FilterAssumption ==
    /\ {NV, NE, NL, V6, NumRss, MaxQueue} \subseteq Nat \ {0}
    /\ Vids \subseteq Nat /\ IsFiniteSet(Vids)
    /\ NL = 2 * V6 /\ NumRss < 32
    /\ \A r \in Specs : IsSpec(r)
    /\ Disc \notin Nat /\ NoQueue \notin Queues /\ NoRule \notin Specs

VARIABLES
    ntuple, vlan,   \* NETIF_F_NTUPLE, NETIF_F_HW_VLAN_CTAG_FILTER of the netdev
    want,           \* the features aq_ndev_set_features is setting: a set of
                    \* at most one pair
    nic,            \* the rule list, the table of VLANs and what goes with them
    hw              \* the registers; slots are those of EtherType and L3/L4 rules

vars == <<ntuple, vlan, want, nic, hw>>

Row == [enable : BOOLEAN, vid : Nat, queue : Nat \cup {NoQueue}]
ZeroRow == [enable |-> FALSE, vid |-> 0, queue |-> 0]

Init ==
    /\ ntuple = TRUE /\ vlan = TRUE /\ want = {}
    /\ nic = [list    |-> [l \in Locs |-> NoRule],
              vlans   |-> [l \in VlanLocs |-> ZeroRow],
              active  |-> {},
              is_ipv6 |-> FALSE, active_ipv4 |-> {}, active_ipv6 |-> {}]
    /\ hw = [vlans |-> [l \in VlanLocs |-> ZeroRow],
             slots |-> [l \in EtherLocs \cup L3L4Locs |-> NoRule],
             prom  |-> TRUE]

-----------------------------------------------------------------------------
(***************************************************************************)
(* The functions below take the driver's filters and the registers, as a   *)
(* pair s, and return them changed.                                        *)
(***************************************************************************)
State(n, h) == [nic |-> n, hw |-> h]

\* Rank of x among the numbers in S, and the member of S that has a rank.
Rank(x, S) == Cardinality({y \in S : y < x})
Ranked(k, S) == CHOOSE x \in S : Rank(x, S) = k

\* A slip: the rows of rules are rebuilt, too.
FreeRowsAll(rows) == VlanLocs

\* The rows no rule has given a queue.
FreeRows(rows) == {l \in VlanLocs : ~rows[l].enable \/ rows[l].queue = NoQueue}

\* The free rows take, in order, the active VLANs that no row with a queue has.
aq_fvlan_rebuild(active, rows) ==
    LET free == FreeRows(rows)
        todo == active \ {rows[l].vid : l \in VlanLocs \ free}
    IN  [l \in VlanLocs |->
            IF l \notin free THEN rows[l]
            ELSE IF Rank(l, free) < Cardinality(todo)
            THEN [enable |-> TRUE, vid |-> Ranked(Rank(l, free), todo), queue |-> NoQueue]
            ELSE [enable |-> FALSE, vid |-> 0, queue |-> NoQueue]]

\* hw_filter_vlan_set writes id and queue of enabled rows only.
hw_filter_vlan_set(rows) ==
    [l \in VlanLocs |-> IF rows[l].enable THEN rows[l] ELSE ZeroRow]

\* A slip: one VLAN too many.
FilterFitsLate(active) == Cardinality(active) <= NV + 1

FilterFits(active) == Cardinality(active) <= NV

aq_filters_vlans_update(s) ==
    LET rows == aq_fvlan_rebuild(s.nic.active, s.nic.vlans)
    IN  State([s.nic EXCEPT !.vlans = rows],
              [s.hw EXCEPT !.vlans = hw_filter_vlan_set(rows),
                           !.prom = ~FilterFits(s.nic.active)])

Type(r) ==
    IF r.mask = "vid" THEN "vlan"
    ELSE IF r.mask = "prio" \/ r.flow = "ether" THEN "ethertype"
    ELSE IF r.flow \in {"v4", "v6"} THEN "l3l4"
    ELSE "none"

-----------------------------------------------------------------------------
(* aq_add_del_rule, by the type of the rule. *)

aq_set_data_fvlan(rows, r, add) ==
    LET cleared == [rows EXCEPT ![r.loc] = ZeroRow]
    IN  IF ~add THEN cleared
        ELSE [l \in VlanLocs |->
                 IF l = r.loc
                 THEN [enable |-> TRUE, vid |-> r.tci, queue |-> r.queue % 32]
                 ELSE [cleared[l] EXCEPT !.enable = @ /\ cleared[l].vid # r.tci]]

aq_add_del_fvlan(s, r, add) ==
    aq_filters_vlans_update(
        [s EXCEPT !.nic.vlans = aq_set_data_fvlan(@, r, add)])

hw_filter_l2_set(slots, r) == [slots EXCEPT ![r.loc] = r]
hw_filter_l2_clear(slots, r) == [slots EXCEPT ![r.loc] = NoRule]

aq_add_del_fether(s, r, add) ==
    [s EXCEPT !.hw.slots = IF add THEN hw_filter_l2_set(@, r)
                                  ELSE hw_filter_l2_clear(@, r)]

\* The locations whose registers hw_filter_l3l4_clear clears.
Span(is_ipv6, loc) == IF is_ipv6 THEN loc .. loc + V6 - 1 ELSE {loc}

\* Without a command (x = NoRule) the registers stay cleared.
hw_filter_l3l4_set(slots, is_ipv6, loc, x) ==
    [l \in DOMAIN slots |-> IF l \in Span(is_ipv6, loc) THEN x ELSE slots[l]]

\* The bit of a rule in active_ipv6, which has two.
Half(loc) == (loc - (NV + NE)) \div V6

\* Whether the rule is one of IPv6 is read from the flag of the last check.
aq_add_del_fl3l4(s, r, add) ==
    LET six  == s.nic.is_ipv6
        four == IF six THEN {} ELSE {r.loc}
        half == IF six THEN {Half(r.loc)} ELSE {}
    IN  State(IF add
              THEN [s.nic EXCEPT !.active_ipv4 = @ \cup four, !.active_ipv6 = @ \cup half]
              ELSE [s.nic EXCEPT !.active_ipv4 = @ \ four, !.active_ipv6 = @ \ half],
              [s.hw EXCEPT !.slots =
                  hw_filter_l3l4_set(@, six, r.loc, IF add THEN r ELSE NoRule)])

\* What aq_add_del_rule can carry out; -EINVAL otherwise.
Feasible(r) ==
    \/ Type(r) \in {"vlan", "ethertype"}
    \/ Type(r) = "l3l4" /\ r.loc \in L3L4Locs

aq_add_del_rule(s, r, add) ==
    IF Type(r) = "vlan" THEN aq_add_del_fvlan(s, r, add)
    ELSE IF Type(r) = "ethertype" THEN aq_add_del_fether(s, r, add)
    ELSE aq_add_del_fl3l4(s, r, add)

\* Take the rule at a location out of the registers and the list.
Delete(s, l) ==
    [aq_add_del_rule(s, s.nic.list[l], FALSE) EXCEPT !.nic.list[l] = NoRule]

-----------------------------------------------------------------------------
(* aq_check_rule: what the user may add. *)

Mixed(n, six) == (six /\ n.active_ipv4 # {}) \/ (~six /\ n.active_ipv6 # {})

\* aq_check_filter reaches aq_check_approve_fl3l4 and sets is_ipv6 for it.
OfL3L4(r) == r.mask = "none" /\ r.flow # "ether"

\* The flag after the check; when the families would mix it is set back.
FlagAfter(n, r) ==
    LET six == r.flow \in {"v6", "ip6"}
    IN  IF ~OfL3L4(r) \/ r.loc \notin Locs THEN n.is_ipv6
        ELSE IF Mixed(n, six) THEN ~six ELSE six

aq_check_approve_fl3l4(n, r) ==
    LET six == r.flow \in {"v6", "ip6"}
    IN  /\ ~Mixed(n, six)
        /\ six => r.loc \in {NV + NE, NV + NE + V6}

aq_check_approve_fvlan(n, r) ==
    /\ r.loc \in VlanLocs
    /\ r.tci \in n.active
    /\ r.queue # Disc /\ r.queue <= NumRss

aq_check_filter(n, r) ==
    IF r.mask = "vid" THEN aq_check_approve_fvlan(n, r)
    ELSE IF OfL3L4(r) THEN aq_check_approve_fl3l4(n, r)
    ELSE r.loc \in EtherLocs

aq_rule_is_correct(n, r) ==
    /\ r.loc \in Locs
    /\ aq_check_filter(n, r)
    /\ r.queue # Disc => r.queue < MaxQueue

aq_rule_is_support(r) == ntuple /\ (r.tci # 0 => vlan)

aq_match_filter(r, q) ==
    <<r.flow, r.mask, r.tci, r.key>> = <<q.flow, q.mask, q.tci, q.key>>

aq_rule_already_exists(n, r) ==
    \E l \in Locs \ {r.loc} :
        n.list[l] # NoRule /\ aq_match_filter(n.list[l], r)

aq_check_rule(n, r) ==
    /\ aq_rule_is_correct(n, r)
    /\ aq_rule_is_support(r)
    /\ ~aq_rule_already_exists(n, r)

-----------------------------------------------------------------------------
(* The operations. *)

Become(s) == nic' = s.nic /\ hw' = s.hw

\* A slip: the rule that is replaced stays in the registers.
UpdateForgets(s, r) == [s EXCEPT !.nic.list[r.loc] = r]

\* The rule at the location, if there is one, gives way to the new one.
aq_update_table_filters(s, r) ==
    LET gone == IF s.nic.list[r.loc] = NoRule THEN s ELSE Delete(s, r.loc)
    IN  [gone EXCEPT !.nic.list[r.loc] = r]

\* A rule that cannot be carried out leaves the list again; the rule it
\* replaced does not come back.
aq_add_rxnfc_rule(r) ==
    LET n == [nic EXCEPT !.is_ipv6 = FlagAfter(nic, r)]
        listed == aq_update_table_filters(State(n, hw), r)
    IN  /\ want = {}
        /\ Become(IF ~aq_check_rule(nic, r) THEN State(n, hw)
                  ELSE IF Feasible(r) THEN aq_add_del_rule(listed, r, TRUE)
                  ELSE [listed EXCEPT !.nic.list[r.loc] = NoRule])
        /\ UNCHANGED <<ntuple, vlan, want>>

aq_del_rxnfc_rule(l) ==
    /\ want = {} /\ nic.list[l] # NoRule
    /\ Become(Delete(State(nic, hw), l))
    /\ UNCHANGED <<ntuple, vlan, want>>

\* hw_reset and hw_init of an open: the registers are reset, and nothing
\* writes the rules again.
aq_nic_init ==
    /\ want = {}
    /\ hw' = [vlans |-> [l \in VlanLocs |-> ZeroRow],
              slots |-> [l \in DOMAIN hw.slots |-> NoRule],
              prom  |-> TRUE]
    /\ UNCHANGED <<ntuple, vlan, want, nic>>

\* The kernel asks for VLANs only while the feature is on.
aq_ndo_vlan_rx_add_vid(v) ==
    /\ want = {} /\ vlan
    /\ Become(aq_filters_vlans_update(State([nic EXCEPT !.active = @ \cup {v}], hw)))
    /\ UNCHANGED <<ntuple, vlan, want>>

\* aq_del_fvlan_by_vlan takes the first rule with that tci, of any type.
WithTci(v) == {l \in Locs : nic.list[l] # NoRule /\ nic.list[l].tci = v}

aq_ndo_vlan_rx_kill_vid(v) ==
    LET s == State([nic EXCEPT !.active = @ \ {v}], hw)
    IN  /\ vlan
        /\ Become(IF WithTci(v) = {} THEN aq_filters_vlans_update(s)
                  ELSE Delete(s, Ranked(0, WithTci(v))))
        /\ UNCHANGED <<ntuple, vlan, want>>

-----------------------------------------------------------------------------
(* aq_ndev_set_features. *)

SetFeatures(nt, vl) ==
    /\ want = {} /\ <<nt, vl>> # <<ntuple, vlan>>
    /\ want' = {<<nt, vl>>}
    /\ UNCHANGED <<ntuple, vlan, nic, hw>>

Listed == {l \in Locs : nic.list[l] # NoRule}

\* aq_clear_rxnfc_all_rules takes the rules out one by one.
Flushing(nt) == ntuple /\ ~nt /\ Listed # {}

aq_clear_rxnfc_all_rules ==
    /\ \E w \in want : Flushing(w[1])
    /\ Become(Delete(State(nic, hw), Ranked(0, Listed)))
    /\ UNCHANGED <<ntuple, vlan, want>>

aq_filters_vlans_on(s) ==
    [aq_filters_vlans_update([s EXCEPT !.nic.active = {}]) EXCEPT !.hw.prom = FALSE]

\* The VLAN rules leave the list, and the table is cleared as a whole.
aq_filters_vlans_off(s) ==
    LET list == [l \in Locs |-> IF s.nic.list[l] # NoRule /\ Type(s.nic.list[l]) = "vlan"
                                THEN NoRule ELSE s.nic.list[l]]
        rows == [l \in VlanLocs |-> ZeroRow]
        cleared == [s EXCEPT !.nic.list = list, !.nic.active = {}, !.nic.vlans = rows]
    IN  [aq_filters_vlans_update(cleared) EXCEPT !.hw.prom = TRUE]

FeaturesSet ==
    \E w \in want :
        /\ ~Flushing(w[1])
        /\ Become(IF w[2] = vlan THEN State(nic, hw)
                  ELSE IF w[2] THEN aq_filters_vlans_on(State(nic, hw))
                  ELSE aq_filters_vlans_off(State(nic, hw)))
        /\ ntuple' = w[1] /\ vlan' = w[2] /\ want' = {}

-----------------------------------------------------------------------------
Next ==
    \/ \E r \in Specs : aq_add_rxnfc_rule(r)
    \/ \E l \in Locs : aq_del_rxnfc_rule(l)
    \/ \E v \in Vids : aq_ndo_vlan_rx_add_vid(v) \/ aq_ndo_vlan_rx_kill_vid(v)
    \/ \E nt, vl \in BOOLEAN : SetFeatures(nt, vl)
    \/ aq_clear_rxnfc_all_rules
    \/ FeaturesSet
    \/ aq_nic_init

Spec == Init /\ [][Next]_vars

-----------------------------------------------------------------------------
Rules == Specs \cup {NoRule}

\* The values the list, the table and the registers range over.
TypeOK ==
    /\ ntuple \in BOOLEAN /\ vlan \in BOOLEAN /\ want \subseteq BOOLEAN \X BOOLEAN
    /\ nic \in [list : [Locs -> Rules], vlans : [VlanLocs -> Row], active : SUBSET Vids,
                is_ipv6 : BOOLEAN, active_ipv4 : SUBSET L3L4Locs, active_ipv6 : SUBSET {0, 1}]
    /\ hw \in [vlans : [VlanLocs -> Row], slots : [EtherLocs \cup L3L4Locs -> Rules],
               prom : BOOLEAN]

\* The rule is in the registers it needs, whole.
InForce(r) ==
    IF Type(r) = "vlan"
    THEN hw.vlans[r.loc] = [enable |-> TRUE, vid |-> r.tci, queue |-> r.queue]
    ELSE \A l \in Span(Type(r) = "l3l4" /\ r.flow = "v6", r.loc) : hw.slots[l] = r

TheRules == {nic.list[l] : l \in Listed}

(***************************************************************************)
(* No filter is at work in the device that is not in the list, where the   *)
(* user can see and delete it: neither after a rule was replaced, refused  *)
(* half-way, deleted with its VLAN or flushed, nor after a reset.          *)
(***************************************************************************)
NoGhostFilter ==
    /\ \A l \in VlanLocs : hw.vlans[l].enable /\ hw.vlans[l].queue # NoQueue =>
          \E r \in TheRules : Type(r) = "vlan" /\ r.loc = l /\ InForce(r)
    /\ \A l \in DOMAIN hw.slots : hw.slots[l] # NoRule => hw.slots[l] \in TheRules

(***************************************************************************)
(* While the device filters VLANs, every VLAN of the kernel passes:        *)
(* whatever rows the rules take, aq_fvlan_rebuild has a row for each, or   *)
(* aq_filters_vlans_update leaves the device promiscuous.                  *)
(***************************************************************************)
VlanPasses ==
    ~hw.prom => \A v \in nic.active :
        \E l \in VlanLocs : hw.vlans[l].enable /\ hw.vlans[l].vid = v

(***************************************************************************)
(* Except for a reset, no operation takes a rule out of the registers that *)
(* stays in the list, and a rule that enters the list is in force: what is *)
(* done for one rule does not disturb another.                             *)
(***************************************************************************)
RulesTakeEffect ==
    [][aq_nic_init \/ \A r \in TheRules' : InForce(r)' \/ (r \in TheRules /\ ~InForce(r))]_vars

=============================================================================

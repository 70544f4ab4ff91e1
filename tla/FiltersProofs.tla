--------------------------- MODULE FiltersProofs ---------------------------
(***************************************************************************)
(* Theorems about the flow rules and the VLAN filter: the registers and    *)
(* the list do not get out of step, for any number of locations, VLANs and *)
(* flow specs.                                                             *)
(*                                                                         *)
(* The functions of the model take the driver's filters and the registers  *)
(* as a pair; so do the invariants, and each function has a lemma that     *)
(* says what it makes of a pair that is sound.                             *)
(***************************************************************************)
EXTENDS Filters, FiniteSetTheorems, FunctionTheorems, WellFoundedInduction, TLAPS

-----------------------------------------------------------------------------
(* Ranks. *)

\* Among some numbers there is a least one.
LEMMA LeastOf ==
    ASSUME NEW T, T \subseteq Nat, T # {}
    PROVE  \E n \in T : \A m \in T : n <= m
<1> DEFINE Less == OpToRel(<, Nat)
<1>1. IsWellFoundedOn(Less, Nat)
  BY NatLessThanWellFounded
<1>2. \A m, k \in Nat : m < k => <<m, k>> \in Less
  BY DEF OpToRel
<1> HIDE DEF Less
<1>3. PICK n \in T : \A m \in T : ~(<<m, n>> \in Less)
  BY <1>1, WFMin
<1>4. n \in Nat /\ \A m \in T : m \in Nat /\ ~(m < n)
  BY <1>2, <1>3
<1>5. \A m \in T : n <= m
  BY <1>4
<1> QED BY <1>5

\* The first of some numbers, as the loops over a list find it.
LEMMA RankedFirst ==
    ASSUME NEW S, S \subseteq Nat, S # {}
    PROVE  /\ Ranked(0, S) \in S
           /\ \A x \in S : Ranked(0, S) <= x
<1>a. \A x \in S : x \in Nat
  OBVIOUS
<1>0. PICK n \in S : \A m \in S : n <= m
  BY LeastOf
<1>1. \A x \in S : Rank(x, S) = 0 => \A y \in S : ~(y < x)
  <2> SUFFICES ASSUME NEW x \in S, Rank(x, S) = 0, NEW y \in S, y < x PROVE FALSE
    OBVIOUS
  <2>1. {z \in S : z < x} \in SUBSET (0 .. x)
    <3> SUFFICES ASSUME NEW z \in S, z < x PROVE z \in 0 .. x
      OBVIOUS
    <3>1. x \in Nat /\ z \in Nat
      BY <1>a
    <3> QED BY <3>1
  <2>2. IsFiniteSet(0 .. x)
    BY FS_Interval
  <2>3. IsFiniteSet({z \in S : z < x})
    BY <2>1, <2>2, FS_Subset
  <2> QED BY <2>3, FS_EmptySet DEF Rank
<1>2. {y \in S : y < n} = {}
  <2>1. \A y \in S : ~(y < n)
    BY <1>a, <1>0
  <2> QED BY <2>1
<1>3. Rank(n, S) = 0
  BY <1>2, FS_EmptySet DEF Rank
<1>4. Ranked(0, S) \in S /\ Rank(Ranked(0, S), S) = 0
  BY <1>3 DEF Ranked
<1>5. \A x \in S : Ranked(0, S) <= x
  <2> SUFFICES ASSUME NEW x \in S PROVE Ranked(0, S) <= x
    OBVIOUS
  <2>1. ~(x < Ranked(0, S))
    BY <1>1, <1>4
  <2>2. x \in Nat /\ Ranked(0, S) \in Nat
    BY <1>a, <1>4
  <2> QED BY <2>1, <2>2
<1> QED BY <1>4, <1>5

\* Ranks tell the members of a finite set apart, and are all the numbers
\* below its cardinality.
LEMMA Ranks ==
    ASSUME NEW S, S \subseteq Nat, IsFiniteSet(S)
    PROVE  /\ Cardinality(S) \in Nat
           /\ \A x \in S : Rank(x, S) \in 0 .. Cardinality(S) - 1
           /\ \A x, y \in S : Rank(x, S) = Rank(y, S) => x = y
           /\ \A k \in 0 .. Cardinality(S) - 1 : \E x \in S : Rank(x, S) = k
<1> DEFINE n == Cardinality(S)
           Low(x) == {y \in S : y < x}
<1>a. \A x \in S : x \in Nat
  OBVIOUS
<1>1. n \in Nat
  BY FS_CardinalityType
<1>2. \A x : /\ IsFiniteSet(Low(x))
             /\ Cardinality(Low(x)) \in Nat
             /\ Cardinality(Low(x)) <= n
             /\ Cardinality(Low(x)) = n => Low(x) = S
  <2> SUFFICES ASSUME NEW x
               PROVE  /\ IsFiniteSet(Low(x))
                      /\ Cardinality(Low(x)) \in Nat
                      /\ Cardinality(Low(x)) <= n
                      /\ Cardinality(Low(x)) = n => Low(x) = S
    OBVIOUS
  <2>1. Low(x) \in SUBSET S
    OBVIOUS
  <2> HIDE DEF Low
  <2> QED BY <2>1, FS_Subset, FS_CardinalityType
<1>3. \A x : Rank(x, S) = Cardinality(Low(x))
  BY DEF Rank
<1>4. \A x \in S : x \notin Low(x)
  OBVIOUS
<1>5. \A x \in S : Rank(x, S) \in 0 .. n - 1
  <2> HIDE DEF Low, n
  <2> QED BY <1>1, <1>2, <1>3, <1>4
<1>6. \A x, y \in S : x < y => Rank(x, S) < Rank(y, S)
  <2> SUFFICES ASSUME NEW x \in S, NEW y \in S, x < y PROVE Rank(x, S) < Rank(y, S)
    OBVIOUS
  <2>0. x \in Nat /\ y \in Nat
    BY <1>a
  <2>1. Low(x) \in SUBSET Low(y) /\ x \in Low(y) /\ x \notin Low(x)
    <3>1. ASSUME NEW z \in S, z < x PROVE z < y
      <4>1. z \in Nat
        BY <1>a
      <4> QED BY <2>0, <3>1, <4>1
    <3>2. ~(x < x)
      BY <2>0
    <3> QED BY <3>1, <3>2
  <2> HIDE DEF Low
  <2>2. Cardinality(Low(x)) <= Cardinality(Low(y)) /\ Cardinality(Low(x)) # Cardinality(Low(y))
    BY <2>1, <1>2, FS_Subset
  <2> QED BY <2>2, <1>2, <1>3
<1>7. \A x, y \in S : Rank(x, S) = Rank(y, S) => x = y
  <2> SUFFICES ASSUME NEW x \in S, NEW y \in S, Rank(x, S) = Rank(y, S), x # y PROVE FALSE
    OBVIOUS
  <2>1. x < y \/ y < x
    OBVIOUS
  <2> QED BY <2>1, <1>5, <1>6
<1>8. \A k \in 0 .. n - 1 : \E x \in S : Rank(x, S) = k
  <2> DEFINE f == [x \in S |-> Rank(x, S)]
             K == 0 .. n - 1
  <2>1. f \in Injection(S, K)
    <3>1. f \in [S -> K] /\ \A a, b \in S : f[a] = f[b] => a = b
      BY <1>5, <1>7
    <3> QED BY <3>1, Fun_IsInj
  <2>2. IsFiniteSet(K) /\ Cardinality(K) = n
    <3> HIDE DEF n
    <3>1. /\ IsFiniteSet(0 .. n - 1)
          /\ Cardinality(0 .. n - 1) = IF 0 > n - 1 THEN 0 ELSE (n - 1) - 0 + 1
      BY <1>1, FS_Interval
    <3> QED BY <1>1, <3>1
  <2> HIDE DEF K, f
  <2>3. f \in Surjection(S, K)
    BY <2>1, <2>2, FS_Injection DEF n
  <2>4. \A k \in K : \E x \in S : f[x] = k
    BY <2>3 DEF Surjection
  <2> QED BY <2>4 DEF K, f
<1> QED BY <1>1, <1>5, <1>7, <1>8

\* Ranked undoes Rank.
LEMMA RankedIs ==
    ASSUME NEW S, S \subseteq Nat, IsFiniteSet(S)
    PROVE  /\ \A k \in 0 .. Cardinality(S) - 1 : Ranked(k, S) \in S /\ Rank(Ranked(k, S), S) = k
           /\ \A x \in S : Ranked(Rank(x, S), S) = x
<1>1. \A k \in 0 .. Cardinality(S) - 1 : Ranked(k, S) \in S /\ Rank(Ranked(k, S), S) = k
  <2> SUFFICES ASSUME NEW k \in 0 .. Cardinality(S) - 1
               PROVE  Ranked(k, S) \in S /\ Rank(Ranked(k, S), S) = k
    OBVIOUS
  <2>1. \E x \in S : Rank(x, S) = k
    BY Ranks
  <2> QED BY <2>1 DEF Ranked
<1>2. \A x \in S : Ranked(Rank(x, S), S) = x
  <2> SUFFICES ASSUME NEW x \in S PROVE Ranked(Rank(x, S), S) = x
    OBVIOUS
  <2>1. Rank(x, S) \in 0 .. Cardinality(S) - 1
    BY Ranks
  <2>2. Ranked(Rank(x, S), S) \in S /\ Rank(Ranked(Rank(x, S), S), S) = Rank(x, S)
    BY <1>1, <2>1
  <2> QED BY <2>2, Ranks
<1> QED BY <1>1, <1>2

-----------------------------------------------------------------------------
(* The invariants. *)

Slots == EtherLocs \cup L3L4Locs

NicType ==
    [list : [Locs -> Rules], vlans : [VlanLocs -> Row], active : SUBSET Vids,
     is_ipv6 : BOOLEAN, active_ipv4 : SUBSET L3L4Locs, active_ipv6 : SUBSET {0, 1}]
HwType == [vlans : [VlanLocs -> Row], slots : [Slots -> Rules], prom : BOOLEAN]

\* The types of a pair, and of the rest of the state.
Typed(s) == s \in [nic : NicType, hw : HwType]

IsV6(r) == Type(r) = "l3l4" /\ r.flow = "v6"

\* Where a rule that stays in the list may be.
Placed(r, l) ==
    /\ r.loc = l /\ Type(r) # "none"
    /\ Type(r) = "vlan" => l \in VlanLocs /\ r.queue \in 0 .. 31
    /\ Type(r) = "ethertype" => l \in EtherLocs
    /\ Type(r) = "l3l4" => l \in L3L4Locs
    /\ IsV6(r) => l \in {NV + NE, NV + NE + V6}

Placement(s) == \A l \in Locs : s.nic.list[l] # NoRule => Placed(s.nic.list[l], l)

\* is_ipv6 is the family of the rules, if there are any, although each check
\* sets it: so a deletion clears the registers of the rule it is for.
Families(s) ==
    /\ s.nic.active_ipv4 # {} => ~s.nic.is_ipv6
    /\ s.nic.active_ipv6 # {} => s.nic.is_ipv6
    /\ \A l \in Locs : s.nic.list[l] # NoRule /\ Type(s.nic.list[l]) = "l3l4" =>
          IF IsV6(s.nic.list[l]) THEN Half(l) \in s.nic.active_ipv6
                                 ELSE l \in s.nic.active_ipv4

\* A row of the table that a rule gave a queue.
HasQueue(row) == row.enable /\ row.queue # NoQueue

RowOf(r) == [enable |-> TRUE, vid |-> r.tci, queue |-> r.queue]

\* A row with a queue is that of the rule at its location.
RowsOfRules(s) ==
    \A l \in VlanLocs : HasQueue(s.nic.vlans[l]) =>
        /\ s.nic.list[l] # NoRule /\ Type(s.nic.list[l]) = "vlan"
        /\ s.nic.vlans[l] = RowOf(s.nic.list[l])

\* The registers have a queue only for rows of the table.
RowsWritten(s) ==
    \A l \in VlanLocs : HasQueue(s.hw.vlans[l]) => s.hw.vlans[l] = s.nic.vlans[l]

\* What the other registers hold is a rule of the list, in its own registers.
SlotsOfRules(s) ==
    \A l \in Slots : s.hw.slots[l] # NoRule =>
        /\ s.hw.slots[l].loc \in Locs
        /\ s.nic.list[s.hw.slots[l].loc] = s.hw.slots[l]
        /\ Type(s.hw.slots[l]) # "vlan"
        /\ l \in Span(IsV6(s.hw.slots[l]), s.hw.slots[l].loc)

Sound(s) ==
    /\ Typed(s) /\ Placement(s) /\ Families(s)
    /\ RowsOfRules(s) /\ RowsWritten(s) /\ SlotsOfRules(s)

\* The rest of the state.
Flags ==
    ntuple \in BOOLEAN /\ vlan \in BOOLEAN /\ want \subseteq BOOLEAN \X BOOLEAN

-----------------------------------------------------------------------------
(* Locations. *)

\* The kinds of locations do not overlap, and the two of IPv6 rules are L3/L4 locations.
LEMMA Places ==
    /\ VlanLocs \subseteq Locs /\ EtherLocs \subseteq Locs /\ L3L4Locs \subseteq Locs
    /\ VlanLocs \cap Slots = {} /\ EtherLocs \cap L3L4Locs = {}
    /\ Slots \subseteq Locs /\ Locs \subseteq Nat
    /\ {NV + NE, NV + NE + V6} \subseteq L3L4Locs
  BY FilterAssumption DEF VlanLocs, EtherLocs, L3L4Locs, Locs, Slots

\* The two places of IPv6 rules have a bit each.
LEMMA Halves ==
    Half(NV + NE) = 0 /\ Half(NV + NE + V6) = 1
<1>1. NV \in Nat /\ NE \in Nat /\ V6 \in Nat /\ V6 > 0
  BY FilterAssumption
<1>2. (NV + NE) - (NV + NE) = 0 /\ (NV + NE + V6) - (NV + NE) = V6
  BY <1>1
<1>3. 0 \div V6 = 0
  BY <1>1, Z3
<1>4. V6 \div V6 = 1
  BY <1>1, Z3
<1> QED BY <1>2, <1>3, <1>4 DEF Half

\* Their registers do not overlap.
LEMMA Spans ==
    /\ \A six \in BOOLEAN, l \in Slots : l \in Span(six, l)
    /\ \A l, m \in {NV + NE, NV + NE + V6} : l # m => Span(TRUE, l) \cap Span(TRUE, m) = {}
    /\ \A l \in {NV + NE, NV + NE + V6} : Span(TRUE, l) \subseteq L3L4Locs
    /\ \A l : Span(FALSE, l) = {l}
<1> USE FilterAssumption DEF Span
<1>1. \A six \in BOOLEAN, l \in Slots : l \in Span(six, l)
  BY DEF Slots, EtherLocs, L3L4Locs
<1>2. \A l, m \in {NV + NE, NV + NE + V6} : l # m => Span(TRUE, l) \cap Span(TRUE, m) = {}
  OBVIOUS
<1>3. \A l \in {NV + NE, NV + NE + V6} : Span(TRUE, l) \subseteq L3L4Locs
  BY DEF L3L4Locs
<1> QED BY <1>1, <1>2, <1>3

\* What the assumption says of one flow spec.
LEMMA RuleSorts ==
    ASSUME NEW r \in Specs
    PROVE  /\ Type(r) \in {"vlan", "ethertype", "l3l4", "none"}
           /\ Type(r) = "vlan" => r.mask = "vid" /\ r.tci \in Vids
           /\ r.tci \in Nat /\ r.loc \in Nat /\ r.queue \in Queues
           /\ r # NoRule /\ r \in Rules
  BY FilterAssumption DEF Type, IsSpec, Rules

-----------------------------------------------------------------------------
(* The table of VLANs. *)

\* aq_fvlan_rebuild keeps the rows with a queue and gives no other row one.
LEMMA Rebuild ==
    ASSUME NEW active \in SUBSET Vids, NEW rows \in [VlanLocs -> Row]
    PROVE  /\ aq_fvlan_rebuild(active, rows) \in [VlanLocs -> Row]
           /\ \A l \in VlanLocs :
                 IF HasQueue(rows[l]) THEN aq_fvlan_rebuild(active, rows)[l] = rows[l]
                 ELSE ~HasQueue(aq_fvlan_rebuild(active, rows)[l])
<1> DEFINE free == FreeRows(rows)
           todo == active \ {rows[l].vid : l \in VlanLocs \ free}
           new  == aq_fvlan_rebuild(active, rows)
<1>1. \A l \in VlanLocs : l \in free <=> ~HasQueue(rows[l])
  BY DEF FreeRows, HasQueue, Row
<1>2. new = [l \in VlanLocs |->
                IF l \notin free THEN rows[l]
                ELSE IF Rank(l, free) < Cardinality(todo)
                THEN [enable |-> TRUE, vid |-> Ranked(Rank(l, free), todo), queue |-> NoQueue]
                ELSE [enable |-> FALSE, vid |-> 0, queue |-> NoQueue]]
  BY DEF aq_fvlan_rebuild
<1>3. todo \subseteq Nat /\ IsFiniteSet(todo)
  <2>1. todo \in SUBSET Vids
    OBVIOUS
  <2> HIDE DEF todo
  <2> QED BY <2>1, FilterAssumption, FS_Subset
<1>4. free \subseteq Nat /\ IsFiniteSet(free)
  <2>1. free \in SUBSET (0 .. NV - 1)
    BY DEF FreeRows, VlanLocs
  <2>2. IsFiniteSet(0 .. NV - 1)
    BY FilterAssumption, FS_Interval
  <2>3. (0 .. NV - 1) \subseteq Nat
    BY FilterAssumption
  <2> HIDE DEF free
  <2>4. IsFiniteSet(free)
    BY <2>1, <2>2, FS_Subset
  <2> QED BY <2>1, <2>3, <2>4
<1> HIDE DEF free, todo, new
<1>5. \A l \in free : Rank(l, free) < Cardinality(todo) => Ranked(Rank(l, free), todo) \in Nat
  <2> SUFFICES ASSUME NEW l \in free, Rank(l, free) < Cardinality(todo)
               PROVE  Ranked(Rank(l, free), todo) \in Nat
    OBVIOUS
  <2>0. /\ Rank(l, free) \in 0 .. Cardinality(free) - 1
        /\ Cardinality(free) \in Nat /\ Cardinality(todo) \in Nat
    BY <1>3, <1>4, Ranks
  <2>1. Rank(l, free) \in Nat /\ Cardinality(todo) \in Nat
    BY <2>0
  <2>2. Rank(l, free) \in 0 .. Cardinality(todo) - 1
    BY <2>1
  <2>3. Ranked(Rank(l, free), todo) \in todo
    BY <1>3, <2>2, RankedIs
  <2> QED BY <1>3, <2>3
<1>6. \A l \in VlanLocs : new[l] \in Row
  <2> SUFFICES ASSUME NEW l \in VlanLocs PROVE new[l] \in Row
    OBVIOUS
  <2>1. CASE l \notin free
    BY <1>2, <2>1
  <2>2. CASE l \in free /\ Rank(l, free) < Cardinality(todo)
    BY <1>2, <1>5, <2>2 DEF Row
  <2>3. CASE l \in free /\ ~(Rank(l, free) < Cardinality(todo))
    BY <1>2, <2>3 DEF Row
  <2> QED BY <2>1, <2>2, <2>3
<1>7. new \in [VlanLocs -> Row]
  BY <1>2, <1>6
<1>8. \A l \in VlanLocs : IF HasQueue(rows[l]) THEN new[l] = rows[l] ELSE ~HasQueue(new[l])
  BY <1>1, <1>2 DEF HasQueue
<1> QED BY <1>7, <1>8 DEF new

\* The operations on the table leave all this alone.
BesideVlans(s, t) ==
    /\ t.nic.list = s.nic.list /\ t.nic.active = s.nic.active
    /\ t.nic.is_ipv6 = s.nic.is_ipv6
    /\ t.nic.active_ipv4 = s.nic.active_ipv4 /\ t.nic.active_ipv6 = s.nic.active_ipv6
    /\ t.hw.slots = s.hw.slots

\* The registers hold the rows that are enabled.
Written(t) ==
    \A l \in VlanLocs :
        t.hw.vlans[l] = IF t.nic.vlans[l].enable THEN t.nic.vlans[l] ELSE ZeroRow

\* After the table was written out, a row with a queue in a register is the driver's.
LEMMA WrittenOnly ==
    ASSUME NEW t, Written(t)
    PROVE  RowsWritten(t)
<1> SUFFICES ASSUME NEW l \in VlanLocs, HasQueue(t.hw.vlans[l])
             PROVE  t.hw.vlans[l] = t.nic.vlans[l]
  BY DEF RowsWritten
<1>1. ~HasQueue(ZeroRow)
  BY DEF HasQueue, ZeroRow
<1> QED BY <1>1 DEF Written

\* The table and the registers are as aq_filters_vlans_update leaves them.
Rebuilt(t) ==
    /\ \E x \in [VlanLocs -> Row] : t.nic.vlans = aq_fvlan_rebuild(t.nic.active, x)
    /\ Written(t)
    /\ t.hw.prom = ~FilterFits(t.nic.active)

\* What aq_filters_vlans_update makes of a pair.
Updated(s, t) ==
    /\ Typed(t) /\ BesideVlans(s, t) /\ Rebuilt(t)
    /\ \A l \in VlanLocs :
          IF HasQueue(s.nic.vlans[l]) THEN t.nic.vlans[l] = s.nic.vlans[l]
          ELSE ~HasQueue(t.nic.vlans[l])

\* aq_filters_vlans_update as a whole.
LEMMA Update ==
    ASSUME NEW s, Typed(s), NEW t, t = aq_filters_vlans_update(s)
    PROVE  Updated(s, t)
<1> DEFINE rows == aq_fvlan_rebuild(s.nic.active, s.nic.vlans)
<1>1. s.nic \in NicType /\ s.hw \in HwType
  BY DEF Typed
<1>2. /\ rows \in [VlanLocs -> Row]
      /\ \A l \in VlanLocs : IF HasQueue(s.nic.vlans[l]) THEN rows[l] = s.nic.vlans[l]
                             ELSE ~HasQueue(rows[l])
  BY <1>1, Rebuild DEF NicType
<1> HIDE DEF rows
<1>3. /\ hw_filter_vlan_set(rows) \in [VlanLocs -> Row]
      /\ \A l \in VlanLocs :
            hw_filter_vlan_set(rows)[l] = IF rows[l].enable THEN rows[l] ELSE ZeroRow
  <2>1. ZeroRow \in Row
    BY DEF ZeroRow, Row
  <2> QED BY <1>2, <2>1 DEF hw_filter_vlan_set
<1>4. t = [nic |-> [s.nic EXCEPT !.vlans = rows],
           hw  |-> [s.hw EXCEPT !.vlans = hw_filter_vlan_set(rows),
                                !.prom = ~FilterFits(s.nic.active)]]
  BY DEF aq_filters_vlans_update, State, rows
<1>5. t.nic = [s.nic EXCEPT !.vlans = rows] /\ t.nic \in NicType
  BY <1>1, <1>2, <1>4 DEF NicType
<1>6. /\ t.hw = [s.hw EXCEPT !.vlans = hw_filter_vlan_set(rows),
                              !.prom = ~FilterFits(s.nic.active)]
      /\ t.hw \in HwType
  <2> DEFINE p == ~FilterFits(s.nic.active)
             w == hw_filter_vlan_set(rows)
  <2>1. p \in BOOLEAN
    OBVIOUS
  <2>2. t.hw = [s.hw EXCEPT !.vlans = w, !.prom = p]
    BY <1>4
  <2>3. w \in [VlanLocs -> Row]
    BY <1>3
  <2> HIDE DEF p, w
  <2>4. [s.hw EXCEPT !.vlans = w, !.prom = p] \in HwType
    BY <1>1, <2>1, <2>3 DEF HwType
  <2> QED BY <2>2, <2>4 DEF p, w
<1>7. Typed(t)
  BY <1>4, <1>5, <1>6 DEF Typed
<1>8. BesideVlans(s, t) /\ t.nic.vlans = rows
  BY <1>1, <1>5, <1>6 DEF BesideVlans, NicType, HwType
<1>9. t.hw.vlans = hw_filter_vlan_set(rows) /\ t.hw.prom = ~FilterFits(s.nic.active)
  BY <1>1, <1>6 DEF HwType
<1>10. Written(t)
  BY <1>3, <1>8, <1>9 DEF Written
<1>11. Rebuilt(t)
  <2>1. t.nic.active = s.nic.active
    BY <1>8 DEF BesideVlans
  <2>2. s.nic.vlans \in [VlanLocs -> Row]
    BY <1>1 DEF NicType
  <2>3. t.nic.vlans = aq_fvlan_rebuild(t.nic.active, s.nic.vlans)
    BY <1>8, <2>1 DEF rows
  <2>4. t.hw.prom = ~FilterFits(t.nic.active)
    BY <1>9, <2>1
  <2> QED BY <1>10, <2>2, <2>3, <2>4 DEF Rebuilt
<1> QED BY <1>2, <1>7, <1>8, <1>11 DEF rows, Updated

\* A VLAN rule that may be in the list.
IsVlanRule(r) ==
    r \in Specs /\ Type(r) = "vlan" /\ r.loc \in VlanLocs /\ r.queue \in 0 .. 31

\* aq_set_data_fvlan: the row of the rule is cleared or set, and no other row
\* of its VLAN stays enabled.
LEMMA SetData ==
    ASSUME NEW rows \in [VlanLocs -> Row], NEW r, IsVlanRule(r), NEW add \in BOOLEAN,
           NEW new, new = aq_set_data_fvlan(rows, r, add)
    PROVE  /\ new \in [VlanLocs -> Row]
           /\ new[r.loc] = IF add THEN RowOf(r) ELSE ZeroRow
           /\ \A l \in VlanLocs \ {r.loc} :
                 /\ HasQueue(new[l]) <=> HasQueue(rows[l]) /\ (add => rows[l].vid # r.tci)
                 /\ HasQueue(new[l]) => new[l] = rows[l]
<1> DEFINE cleared == [rows EXCEPT ![r.loc] = ZeroRow]
<1>1. ZeroRow \in Row
  BY DEF ZeroRow, Row
<1>2. r.loc \in VlanLocs /\ r.queue \in 0 .. 31 /\ r.tci \in Nat
  BY RuleSorts DEF IsVlanRule
<1>3. /\ cleared \in [VlanLocs -> Row] /\ cleared[r.loc] = ZeroRow
      /\ \A l \in VlanLocs \ {r.loc} : cleared[l] = rows[l]
  BY <1>1, <1>2
<1>4. CASE ~add
  <2>1. new = cleared
    BY <1>4 DEF aq_set_data_fvlan
  <2> QED BY <1>3, <1>4, <2>1
<1>5. CASE add
  <2> HIDE DEF cleared
  <2>1. new = [l \in VlanLocs |->
                  IF l = r.loc
                  THEN [enable |-> TRUE, vid |-> r.tci, queue |-> r.queue % 32]
                  ELSE [cleared[l] EXCEPT !.enable = @ /\ cleared[l].vid # r.tci]]
    BY <1>5 DEF aq_set_data_fvlan, cleared
  <2>2. r.queue % 32 = r.queue /\ r.queue \in Nat
    BY <1>2
  <2>3. new[r.loc] = RowOf(r) /\ RowOf(r) \in Row
    BY <1>2, <2>1, <2>2 DEF RowOf, Row
  <2>4. ASSUME NEW l \in VlanLocs \ {r.loc}
        PROVE  /\ new[l] = [rows[l] EXCEPT !.enable = rows[l].enable /\ rows[l].vid # r.tci]
               /\ rows[l] \in Row /\ new[l] \in Row
    <3>1. rows[l] \in Row /\ cleared[l] = rows[l]
      BY <1>3
    <3>2. new[l] = [rows[l] EXCEPT !.enable = rows[l].enable /\ rows[l].vid # r.tci]
      BY <2>1, <3>1
    <3> DEFINE e == rows[l].enable /\ rows[l].vid # r.tci
    <3>3. e \in BOOLEAN
      OBVIOUS
    <3>4. new[l] = [rows[l] EXCEPT !.enable = e]
      BY <3>2
    <3> HIDE DEF e
    <3>5. new[l] \in Row
      BY <3>1, <3>3, <3>4 DEF Row
    <3> QED BY <3>1, <3>2, <3>5
  <2>5. ASSUME NEW l \in VlanLocs \ {r.loc}
        PROVE  /\ HasQueue(new[l]) <=> HasQueue(rows[l]) /\ rows[l].vid # r.tci
               /\ HasQueue(new[l]) => new[l] = rows[l]
    <3> DEFINE x == rows[l]
               e == x.enable /\ x.vid # r.tci
    <3>1. new[l] = [x EXCEPT !.enable = e] /\ x \in Row
      BY <2>4
    <3>2. new[l].enable = e /\ new[l].vid = x.vid /\ new[l].queue = x.queue
      <4> HIDE DEF x, e
      <4> QED BY <3>1 DEF Row
    <3>3. HasQueue(new[l]) <=> HasQueue(x) /\ x.vid # r.tci
      BY <3>2 DEF HasQueue
    <3>4. HasQueue(new[l]) => new[l] = x
      <4> SUFFICES ASSUME HasQueue(new[l]) PROVE new[l] = x
        OBVIOUS
      <4>1. x.enable = TRUE /\ new[l].enable = TRUE
        <5>1. x.enable \in BOOLEAN /\ new[l].enable \in BOOLEAN
          BY <3>1, <2>4 DEF Row
        <5> QED BY <3>3, <5>1 DEF HasQueue
      <4>2. new[l] \in Row
        BY <2>4
      <4> QED BY <3>1, <3>2, <4>1, <4>2 DEF Row
    <3> QED BY <3>3, <3>4
  <2>6. new \in [VlanLocs -> Row]
    <3>1. \A l \in VlanLocs : new[l] \in Row
      BY <2>3, <2>4
    <3>2. new = [l \in VlanLocs |-> new[l]]
      BY <2>1
    <3> QED BY <3>1, <3>2
  <2> QED BY <1>5, <2>3, <2>5, <2>6
<1> QED BY <1>4, <1>5

\* What aq_add_del_fvlan makes of a pair.
VlanChange(s, r, add, t) ==
    /\ Typed(t) /\ BesideVlans(s, t) /\ Rebuilt(t)
    /\ IF add THEN t.nic.vlans[r.loc] = RowOf(r) ELSE ~HasQueue(t.nic.vlans[r.loc])
    /\ \A l \in VlanLocs \ {r.loc} :
          /\ HasQueue(t.nic.vlans[l]) <=>
                HasQueue(s.nic.vlans[l]) /\ (add => s.nic.vlans[l].vid # r.tci)
          /\ HasQueue(t.nic.vlans[l]) => t.nic.vlans[l] = s.nic.vlans[l]

\* aq_add_del_fvlan as a whole.
LEMMA AddDelVlan ==
    ASSUME NEW s, Typed(s), NEW r, IsVlanRule(r), NEW add \in BOOLEAN,
           NEW t, t = aq_add_del_fvlan(s, r, add)
    PROVE  VlanChange(s, r, add, t)
<1> DEFINE new == aq_set_data_fvlan(s.nic.vlans, r, add)
           u == [s EXCEPT !.nic.vlans = new]
<1>1. s.nic \in NicType /\ s.hw \in HwType /\ s.nic.vlans \in [VlanLocs -> Row]
  BY DEF Typed, NicType
<1>2. /\ new \in [VlanLocs -> Row]
      /\ new[r.loc] = IF add THEN RowOf(r) ELSE ZeroRow
      /\ \A l \in VlanLocs \ {r.loc} :
            /\ HasQueue(new[l]) <=> HasQueue(s.nic.vlans[l]) /\ (add => s.nic.vlans[l].vid # r.tci)
            /\ HasQueue(new[l]) => new[l] = s.nic.vlans[l]
  BY <1>1, SetData
<1>3. t = aq_filters_vlans_update(u)
  BY DEF aq_add_del_fvlan
<1> HIDE DEF new
<1>4. Typed(u) /\ BesideVlans(s, u) /\ u.nic.vlans = new
  BY <1>2 DEF Typed, NicType, HwType, BesideVlans
<1> HIDE DEF u
<1>5. /\ Typed(t) /\ BesideVlans(u, t) /\ Rebuilt(t)
      /\ \A l \in VlanLocs : IF HasQueue(new[l]) THEN t.nic.vlans[l] = new[l]
                             ELSE ~HasQueue(t.nic.vlans[l])
  <2>1. Updated(u, t)
    BY <1>3, <1>4, Update
  <2> QED BY <1>4, <2>1 DEF Updated
<1>6. BesideVlans(s, t)
  BY <1>4, <1>5 DEF BesideVlans
<1>7. r.loc \in VlanLocs /\ HasQueue(RowOf(r)) /\ ~HasQueue(ZeroRow)
  <2>1. r.queue # NoQueue
    BY FilterAssumption DEF IsVlanRule, Queues
  <2> QED BY <2>1 DEF IsVlanRule, HasQueue, RowOf, ZeroRow
<1>8. IF add THEN t.nic.vlans[r.loc] = RowOf(r) ELSE ~HasQueue(t.nic.vlans[r.loc])
  BY <1>2, <1>5, <1>7
<1>9. \A l \in VlanLocs \ {r.loc} :
         /\ HasQueue(t.nic.vlans[l]) <=>
               HasQueue(s.nic.vlans[l]) /\ (add => s.nic.vlans[l].vid # r.tci)
         /\ HasQueue(t.nic.vlans[l]) => t.nic.vlans[l] = s.nic.vlans[l]
  BY <1>2, <1>5
<1> QED BY <1>5, <1>6, <1>8, <1>9 DEF VlanChange

-----------------------------------------------------------------------------
(* The other registers. *)

\* What the operations on these registers leave alone.
BesideSlots(s, t) ==
    /\ t.nic.list = s.nic.list /\ t.nic.active = s.nic.active /\ t.nic.vlans = s.nic.vlans
    /\ t.nic.is_ipv6 = s.nic.is_ipv6
    /\ t.hw.vlans = s.hw.vlans /\ t.hw.prom = s.hw.prom

\* What aq_add_del_fether makes of a pair.
EtherChange(s, r, add, t) ==
    /\ Typed(t) /\ BesideSlots(s, t)
    /\ t.nic.active_ipv4 = s.nic.active_ipv4 /\ t.nic.active_ipv6 = s.nic.active_ipv6
    /\ \A l \in Slots : t.hw.slots[l] = IF l = r.loc THEN IF add THEN r ELSE NoRule
                                        ELSE s.hw.slots[l]

\* aq_add_del_fether changes the register of its location and nothing else.
LEMMA AddDelEther ==
    ASSUME NEW s, Typed(s), NEW r \in Specs, r.loc \in EtherLocs, NEW add \in BOOLEAN,
           NEW t, t = aq_add_del_fether(s, r, add)
    PROVE  EtherChange(s, r, add, t)
<1> DEFINE x == IF add THEN r ELSE NoRule
           new == [s.hw.slots EXCEPT ![r.loc] = x]
<1>1. s.nic \in NicType /\ s.hw \in HwType /\ s.hw.slots \in [Slots -> Rules]
  BY DEF Typed, HwType
<1>2. x \in Rules /\ r.loc \in Slots
  BY DEF Rules, Slots
<1>3. t = [s EXCEPT !.hw.slots = new]
  BY DEF aq_add_del_fether, hw_filter_l2_set, hw_filter_l2_clear
<1>4. new \in [Slots -> Rules] /\ \A l \in Slots : new[l] = IF l = r.loc THEN x ELSE s.hw.slots[l]
  <2> HIDE DEF x
  <2> QED BY <1>1, <1>2
<1> HIDE DEF new
<1>5. Typed(t) /\ t.nic = s.nic /\ t.hw.slots = new /\ BesideSlots(s, t)
  BY <1>3, <1>4 DEF Typed, HwType, BesideSlots
<1> QED BY <1>4, <1>5 DEF EtherChange

\* What aq_add_del_fl3l4 makes of a pair.
L3L4Change(s, r, add, t) ==
    /\ Typed(t) /\ BesideSlots(s, t)
    /\ t.nic.active_ipv4 = IF s.nic.is_ipv6 THEN s.nic.active_ipv4
                           ELSE IF add THEN s.nic.active_ipv4 \cup {r.loc}
                           ELSE s.nic.active_ipv4 \ {r.loc}
    /\ t.nic.active_ipv6 = IF ~s.nic.is_ipv6 THEN s.nic.active_ipv6
                           ELSE IF add THEN s.nic.active_ipv6 \cup {Half(r.loc)}
                           ELSE s.nic.active_ipv6 \ {Half(r.loc)}
    /\ \A l \in Slots : t.hw.slots[l] = IF l \in Span(s.nic.is_ipv6, r.loc)
                                        THEN IF add THEN r ELSE NoRule
                                        ELSE s.hw.slots[l]

\* aq_add_del_fl3l4 changes the registers its rule spans and the family's set.
LEMMA AddDelL3L4 ==
    ASSUME NEW s, Typed(s), NEW r \in Specs, r.loc \in L3L4Locs, NEW add \in BOOLEAN,
           s.nic.is_ipv6 => r.loc \in {NV + NE, NV + NE + V6},
           NEW t, t = aq_add_del_fl3l4(s, r, add)
    PROVE  L3L4Change(s, r, add, t)
<1> DEFINE six == s.nic.is_ipv6
           x == IF add THEN r ELSE NoRule
           new == hw_filter_l3l4_set(s.hw.slots, six, r.loc, x)
           a4 == IF six THEN s.nic.active_ipv4
                 ELSE IF add THEN s.nic.active_ipv4 \cup {r.loc}
                 ELSE s.nic.active_ipv4 \ {r.loc}
           a6 == IF ~six THEN s.nic.active_ipv6
                 ELSE IF add THEN s.nic.active_ipv6 \cup {Half(r.loc)}
                 ELSE s.nic.active_ipv6 \ {Half(r.loc)}
<1>1. s.nic \in NicType /\ s.hw \in HwType /\ s.hw.slots \in [Slots -> Rules]
  BY DEF Typed, HwType
<1>2. x \in Rules
  BY DEF Rules
<1>3. /\ new \in [Slots -> Rules]
      /\ \A l \in Slots : new[l] = IF l \in Span(six, r.loc) THEN x ELSE s.hw.slots[l]
  <2> HIDE DEF x
  <2> QED BY <1>1, <1>2 DEF hw_filter_l3l4_set
<1>4. a4 \in SUBSET L3L4Locs
  BY <1>1 DEF NicType
<1>5. a6 \in SUBSET {0, 1}
  <2>1. six => Half(r.loc) \in {0, 1}
    BY Halves
  <2> QED BY <1>1, <2>1 DEF NicType
<1>6. t.hw = [s.hw EXCEPT !.slots = new]
  BY DEF aq_add_del_fl3l4, State
<1>7. t.nic = [s.nic EXCEPT !.active_ipv4 = a4, !.active_ipv6 = a6]
  <2>1. CASE six /\ add
    <3>1. t.nic = [s.nic EXCEPT !.active_ipv4 = @ \cup {}, !.active_ipv6 = @ \cup {Half(r.loc)}]
      BY <2>1 DEF aq_add_del_fl3l4, State
    <3> QED BY <2>1, <3>1
  <2>2. CASE six /\ ~add
    <3>1. t.nic = [s.nic EXCEPT !.active_ipv4 = @ \ {}, !.active_ipv6 = @ \ {Half(r.loc)}]
      BY <2>2 DEF aq_add_del_fl3l4, State
    <3> QED BY <2>2, <3>1
  <2>3. CASE ~six /\ add
    <3>1. t.nic = [s.nic EXCEPT !.active_ipv4 = @ \cup {r.loc}, !.active_ipv6 = @ \cup {}]
      BY <2>3 DEF aq_add_del_fl3l4, State
    <3> QED BY <2>3, <3>1
  <2>4. CASE ~six /\ ~add
    <3>1. t.nic = [s.nic EXCEPT !.active_ipv4 = @ \ {r.loc}, !.active_ipv6 = @ \ {}]
      BY <2>4 DEF aq_add_del_fl3l4, State
    <3> QED BY <2>4, <3>1
  <2> QED BY <2>1, <2>2, <2>3, <2>4
<1>8. t = [nic |-> t.nic, hw |-> t.hw]
  BY DEF aq_add_del_fl3l4, State
<1> HIDE DEF new, a4, a6
<1>9. /\ t.nic \in NicType /\ t.hw \in HwType /\ BesideSlots(s, t)
      /\ t.nic.active_ipv4 = a4 /\ t.nic.active_ipv6 = a6 /\ t.hw.slots = new
  BY <1>1, <1>3, <1>4, <1>5, <1>6, <1>7 DEF NicType, HwType, BesideSlots
<1>10. Typed(t)
  BY <1>8, <1>9 DEF Typed
<1> QED BY <1>3, <1>9, <1>10 DEF a4, a6, L3L4Change

-----------------------------------------------------------------------------
(* Rules in the list. *)

BesideList(s, t) ==
    /\ t.nic.active = s.nic.active /\ t.nic.vlans = s.nic.vlans
    /\ t.nic.is_ipv6 = s.nic.is_ipv6
    /\ t.nic.active_ipv4 = s.nic.active_ipv4 /\ t.nic.active_ipv6 = s.nic.active_ipv6
    /\ t.hw = s.hw

\* A rule, or none, put at a location of the list.
ListChange(s, l, x, t) ==
    /\ Typed(t) /\ BesideList(s, t)
    /\ t.nic.list[l] = x
    /\ \A m \in Locs \ {l} : t.nic.list[m] = s.nic.list[m]

\* A rule entered in the list, or taken out of it.
LEMMA SetList ==
    ASSUME NEW s, Typed(s), NEW l \in Locs, NEW x \in Rules,
           NEW t, t = [s EXCEPT !.nic.list[l] = x]
    PROVE  ListChange(s, l, x, t)
<1>1. s.nic \in NicType /\ s.hw \in HwType /\ s.nic.list \in [Locs -> Rules]
  BY DEF Typed, NicType
<1> DEFINE new == [s.nic.list EXCEPT ![l] = x]
<1>2. new \in [Locs -> Rules] /\ new[l] = x /\ \A m \in Locs \ {l} : new[m] = s.nic.list[m]
  BY <1>1
<1>3. t = [s EXCEPT !.nic.list = new]
  BY <1>1 DEF Typed, NicType
<1> HIDE DEF new
<1>4. Typed(t) /\ BesideList(s, t) /\ t.nic.list = new
  BY <1>2, <1>3 DEF Typed, NicType, BesideList
<1> QED BY <1>2, <1>4 DEF ListChange

\* A rule is in its registers, whole: InForce for given registers.
AtWork(r, h) ==
    IF Type(r) = "vlan" THEN h.vlans[r.loc] = RowOf(r)
    ELSE \A l \in Span(IsV6(r), r.loc) : h.slots[l] = r

\* What RulesTakeEffect says of two pairs.
Effect(s, t) ==
    \A l \in Locs : t.nic.list[l] # NoRule =>
        \/ AtWork(t.nic.list[l], t.hw)
        \/ s.nic.list[l] = t.nic.list[l] /\ ~AtWork(s.nic.list[l], s.hw)

\* What two operations after each other leave in force.
LEMMA EffectChains ==
    ASSUME NEW s, NEW t, NEW u, Effect(s, t), Effect(t, u)
    PROVE  Effect(s, u)
  BY DEF Effect

\* Two rules of the list that are not VLAN rules share no registers, as long
\* as the L3/L4 rules are of one family.
LEMMA Apart ==
    ASSUME NEW q \in Specs, NEW r \in Specs, NEW m \in Locs, NEW l \in Locs, l # m,
           Placed(q, m), Placed(r, l), Type(q) # "vlan", Type(r) # "vlan",
           Type(q) = "l3l4" /\ Type(r) = "l3l4" => IsV6(q) = IsV6(r)
    PROVE  /\ Span(IsV6(q), m) \cap Span(IsV6(r), l) = {}
           /\ Span(IsV6(q), m) \subseteq Slots /\ m \in Span(IsV6(q), m) /\ m \in Slots
<1>1. /\ (Type(q) = "ethertype" /\ m \in EtherLocs) \/ (Type(q) = "l3l4" /\ m \in L3L4Locs)
      /\ (Type(r) = "ethertype" /\ l \in EtherLocs) \/ (Type(r) = "l3l4" /\ l \in L3L4Locs)
  BY RuleSorts DEF Placed
<1>2. /\ ~IsV6(q) => Span(IsV6(q), m) = {m}
      /\ IsV6(q) => Span(IsV6(q), m) = Span(TRUE, m) /\ m \in {NV + NE, NV + NE + V6}
      /\ ~IsV6(r) => Span(IsV6(r), l) = {l}
      /\ IsV6(r) => Span(IsV6(r), l) = Span(TRUE, l) /\ l \in {NV + NE, NV + NE + V6}
  BY DEF Placed, Span
<1>3. IsV6(q) => Type(q) = "l3l4"
  BY DEF IsV6
<1>4. IsV6(r) => Type(r) = "l3l4"
  BY DEF IsV6
<1>5. m \in Slots
  BY <1>1 DEF Slots
<1>6. Span(IsV6(q), m) \subseteq Slots
  BY <1>2, <1>5, Spans DEF Slots
<1>7. m \in Span(IsV6(q), m)
  <2>1. IsV6(q) \in BOOLEAN
    BY DEF IsV6
  <2> QED BY <1>2, <1>5, Spans
<1>8. Span(IsV6(q), m) \cap Span(IsV6(r), l) = {}
  <2>1. CASE IsV6(q) /\ IsV6(r)
    <3>1. /\ m \in {NV + NE, NV + NE + V6} /\ l \in {NV + NE, NV + NE + V6}
          /\ Span(IsV6(q), m) = Span(TRUE, m) /\ Span(IsV6(r), l) = Span(TRUE, l)
      BY <1>2, <2>1
    <3>2. \A a, b \in {NV + NE, NV + NE + V6} :
             a # b => Span(TRUE, a) \cap Span(TRUE, b) = {}
      BY Spans
    <3>3. Span(TRUE, m) \cap Span(TRUE, l) = {}
      BY <3>1, <3>2
    <3> QED BY <3>1, <3>3
  <2>2. CASE ~IsV6(q) /\ ~IsV6(r)
    BY <1>2, <2>2
  <2>3. CASE IsV6(q) /\ ~IsV6(r)
    <3>1. Span(IsV6(q), m) \subseteq L3L4Locs /\ Span(IsV6(r), l) = {l}
      BY <1>2, <2>3, Spans
    <3>2. l \in EtherLocs
      BY <1>1, <1>3, <2>3
    <3> QED BY <3>1, <3>2, Places
  <2>4. CASE ~IsV6(q) /\ IsV6(r)
    <3>1. Span(IsV6(r), l) \subseteq L3L4Locs /\ Span(IsV6(q), m) = {m}
      BY <1>2, <2>4, Spans
    <3>2. m \in EtherLocs
      BY <1>1, <1>4, <2>4
    <3> QED BY <3>1, <3>2, Places
  <2> QED BY <2>1, <2>2, <2>3, <2>4
<1> QED BY <1>5, <1>6, <1>7, <1>8

\* The L3/L4 rules of the list are of the family of is_ipv6.
LEMMA OneFamily ==
    ASSUME NEW s, Sound(s), NEW l \in Locs, s.nic.list[l] # NoRule,
           Type(s.nic.list[l]) = "l3l4"
    PROVE  s.nic.is_ipv6 = IsV6(s.nic.list[l])
<1>1. s.nic.is_ipv6 \in BOOLEAN
  BY DEF Sound, Typed, NicType
<1>2. IsV6(s.nic.list[l]) => s.nic.active_ipv6 # {}
  BY DEF Sound, Families
<1>3. ~IsV6(s.nic.list[l]) => s.nic.active_ipv4 # {}
  BY DEF Sound, Families
<1>4. IsV6(s.nic.list[l]) \in BOOLEAN
  BY DEF IsV6
<1> QED BY <1>1, <1>2, <1>3, <1>4 DEF Sound, Families

\* A rule of the list is a spec at its own location.
LEMMA OfList ==
    ASSUME NEW s, Typed(s), Placement(s), NEW l \in Locs, s.nic.list[l] # NoRule
    PROVE  /\ s.nic.list[l] \in Specs /\ s.nic.list[l].loc = l
           /\ Placed(s.nic.list[l], l)
           /\ Type(s.nic.list[l]) = "vlan" => IsVlanRule(s.nic.list[l])
<1>1. s.nic.list[l] \in Specs
  BY DEF Typed, NicType, Rules
<1> QED BY <1>1 DEF Placement, Placed, IsVlanRule

-----------------------------------------------------------------------------
(* Deleting a rule. *)

\* The VLAN filter is as it was.
VlansKept(s, t) ==
    /\ t.nic.vlans = s.nic.vlans /\ t.nic.active = s.nic.active
    /\ t.hw.vlans = s.hw.vlans /\ t.hw.prom = s.hw.prom

\* What a deletion leaves: a sound pair without the rule, and the other rules
\* as much in force as before.
Deleted(s, t, l) ==
    /\ Sound(t) /\ Effect(s, t)
    /\ Rebuilt(t) \/ VlansKept(s, t)
    /\ t.nic.list[l] = NoRule
    /\ \A m \in Locs \ {l} : t.nic.list[m] = s.nic.list[m]
    /\ t.nic.active = s.nic.active /\ t.nic.is_ipv6 = s.nic.is_ipv6
    /\ t.nic.active_ipv4 \subseteq s.nic.active_ipv4
    /\ t.nic.active_ipv6 \subseteq s.nic.active_ipv6

\* Deleting a VLAN rule leaves the other rules as they were.
LEMMA DeleteVlan ==
    ASSUME NEW s, Sound(s), NEW l \in Locs, s.nic.list[l] # NoRule,
           Type(s.nic.list[l]) = "vlan", NEW t, t = Delete(s, l)
    PROVE  Deleted(s, t, l)
<1> DEFINE r == s.nic.list[l]
           u == aq_add_del_fvlan(s, r, FALSE)
<1>1. r \in Specs /\ r.loc = l /\ IsVlanRule(r) /\ l \in VlanLocs
  BY OfList DEF Sound, IsVlanRule
<1>2. t = [u EXCEPT !.nic.list[l] = NoRule]
  BY DEF Delete, aq_add_del_rule
<1>a. NoRule \in Rules /\ FALSE \in BOOLEAN /\ Typed(s)
  BY DEF Rules, Sound
<1>b. u = aq_add_del_fvlan(s, r, FALSE)
  OBVIOUS
<1> HIDE DEF r, u
<1>3. /\ Typed(u) /\ BesideVlans(s, u) /\ Rebuilt(u) /\ Written(u)
      /\ ~HasQueue(u.nic.vlans[l])
      /\ \A m \in VlanLocs \ {l} :
            /\ HasQueue(u.nic.vlans[m]) <=> HasQueue(s.nic.vlans[m])
            /\ HasQueue(u.nic.vlans[m]) => u.nic.vlans[m] = s.nic.vlans[m]
  <2>1. VlanChange(s, r, FALSE, u)
    BY <1>1, <1>a, <1>b, AddDelVlan
  <2> QED BY <1>1, <2>1 DEF VlanChange, Rebuilt
<1>4. /\ Typed(t) /\ BesideList(u, t)
      /\ t.nic.list[l] = NoRule
      /\ \A m \in Locs \ {l} : t.nic.list[m] = u.nic.list[m]
  <2>1. ListChange(u, l, NoRule, t)
    BY <1>2, <1>3, <1>a, SetList
  <2> QED BY <2>1 DEF ListChange
<1>5. /\ \A m \in Locs \ {l} : t.nic.list[m] = s.nic.list[m]
      /\ t.nic.active = s.nic.active /\ t.nic.is_ipv6 = s.nic.is_ipv6
      /\ t.nic.active_ipv4 = s.nic.active_ipv4 /\ t.nic.active_ipv6 = s.nic.active_ipv6
      /\ t.hw.slots = s.hw.slots
  BY <1>3, <1>4 DEF BesideVlans, BesideList
<1>6. Placement(t)
  BY <1>4, <1>5 DEF Sound, Placement
<1>7. Families(t)
  BY <1>4, <1>5 DEF Sound, Families
<1>8. RowsOfRules(t)
  BY <1>3, <1>4, <1>5, Places DEF Sound, RowsOfRules, BesideList
<1>9. RowsWritten(t)
  <2>1. Written(t)
    BY <1>3, <1>4 DEF Written, BesideList
  <2> QED BY <2>1, WrittenOnly
<1>10. SlotsOfRules(t)
  <2> SUFFICES ASSUME NEW m \in Slots, s.hw.slots[m] # NoRule
               PROVE  t.nic.list[s.hw.slots[m].loc] = s.hw.slots[m]
    BY <1>5 DEF Sound, SlotsOfRules
  <2> DEFINE q == s.hw.slots[m]
  <2>1. q.loc \in Locs /\ s.nic.list[q.loc] = q /\ Type(q) # "vlan"
    BY DEF Sound, SlotsOfRules
  <2>2. q.loc # l
    BY <2>1
  <2> QED BY <1>5, <2>1, <2>2
<1>11. Effect(s, t)
  <2> SUFFICES ASSUME NEW m \in Locs, t.nic.list[m] # NoRule, AtWork(s.nic.list[m], s.hw)
               PROVE  AtWork(s.nic.list[m], t.hw)
    BY <1>4, <1>5 DEF Effect
  <2>0. m # l /\ s.nic.list[m] # NoRule
    BY <1>4, <1>5
  <2> DEFINE q == s.nic.list[m]
  <2>1. q \in Specs /\ q.loc = m /\ (Type(q) = "vlan" => IsVlanRule(q))
    BY <2>0, OfList DEF Sound
  <2> HIDE DEF q
  <2>2. CASE Type(q) # "vlan"
    BY <1>5, <2>2 DEF AtWork, q
  <2>3. CASE Type(q) = "vlan"
    <3>1. m \in VlanLocs /\ s.hw.vlans[m] = RowOf(q)
      BY <2>1, <2>3 DEF AtWork, IsVlanRule, q
    <3>2. HasQueue(RowOf(q)) /\ RowOf(q).enable
      <4>1. q.queue # NoQueue
        BY <2>1, <2>3, FilterAssumption DEF IsVlanRule, Queues
      <4> QED BY <4>1 DEF HasQueue, RowOf
    <3>3. s.nic.vlans[m] = RowOf(q)
      BY <3>1, <3>2 DEF Sound, RowsWritten
    <3>4. u.nic.vlans[m] = RowOf(q)
      BY <1>3, <2>0, <3>1, <3>2, <3>3
    <3>5. t.hw.vlans[m] = RowOf(q)
      BY <1>3, <1>4, <3>1, <3>2, <3>4 DEF Written, BesideList
    <3> QED BY <2>1, <2>3, <3>5 DEF AtWork, q
  <2> QED BY <2>2, <2>3
<1>12. Rebuilt(t)
  BY <1>3, <1>4 DEF Rebuilt, Written, BesideList
<1> QED BY <1>4, <1>5, <1>6, <1>7, <1>8, <1>9, <1>10, <1>11, <1>12 DEF Deleted, Sound

\* The registers of EtherType and L3/L4 rules: those of the rule are cleared.
LEMMA DeleteSlot ==
    ASSUME NEW s, Sound(s), NEW l \in Locs, s.nic.list[l] # NoRule,
           Type(s.nic.list[l]) # "vlan", NEW t, t = Delete(s, l)
    PROVE  Deleted(s, t, l)
<1> DEFINE r == s.nic.list[l]
           u == aq_add_del_rule(s, r, FALSE)
<1>1. r \in Specs /\ r.loc = l /\ Placed(r, l) /\ Type(r) \in {"ethertype", "l3l4"}
  BY OfList, RuleSorts DEF Sound, Placed
<1>2. t = [u EXCEPT !.nic.list[l] = NoRule]
  BY DEF Delete
<1>a. NoRule \in Rules /\ FALSE \in BOOLEAN /\ Typed(s)
  BY DEF Rules, Sound
<1>3. s.nic.is_ipv6 \in BOOLEAN
  BY DEF Sound, Typed, NicType
<1>4. /\ Typed(u) /\ BesideSlots(s, u)
      /\ u.nic.active_ipv4 \subseteq s.nic.active_ipv4
      /\ u.nic.active_ipv6 \subseteq s.nic.active_ipv6
      /\ \A m \in Locs \ {l} : m \in s.nic.active_ipv4 => m \in u.nic.active_ipv4
      /\ \A m \in {NV + NE, NV + NE + V6} \ {l} :
            Half(m) \in s.nic.active_ipv6 => Half(m) \in u.nic.active_ipv6
      /\ \A m \in Slots : u.hw.slots[m] = IF m \in Span(IsV6(r), l) THEN NoRule
                                          ELSE s.hw.slots[m]
  <2>1. CASE Type(r) = "ethertype"
    <3>1. u = aq_add_del_fether(s, r, FALSE)
      BY <2>1 DEF aq_add_del_rule
    <3>2. l \in EtherLocs /\ Span(IsV6(r), l) = {l}
      BY <1>1, <2>1 DEF Placed, IsV6, Span
    <3> HIDE DEF r, u
    <3>3. /\ Typed(u) /\ BesideSlots(s, u)
          /\ u.nic.active_ipv4 = s.nic.active_ipv4 /\ u.nic.active_ipv6 = s.nic.active_ipv6
          /\ \A m \in Slots : u.hw.slots[m] = IF m = l THEN NoRule ELSE s.hw.slots[m]
      <4>1. EtherChange(s, r, FALSE, u)
        BY <1>1, <1>a, <3>1, <3>2, AddDelEther
      <4> QED BY <1>1, <4>1 DEF EtherChange
    <3> QED BY <3>2, <3>3
  <2>2. CASE Type(r) = "l3l4"
    <3>1. u = aq_add_del_fl3l4(s, r, FALSE)
      BY <2>2 DEF aq_add_del_rule
    <3>2. s.nic.is_ipv6 = IsV6(r)
      BY <2>2, OneFamily
    <3>3. l \in L3L4Locs /\ (s.nic.is_ipv6 => l \in {NV + NE, NV + NE + V6})
      BY <1>1, <2>2, <3>2 DEF Placed
    <3> HIDE DEF r, u
    <3>4. /\ Typed(u) /\ BesideSlots(s, u)
          /\ u.nic.active_ipv4 = IF s.nic.is_ipv6 THEN s.nic.active_ipv4
                                 ELSE s.nic.active_ipv4 \ {l}
          /\ u.nic.active_ipv6 = IF ~s.nic.is_ipv6 THEN s.nic.active_ipv6
                                 ELSE s.nic.active_ipv6 \ {Half(l)}
          /\ \A m \in Slots : u.hw.slots[m] = IF m \in Span(IsV6(r), l) THEN NoRule
                                              ELSE s.hw.slots[m]
      <4>1. L3L4Change(s, r, FALSE, u)
        BY <1>1, <1>a, <3>1, <3>3, AddDelL3L4
      <4> QED BY <1>1, <3>2, <4>1 DEF L3L4Change
    <3>5. \A m \in {NV + NE, NV + NE + V6} \ {l} :
            Half(m) \in s.nic.active_ipv6 => Half(m) \in u.nic.active_ipv6
      BY <3>3, <3>4, Halves
    <3> QED BY <3>4, <3>5
  <2> QED BY <1>1, <2>1, <2>2
<1> HIDE DEF u
<1>5. /\ Typed(t) /\ BesideList(u, t)
      /\ t.nic.list[l] = NoRule
      /\ \A m \in Locs \ {l} : t.nic.list[m] = u.nic.list[m]
  <2>1. ListChange(u, l, NoRule, t)
    BY <1>2, <1>4, <1>a, SetList
  <2> QED BY <2>1 DEF ListChange
<1>6. /\ \A m \in Locs \ {l} : t.nic.list[m] = s.nic.list[m]
      /\ t.nic.active = s.nic.active /\ t.nic.is_ipv6 = s.nic.is_ipv6
      /\ t.nic.active_ipv4 = u.nic.active_ipv4 /\ t.nic.active_ipv6 = u.nic.active_ipv6
      /\ t.nic.vlans = s.nic.vlans /\ t.hw.vlans = s.hw.vlans /\ t.hw.slots = u.hw.slots
      /\ VlansKept(s, t)
  BY <1>4, <1>5 DEF BesideSlots, BesideList, VlansKept
<1>7. Placement(t)
  BY <1>5, <1>6 DEF Sound, Placement
<1>8. Families(t)
  <2>1. /\ t.nic.active_ipv4 # {} => ~t.nic.is_ipv6
        /\ t.nic.active_ipv6 # {} => t.nic.is_ipv6
    BY <1>4, <1>6 DEF Sound, Families
  <2>2. ASSUME NEW m \in Locs, t.nic.list[m] # NoRule, Type(t.nic.list[m]) = "l3l4"
        PROVE  IF IsV6(t.nic.list[m]) THEN Half(m) \in t.nic.active_ipv6
                                      ELSE m \in t.nic.active_ipv4
    <3>1. m # l /\ t.nic.list[m] = s.nic.list[m]
      BY <1>5, <1>6, <2>2
    <3>2. IF IsV6(s.nic.list[m]) THEN Half(m) \in s.nic.active_ipv6
                                 ELSE m \in s.nic.active_ipv4
      BY <2>2, <3>1 DEF Sound, Families
    <3>3. IsV6(s.nic.list[m]) => m \in {NV + NE, NV + NE + V6}
      BY <2>2, <3>1 DEF Sound, Placement, Placed
    <3> QED BY <1>4, <1>6, <3>1, <3>2, <3>3
  <2> QED BY <2>1, <2>2 DEF Families
<1>9. RowsOfRules(t)
  <2>1. ASSUME NEW m \in VlanLocs, HasQueue(s.nic.vlans[m]) PROVE m # l /\ m \in Locs
    BY <2>1, Places DEF Sound, RowsOfRules
  <2> QED BY <1>6, <2>1 DEF Sound, RowsOfRules
<1>10. RowsWritten(t)
  BY <1>6 DEF Sound, RowsWritten
<1>11. SlotsOfRules(t)
  <2> SUFFICES ASSUME NEW m \in Slots, t.hw.slots[m] # NoRule
               PROVE  /\ t.hw.slots[m].loc \in Locs
                      /\ t.nic.list[t.hw.slots[m].loc] = t.hw.slots[m]
                      /\ Type(t.hw.slots[m]) # "vlan"
                      /\ m \in Span(IsV6(t.hw.slots[m]), t.hw.slots[m].loc)
    BY DEF SlotsOfRules
  <2> DEFINE q == s.hw.slots[m]
  <2>1. t.hw.slots[m] = q /\ m \notin Span(IsV6(r), l)
    BY <1>4, <1>6
  <2>2. q.loc \in Locs /\ s.nic.list[q.loc] = q /\ Type(q) # "vlan" /\ m \in Span(IsV6(q), q.loc)
    BY <2>1 DEF Sound, SlotsOfRules
  <2>3. q.loc # l
    BY <2>1, <2>2
  <2> HIDE DEF q
  <2> QED BY <1>6, <2>1, <2>2, <2>3
<1>12. Effect(s, t)
  <2> SUFFICES ASSUME NEW m \in Locs, t.nic.list[m] # NoRule, AtWork(s.nic.list[m], s.hw)
               PROVE  AtWork(s.nic.list[m], t.hw)
    BY <1>5, <1>6 DEF Effect
  <2>0. m # l /\ s.nic.list[m] # NoRule
    BY <1>5, <1>6
  <2> DEFINE q == s.nic.list[m]
  <2>1. q \in Specs /\ q.loc = m /\ Placed(q, m)
    BY <2>0, OfList DEF Sound
  <2>2. Type(q) = "l3l4" /\ Type(r) = "l3l4" => IsV6(q) = IsV6(r)
    BY <2>0, OneFamily
  <2> HIDE DEF q, r
  <2>3. CASE Type(q) = "vlan"
    BY <1>6, <2>3 DEF AtWork, q
  <2>4. CASE Type(q) # "vlan"
    <3>1. Span(IsV6(q), m) \cap Span(IsV6(r), l) = {} /\ Span(IsV6(q), m) \subseteq Slots
      BY <1>1, <2>0, <2>1, <2>2, <2>4, Apart
    <3>2. \A k \in Span(IsV6(q), m) : s.hw.slots[k] = q
      BY <2>1, <2>4 DEF AtWork, q
    <3>3. \A k \in Span(IsV6(q), m) : t.hw.slots[k] = q
      BY <1>4, <1>6, <3>1, <3>2
    <3> QED BY <2>1, <2>4, <3>3 DEF AtWork, q
  <2> QED BY <2>3, <2>4
<1> QED BY <1>4, <1>5, <1>6, <1>7, <1>8, <1>9, <1>10, <1>11, <1>12 DEF Deleted, Sound

\* Delete as a whole: aq_add_del_rule, then out of the list.
LEMMA DeleteSound ==
    ASSUME NEW s, Sound(s), NEW l \in Locs, s.nic.list[l] # NoRule, NEW t, t = Delete(s, l)
    PROVE  Deleted(s, t, l)
  BY DeleteVlan, DeleteSlot

-----------------------------------------------------------------------------
(* Adding a rule at a location that is free. *)

\* No other VLAN rule of the list is for the VLAN of this one.
AloneIn(s, r) ==
    Type(r) = "vlan" => \A m \in VlanLocs \ {r.loc} :
        s.nic.list[m] # NoRule => s.nic.list[m].tci # r.tci

Added(s, t, r) ==
    /\ Sound(t) /\ AtWork(r, t.hw)
    /\ Rebuilt(t) \/ VlansKept(s, t)
    /\ AloneIn(s, r) => Effect(s, t)
    /\ t.nic.list[r.loc] = r
    /\ \A m \in Locs \ {r.loc} : t.nic.list[m] = s.nic.list[m]
    /\ t.nic.active = s.nic.active

\* The rule is listed first, then written.
LEMMA AddVlan ==
    ASSUME NEW s, Sound(s), NEW r, IsVlanRule(r), Placed(r, r.loc), s.nic.list[r.loc] = NoRule,
           NEW u, ListChange(s, r.loc, r, u), NEW t, t = aq_add_del_fvlan(u, r, TRUE)
    PROVE  Added(s, t, r)
<1>1. r \in Specs /\ r # NoRule /\ r.loc \in VlanLocs /\ r.loc \in Locs /\ Type(r) = "vlan"
  BY RuleSorts, Places DEF IsVlanRule
<1>2. /\ Typed(u) /\ BesideList(s, u) /\ u.nic.list[r.loc] = r
      /\ \A m \in Locs \ {r.loc} : u.nic.list[m] = s.nic.list[m]
  BY DEF ListChange
<1>3. /\ Typed(t) /\ BesideVlans(u, t) /\ Rebuilt(t) /\ Written(t)
      /\ t.nic.vlans[r.loc] = RowOf(r)
      /\ \A l \in VlanLocs \ {r.loc} :
            /\ HasQueue(t.nic.vlans[l]) <=> HasQueue(u.nic.vlans[l]) /\ u.nic.vlans[l].vid # r.tci
            /\ HasQueue(t.nic.vlans[l]) => t.nic.vlans[l] = u.nic.vlans[l]
  <2>1. VlanChange(u, r, TRUE, t)
    BY <1>2, AddDelVlan
  <2> QED BY <2>1 DEF VlanChange, Rebuilt
<1>4. /\ t.nic.list[r.loc] = r
      /\ \A m \in Locs \ {r.loc} : t.nic.list[m] = s.nic.list[m]
      /\ t.nic.active = s.nic.active /\ t.nic.is_ipv6 = s.nic.is_ipv6
      /\ t.nic.active_ipv4 = s.nic.active_ipv4 /\ t.nic.active_ipv6 = s.nic.active_ipv6
      /\ t.hw.slots = s.hw.slots /\ u.nic.vlans = s.nic.vlans
  BY <1>2, <1>3 DEF BesideVlans, BesideList
<1>5. Placement(t)
  BY <1>4 DEF Sound, Placement
<1>6. Families(t)
  BY <1>1, <1>4 DEF Sound, Families
<1>7. RowsOfRules(t)
  <2> SUFFICES ASSUME NEW m \in VlanLocs, HasQueue(t.nic.vlans[m])
               PROVE  /\ t.nic.list[m] # NoRule /\ Type(t.nic.list[m]) = "vlan"
                      /\ t.nic.vlans[m] = RowOf(t.nic.list[m])
    BY DEF RowsOfRules
  <2>1. CASE m = r.loc
    BY <1>1, <1>3, <1>4, <2>1
  <2>2. CASE m # r.loc
    <3>1. HasQueue(s.nic.vlans[m]) /\ t.nic.vlans[m] = s.nic.vlans[m]
      BY <1>3, <1>4, <2>2
    <3>2. m \in Locs /\ t.nic.list[m] = s.nic.list[m]
      BY <1>4, <2>2, Places
    <3> QED BY <3>1, <3>2 DEF Sound, RowsOfRules
  <2> QED BY <2>1, <2>2
<1>8. RowsWritten(t)
  BY <1>3, WrittenOnly
<1>9. SlotsOfRules(t)
  <2> SUFFICES ASSUME NEW m \in Slots, s.hw.slots[m] # NoRule
               PROVE  t.nic.list[s.hw.slots[m].loc] = s.hw.slots[m]
    BY <1>4 DEF Sound, SlotsOfRules
  <2> DEFINE q == s.hw.slots[m]
  <2>1. q.loc \in Locs /\ s.nic.list[q.loc] = q
    BY DEF Sound, SlotsOfRules
  <2>2. q.loc # r.loc
    BY <2>1
  <2> QED BY <1>4, <2>1, <2>2
<1>10. AtWork(r, t.hw)
  <2>1. RowOf(r).enable
    BY DEF RowOf
  <2>2. t.hw.vlans[r.loc] = RowOf(r)
    BY <1>1, <1>3, <2>1 DEF Written
  <2> QED BY <1>1, <2>2 DEF AtWork
<1>11. ASSUME AloneIn(s, r) PROVE Effect(s, t)
  <2> SUFFICES ASSUME NEW m \in Locs, t.nic.list[m] # NoRule, m # r.loc,
                      AtWork(s.nic.list[m], s.hw)
               PROVE  AtWork(s.nic.list[m], t.hw)
    BY <1>4, <1>10 DEF Effect
  <2> DEFINE q == s.nic.list[m]
  <2>0. q # NoRule
    BY <1>4
  <2>1. q \in Specs /\ q.loc = m /\ (Type(q) = "vlan" => IsVlanRule(q))
    BY <2>0, OfList DEF Sound
  <2> HIDE DEF q
  <2>2. CASE Type(q) # "vlan"
    BY <1>4, <2>2 DEF AtWork, q
  <2>3. CASE Type(q) = "vlan"
    <3>1. m \in VlanLocs /\ s.hw.vlans[m] = RowOf(q)
      BY <2>1, <2>3 DEF AtWork, IsVlanRule, q
    <3>2. HasQueue(RowOf(q)) /\ RowOf(q).enable /\ RowOf(q).vid = q.tci
      <4>1. q.queue # NoQueue
        BY <2>1, <2>3, FilterAssumption DEF IsVlanRule, Queues
      <4> QED BY <4>1 DEF HasQueue, RowOf
    <3>3. s.nic.vlans[m] = RowOf(q)
      BY <3>1, <3>2 DEF Sound, RowsWritten
    <3>4. q.tci # r.tci
      BY <1>1, <1>11, <2>0, <3>1 DEF AloneIn, q
    <3>5. t.nic.vlans[m] = RowOf(q)
      <4>1. u.nic.vlans[m] = RowOf(q)
        BY <1>4, <3>3
      <4>2. m \in VlanLocs \ {r.loc}
        BY <3>1
      <4>3. HasQueue(t.nic.vlans[m])
        BY <1>3, <3>2, <3>4, <4>1, <4>2
      <4> QED BY <1>3, <4>1, <4>2, <4>3
    <3>6. t.hw.vlans[m] = RowOf(q)
      BY <1>3, <3>1, <3>2, <3>5 DEF Written
    <3> QED BY <2>1, <2>3, <3>6 DEF AtWork, q
  <2> QED BY <2>2, <2>3
<1> QED BY <1>3, <1>4, <1>5, <1>6, <1>7, <1>8, <1>9, <1>10, <1>11 DEF Added, Sound

\* Adding an EtherType or L3/L4 rule at a free location.
LEMMA AddSlot ==
    ASSUME NEW s, Sound(s), NEW r \in Specs, r.loc \in Locs, Placed(r, r.loc),
           Type(r) # "vlan", s.nic.list[r.loc] = NoRule,
           Type(r) = "l3l4" => s.nic.is_ipv6 = IsV6(r),
           NEW u, ListChange(s, r.loc, r, u), NEW t, t = aq_add_del_rule(u, r, TRUE)
    PROVE  Added(s, t, r)
<1> DEFINE l == r.loc
<1>1. r # NoRule /\ Type(r) \in {"ethertype", "l3l4"}
  BY RuleSorts DEF Placed
<1>2. /\ Typed(u) /\ BesideList(s, u) /\ u.nic.list[l] = r
      /\ \A m \in Locs \ {l} : u.nic.list[m] = s.nic.list[m]
  BY DEF ListChange
<1>3. s.nic.is_ipv6 \in BOOLEAN /\ u.nic.is_ipv6 = s.nic.is_ipv6
  BY <1>2 DEF Sound, Typed, NicType, BesideList
<1>4. /\ Typed(t) /\ BesideSlots(u, t)
      /\ t.nic.active_ipv4 = IF Type(r) = "l3l4" /\ ~IsV6(r) THEN s.nic.active_ipv4 \cup {l}
                             ELSE s.nic.active_ipv4
      /\ t.nic.active_ipv6 = IF IsV6(r) THEN s.nic.active_ipv6 \cup {Half(l)}
                             ELSE s.nic.active_ipv6
      /\ \A m \in Slots : t.hw.slots[m] = IF m \in Span(IsV6(r), l) THEN r ELSE s.hw.slots[m]
  <2>1. CASE Type(r) = "ethertype"
    <3>1. t = aq_add_del_fether(u, r, TRUE)
      BY <2>1 DEF aq_add_del_rule
    <3>2. l \in EtherLocs /\ Span(IsV6(r), l) = {l} /\ ~IsV6(r) /\ Type(r) # "l3l4"
      BY <2>1 DEF Placed, IsV6, Span
    <3>3. EtherChange(u, r, TRUE, t)
      BY <1>2, <3>1, <3>2, AddDelEther
    <3> QED BY <1>2, <3>2, <3>3 DEF EtherChange, BesideList
  <2>2. CASE Type(r) = "l3l4"
    <3>1. t = aq_add_del_fl3l4(u, r, TRUE)
      BY <2>2 DEF aq_add_del_rule
    <3>2. u.nic.is_ipv6 = IsV6(r)
      BY <1>3, <2>2
    <3>3. l \in L3L4Locs /\ (u.nic.is_ipv6 => l \in {NV + NE, NV + NE + V6})
      BY <2>2, <3>2 DEF Placed
    <3>4. L3L4Change(u, r, TRUE, t)
      BY <1>2, <3>1, <3>3, AddDelL3L4
    <3> QED BY <1>2, <2>2, <3>2, <3>4 DEF L3L4Change, BesideList
  <2> QED BY <1>1, <2>1, <2>2
<1>5. /\ t.nic.list[l] = r
      /\ \A m \in Locs \ {l} : t.nic.list[m] = s.nic.list[m]
      /\ t.nic.active = s.nic.active /\ t.nic.is_ipv6 = s.nic.is_ipv6
      /\ t.nic.vlans = s.nic.vlans /\ t.hw.vlans = s.hw.vlans
      /\ VlansKept(s, t)
  BY <1>2, <1>4 DEF BesideSlots, BesideList, VlansKept
<1>6. Placement(t)
  BY <1>5 DEF Sound, Placement
<1>7. Families(t)
  <2>1. /\ t.nic.active_ipv4 # {} => ~t.nic.is_ipv6
        /\ t.nic.active_ipv6 # {} => t.nic.is_ipv6
    <3>1. IsV6(r) => Type(r) = "l3l4" /\ s.nic.is_ipv6
      BY DEF IsV6
    <3>2. Type(r) = "l3l4" /\ ~IsV6(r) => ~s.nic.is_ipv6
      OBVIOUS
    <3>3. /\ s.nic.active_ipv4 # {} => ~s.nic.is_ipv6
          /\ s.nic.active_ipv6 # {} => s.nic.is_ipv6
      BY DEF Sound, Families
    <3> QED BY <1>4, <1>5, <3>1, <3>2, <3>3
  <2>2. ASSUME NEW m \in Locs, t.nic.list[m] # NoRule, Type(t.nic.list[m]) = "l3l4"
        PROVE  IF IsV6(t.nic.list[m]) THEN Half(m) \in t.nic.active_ipv6
                                      ELSE m \in t.nic.active_ipv4
    <3>1. CASE m = l
      BY <1>4, <1>5, <2>2, <3>1
    <3>2. CASE m # l
      <4>1. t.nic.list[m] = s.nic.list[m]
        BY <1>5, <3>2
      <4>2. IF IsV6(s.nic.list[m]) THEN Half(m) \in s.nic.active_ipv6
                                   ELSE m \in s.nic.active_ipv4
        BY <2>2, <4>1 DEF Sound, Families
      <4> QED BY <1>4, <4>1, <4>2
    <3> QED BY <3>1, <3>2
  <2> QED BY <2>1, <2>2 DEF Families
<1>8. RowsOfRules(t)
  <2>1. ASSUME NEW m \in VlanLocs, HasQueue(s.nic.vlans[m]) PROVE m # l /\ m \in Locs
    BY <2>1, Places DEF Sound, RowsOfRules
  <2> QED BY <1>5, <2>1 DEF Sound, RowsOfRules
<1>9. RowsWritten(t)
  BY <1>5 DEF Sound, RowsWritten
<1>10. SlotsOfRules(t)
  <2> SUFFICES ASSUME NEW m \in Slots, t.hw.slots[m] # NoRule
               PROVE  /\ t.hw.slots[m].loc \in Locs
                      /\ t.nic.list[t.hw.slots[m].loc] = t.hw.slots[m]
                      /\ Type(t.hw.slots[m]) # "vlan"
                      /\ m \in Span(IsV6(t.hw.slots[m]), t.hw.slots[m].loc)
    BY DEF SlotsOfRules
  <2>1. CASE m \in Span(IsV6(r), l)
    BY <1>4, <1>5, <2>1
  <2>2. CASE m \notin Span(IsV6(r), l)
    <3> DEFINE q == s.hw.slots[m]
    <3>1. t.hw.slots[m] = q
      BY <1>4, <2>2
    <3>2. q.loc \in Locs /\ s.nic.list[q.loc] = q /\ Type(q) # "vlan"
          /\ m \in Span(IsV6(q), q.loc)
      BY <3>1 DEF Sound, SlotsOfRules
    <3>3. q.loc # l
      BY <3>1, <3>2
    <3> HIDE DEF q
    <3> QED BY <1>5, <3>1, <3>2, <3>3
  <2> QED BY <2>1, <2>2
<1>11. AtWork(r, t.hw)
  <2>1. Span(IsV6(r), l) \subseteq Slots
    <3>1. CASE IsV6(r)
      BY <3>1, Spans DEF Placed, Slots
    <3>2. CASE ~IsV6(r)
      BY <1>1, <3>2 DEF Placed, Slots, Span
    <3> QED BY <3>1, <3>2
  <2> QED BY <1>4, <2>1 DEF AtWork
<1>12. Effect(s, t)
  <2> SUFFICES ASSUME NEW m \in Locs, t.nic.list[m] # NoRule, m # l,
                      AtWork(s.nic.list[m], s.hw)
               PROVE  AtWork(s.nic.list[m], t.hw)
    BY <1>5, <1>11 DEF Effect
  <2> DEFINE q == s.nic.list[m]
  <2>0. q # NoRule
    BY <1>5
  <2>1. q \in Specs /\ q.loc = m /\ Placed(q, m)
    BY <2>0, OfList DEF Sound
  <2>2. Type(q) = "l3l4" /\ Type(r) = "l3l4" => IsV6(q) = IsV6(r)
    BY <2>0, OneFamily
  <2> HIDE DEF q
  <2>3. CASE Type(q) = "vlan"
    BY <1>5, <2>3 DEF AtWork, q
  <2>4. CASE Type(q) # "vlan"
    <3>1. Span(IsV6(q), m) \cap Span(IsV6(r), l) = {} /\ Span(IsV6(q), m) \subseteq Slots
      BY <2>0, <2>1, <2>2, <2>4, Apart
    <3>2. \A k \in Span(IsV6(q), m) : s.hw.slots[k] = q
      BY <2>1, <2>4 DEF AtWork, q
    <3>3. \A k \in Span(IsV6(q), m) : t.hw.slots[k] = q
      BY <1>4, <3>1, <3>2
    <3> QED BY <2>1, <2>4, <3>3 DEF AtWork, q
  <2> QED BY <2>3, <2>4
<1> QED BY <1>4, <1>5, <1>6, <1>7, <1>8, <1>9, <1>10, <1>11, <1>12 DEF Added, Sound

\* aq_add_del_rule for a rule that was just listed.
LEMMA AddSound ==
    ASSUME NEW s, Sound(s), NEW r \in Specs, r.loc \in Locs, Placed(r, r.loc),
           s.nic.list[r.loc] = NoRule,
           Type(r) = "l3l4" => s.nic.is_ipv6 = IsV6(r),
           NEW u, u = [s EXCEPT !.nic.list[r.loc] = r],
           NEW t, t = aq_add_del_rule(u, r, TRUE)
    PROVE  Added(s, t, r)
<1>1. ListChange(s, r.loc, r, u)
  BY RuleSorts, SetList DEF Sound
<1>2. CASE Type(r) = "vlan"
  <2>1. IsVlanRule(r) /\ t = aq_add_del_fvlan(u, r, TRUE)
    BY <1>2 DEF Placed, IsVlanRule, aq_add_del_rule
  <2> QED BY <1>1, <2>1, AddVlan
<1>3. CASE Type(r) # "vlan"
  BY <1>1, <1>3, AddSlot
<1> QED BY <1>2, <1>3

-----------------------------------------------------------------------------
(* aq_add_rxnfc_rule. *)

\* A rule that passes the check and can be carried out is one the list may
\* hold, and is_ipv6 is its family.
LEMMA Checked ==
    ASSUME NEW n, n.is_ipv6 \in BOOLEAN, NEW r \in Specs, aq_rule_is_correct(n, r)
    PROVE  /\ r.loc \in Locs
           /\ Feasible(r) => Placed(r, r.loc)
           /\ Type(r) = "l3l4" => FlagAfter(n, r) = IsV6(r)
           /\ Type(r) = "vlan" => r.tci \in n.active
<1>1. r.loc \in Locs /\ aq_check_filter(n, r) /\ IsSpec(r)
  BY FilterAssumption DEF aq_rule_is_correct
<1>2. CASE r.mask = "vid"
  <2>1. aq_check_approve_fvlan(n, r) /\ Type(r) = "vlan" /\ ~IsV6(r)
    BY <1>1, <1>2 DEF aq_check_filter, Type, IsV6
  <2>2. r.queue \in 0 .. 31
    BY <1>1, <2>1, FilterAssumption DEF aq_check_approve_fvlan, IsSpec, Queues
  <2> QED BY <1>1, <2>1, <2>2 DEF aq_check_approve_fvlan, Placed
<1>3. CASE r.mask # "vid" /\ OfL3L4(r)
  <2>1. aq_check_approve_fl3l4(n, r) /\ r.mask = "none" /\ r.flow # "ether"
    BY <1>1, <1>3 DEF aq_check_filter, OfL3L4
  <2>2. Type(r) = IF r.flow \in {"v4", "v6"} THEN "l3l4" ELSE "none"
    BY <2>1 DEF Type
  <2>3. FlagAfter(n, r) = (r.flow \in {"v6", "ip6"})
    BY <1>1, <1>3, <2>1 DEF FlagAfter, aq_check_approve_fl3l4
  <2>4. Type(r) = "l3l4" => FlagAfter(n, r) = IsV6(r)
    BY <2>2, <2>3 DEF IsV6
  <2>5. IsV6(r) => r.loc \in {NV + NE, NV + NE + V6}
    BY <2>1 DEF IsV6, aq_check_approve_fl3l4
  <2>6. Feasible(r) => Type(r) = "l3l4" /\ r.loc \in L3L4Locs
    BY <2>2 DEF Feasible
  <2> QED BY <1>1, <2>2, <2>4, <2>5, <2>6 DEF Placed
<1>4. CASE r.mask # "vid" /\ ~OfL3L4(r)
  <2>1. r.loc \in EtherLocs
    BY <1>1, <1>4 DEF aq_check_filter
  <2>2. Type(r) = "ethertype" /\ ~IsV6(r)
    BY <1>1, <1>4 DEF OfL3L4, IsSpec, Type, IsV6
  <2> QED BY <1>1, <2>1, <2>2 DEF Placed
<1> QED BY <1>2, <1>3, <1>4

\* The check of any rule leaves is_ipv6 the family of the rules there are.
LEMMA FlagSound ==
    ASSUME NEW n, NEW h, Sound(State(n, h)), NEW r \in Specs,
           NEW f, f = FlagAfter(n, r), NEW t, t = State([n EXCEPT !.is_ipv6 = f], h)
    PROVE  /\ Sound(t) /\ f \in BOOLEAN
           /\ t.nic.list = n.list /\ t.nic.active = n.active /\ t.nic.is_ipv6 = f
           /\ VlansKept(State(n, h), t)
           /\ t.hw = h
<1> DEFINE s == State(n, h)
<1>1. s.nic = n /\ s.hw = h /\ n \in NicType /\ h \in HwType
  BY DEF Sound, Typed, State
<1>2. /\ n.active_ipv4 # {} => ~n.is_ipv6
      /\ n.active_ipv6 # {} => n.is_ipv6
      /\ n.is_ipv6 \in BOOLEAN
  BY <1>1 DEF Sound, Families, NicType
<1>3. /\ f \in BOOLEAN
      /\ n.active_ipv4 # {} => ~f
      /\ n.active_ipv6 # {} => f
  <2> DEFINE six == r.flow \in {"v6", "ip6"}
             mix == (six /\ n.active_ipv4 # {}) \/ (~six /\ n.active_ipv6 # {})
  <2>1. f = IF ~OfL3L4(r) \/ r.loc \notin Locs THEN n.is_ipv6 ELSE IF mix THEN ~six ELSE six
    BY DEF FlagAfter, Mixed
  <2>a. six \in BOOLEAN
    OBVIOUS
  <2> HIDE DEF six
  <2>2. CASE ~OfL3L4(r) \/ r.loc \notin Locs
    BY <1>2, <2>1, <2>2
  <2>3. CASE ~(~OfL3L4(r) \/ r.loc \notin Locs) /\ six
    <3>1. f = IF n.active_ipv4 # {} THEN FALSE ELSE TRUE
      BY <2>1, <2>3, <2>a
    <3> QED BY <1>2, <3>1
  <2>4. CASE ~(~OfL3L4(r) \/ r.loc \notin Locs) /\ ~six
    <3>1. f = IF n.active_ipv6 # {} THEN TRUE ELSE FALSE
      BY <2>1, <2>4, <2>a
    <3> QED BY <1>2, <3>1
  <2> QED BY <2>2, <2>3, <2>4, <2>a
<1>4. /\ t.nic \in NicType /\ t.hw = h /\ t = [nic |-> t.nic, hw |-> h]
      /\ t.nic.list = n.list /\ t.nic.active = n.active /\ t.nic.vlans = n.vlans
      /\ t.nic.active_ipv4 = n.active_ipv4 /\ t.nic.active_ipv6 = n.active_ipv6
      /\ t.nic.is_ipv6 = f
  BY <1>1, <1>3 DEF NicType, State
<1>5. Typed(t)
  BY <1>1, <1>4 DEF Typed
<1>6. Placement(t)
  BY <1>1, <1>4 DEF Sound, Placement
<1>7. Families(t)
  BY <1>1, <1>3, <1>4 DEF Sound, Families
<1>8. RowsOfRules(t) /\ RowsWritten(t)
  BY <1>1, <1>4 DEF Sound, RowsOfRules, RowsWritten
<1>9. SlotsOfRules(t)
  BY <1>1, <1>4 DEF Sound, SlotsOfRules
<1> QED BY <1>1, <1>3, <1>4, <1>5, <1>6, <1>7, <1>8, <1>9 DEF Sound, VlansKept

\* aq_update_table_filters first takes out the rule at the location.
LEMMA Replaced ==
    ASSUME NEW s, Sound(s), NEW l \in Locs,
           NEW g, g = IF s.nic.list[l] = NoRule THEN s ELSE Delete(s, l)
    PROVE  Deleted(s, g, l)
<1>1. CASE s.nic.list[l] = NoRule
  <2>1. Effect(s, s)
    BY DEF Effect
  <2> QED BY <1>1, <2>1 DEF Deleted, VlansKept
<1>2. CASE s.nic.list[l] # NoRule
  BY <1>2, DeleteSound
<1> QED BY <1>1, <1>2

\* A rule that is listed and taken off again leaves no trace.
LEMMA ListedInVain ==
    ASSUME NEW g, Typed(g), NEW l \in Locs, NEW r \in Rules, g.nic.list[l] = NoRule,
           NEW u, ListChange(g, l, r, u), NEW t, ListChange(u, l, NoRule, t)
    PROVE  t = g
<1>1. ListChange(g, l, r, u)
  OBVIOUS
<1>2. ListChange(u, l, NoRule, t)
  OBVIOUS
<1>4. g.nic \in NicType /\ t.nic \in NicType /\ t.hw = g.hw
  BY <1>1, <1>2 DEF ListChange, BesideList, Typed
<1>5. \A m \in Locs : t.nic.list[m] = g.nic.list[m]
  BY <1>1, <1>2 DEF ListChange
<1>6. t.nic.list = g.nic.list
  BY <1>4, <1>5 DEF NicType
<1>7. t.nic = g.nic
  <2>1. /\ t.nic.active = g.nic.active /\ t.nic.vlans = g.nic.vlans
        /\ t.nic.is_ipv6 = g.nic.is_ipv6
        /\ t.nic.active_ipv4 = g.nic.active_ipv4 /\ t.nic.active_ipv6 = g.nic.active_ipv6
    BY <1>1, <1>2 DEF ListChange, BesideList
  <2>2. \A x \in NicType :
           x = [list |-> x.list, vlans |-> x.vlans, active |-> x.active,
                is_ipv6 |-> x.is_ipv6, active_ipv4 |-> x.active_ipv4,
                active_ipv6 |-> x.active_ipv6]
    BY DEF NicType
  <2> HIDE DEF NicType
  <2> QED BY <1>4, <1>6, <2>1, <2>2
<1> QED BY <1>2, <1>4, <1>7 DEF ListChange, Typed

\* What an operation on the rules makes of a pair: it is sound again, and the
\* VLAN filter is rebuilt or left alone.
Done(s, t) ==
    /\ Sound(t)
    /\ \/ Rebuilt(t)
       \/ t.nic.vlans = s.nic.vlans /\ t.hw.vlans = s.hw.vlans /\ t.hw.prom = s.hw.prom

\* The pair that aq_add_rxnfc_rule leaves.
Outcome(r) ==
    LET n == [nic EXCEPT !.is_ipv6 = FlagAfter(nic, r)]
        listed == aq_update_table_filters(State(n, hw), r)
    IN  IF ~aq_check_rule(nic, r) THEN State(n, hw)
        ELSE IF Feasible(r) THEN aq_add_del_rule(listed, r, TRUE)
        ELSE [listed EXCEPT !.nic.list[r.loc] = NoRule]

\* The list after it: the rule takes the place of another, or a place becomes
\* empty, or all stays.
ListAfter(s, t, r) ==
    \/ t.nic.list = s.nic.list
    \/ /\ r.loc \in Locs /\ aq_check_rule(s.nic, r)
       /\ t.nic.list[r.loc] \in {r, NoRule}
       /\ \A m \in Locs \ {r.loc} : t.nic.list[m] = s.nic.list[m]

\* aq_add_rxnfc_rule from the check to the registers, with its refusals.
LEMMA AddOutcome ==
    ASSUME NEW r \in Specs, Sound(State(nic, hw)), NEW s, s = State(nic, hw),
           NEW t, t = Outcome(r)
    PROVE  /\ Done(s, t) /\ t.nic.active = s.nic.active
           /\ (aq_check_rule(nic, r) => AloneIn(s, r)) => Effect(s, t)
           /\ ListAfter(s, t, r)
<1> DEFINE f == FlagAfter(nic, r)
           n == [nic EXCEPT !.is_ipv6 = f]
           p == State(n, hw)
           g == IF p.nic.list[r.loc] = NoRule THEN p ELSE Delete(p, r.loc)
           u == [g EXCEPT !.nic.list[r.loc] = r]
<1>1. s.nic = nic /\ s.hw = hw /\ nic.is_ipv6 \in BOOLEAN /\ r \in Rules
  BY RuleSorts DEF State, Sound, Typed, NicType
<1>2. /\ Sound(p)
      /\ p.nic.list = s.nic.list /\ p.nic.active = s.nic.active /\ p.nic.is_ipv6 = f
      /\ VlansKept(s, p) /\ p.hw = s.hw
  BY <1>1, FlagSound
<1>3. aq_update_table_filters(p, r) = u
  BY DEF aq_update_table_filters
<1>4. Effect(s, p)
  BY <1>2 DEF Effect
<1>5. t = IF ~aq_check_rule(nic, r) THEN p
          ELSE IF Feasible(r) THEN aq_add_del_rule(u, r, TRUE)
          ELSE [u EXCEPT !.nic.list[r.loc] = NoRule]
  BY <1>3 DEF Outcome
<1> HIDE DEF f, n, p
<1>6. CASE ~aq_check_rule(nic, r)
  BY <1>2, <1>4, <1>5, <1>6 DEF Done, VlansKept, ListAfter
<1>7. CASE aq_check_rule(nic, r)
  <2>1. /\ r.loc \in Locs
        /\ Feasible(r) => Placed(r, r.loc)
        /\ Type(r) = "l3l4" => f = IsV6(r)
    BY <1>1, <1>7, Checked DEF aq_check_rule, f
  <2>2. Deleted(p, g, r.loc)
    BY <1>2, <2>1, Replaced
  <2> HIDE DEF g
  <2>3. /\ Sound(g) /\ Typed(g) /\ g.nic.list[r.loc] = NoRule /\ g.nic.is_ipv6 = f
        /\ \A m \in Locs \ {r.loc} : g.nic.list[m] = s.nic.list[m]
        /\ g.nic.active = s.nic.active
        /\ Rebuilt(g) \/ VlansKept(p, g)
    BY <1>2, <2>2 DEF Deleted, Sound
  <2>4. Effect(s, g)
    BY <1>4, <2>2, EffectChains DEF Deleted
  <2>5. CASE Feasible(r)
    <3>1. t = aq_add_del_rule(u, r, TRUE)
      BY <1>5, <1>7, <2>5
    <3>2. Added(g, t, r)
      BY <2>1, <2>3, <2>5, <3>1, AddSound
    <3>3. Done(s, t) /\ t.nic.active = s.nic.active
      <4>1. Rebuilt(t) \/ VlansKept(g, t)
        BY <3>2 DEF Added
      <4>2. Rebuilt(g) /\ VlansKept(g, t) => Rebuilt(t)
        BY DEF Rebuilt, VlansKept, Written
      <4> QED BY <1>2, <2>3, <3>2, <4>1, <4>2 DEF Added, Done, VlansKept
    <3>4. ListAfter(s, t, r)
      BY <1>1, <1>7, <2>1, <2>3, <3>2 DEF Added, ListAfter
    <3>5. ASSUME AloneIn(s, r) PROVE Effect(s, t)
      <4>1. AloneIn(g, r)
        BY <2>3, <3>5, Places DEF AloneIn
      <4> QED BY <2>4, <3>2, <4>1, EffectChains DEF Added
    <3> QED BY <1>7, <3>3, <3>4, <3>5
  <2>6. CASE ~Feasible(r)
    <3>0. t = [u EXCEPT !.nic.list[r.loc] = NoRule] /\ u = [g EXCEPT !.nic.list[r.loc] = r]
      BY <1>5, <1>7, <2>6
    <3> HIDE DEF u
    <3>a. ListChange(g, r.loc, r, u)
      BY <1>1, <2>1, <2>3, <3>0, SetList
    <3>b. NoRule \in Rules /\ Typed(u)
      BY <3>a DEF Rules, ListChange
    <3>c. ListChange(u, r.loc, NoRule, t)
      BY <2>1, <3>0, <3>b, SetList
    <3>1. t = g
      BY <1>1, <2>1, <2>3, <3>a, <3>c, ListedInVain
    <3>2. Done(s, t)
      BY <1>2, <2>3, <3>1 DEF Done, VlansKept
    <3> QED BY <1>1, <1>7, <2>1, <2>3, <2>4, <3>1, <3>2 DEF ListAfter
  <2> QED BY <2>5, <2>6
<1> QED BY <1>6, <1>7

-----------------------------------------------------------------------------
(* VLANs: what the kernel asked for passes. *)

\* The VLAN rules of the list are for active VLANs, and no two for the same.
VlanRules(s) ==
    \A l \in VlanLocs : s.nic.list[l] # NoRule =>
        /\ s.nic.list[l].tci \in s.nic.active
        /\ \A m \in VlanLocs : s.nic.list[m] # NoRule /\ s.nic.list[m].tci = s.nic.list[l].tci
                               => m = l

\* VlanPasses for a pair.
Passing(s) ==
    ~s.hw.prom => \A v \in s.nic.active :
        \E l \in VlanLocs : s.hw.vlans[l].enable /\ s.hw.vlans[l].vid = v

Roomy(free, todo) ==
    /\ free \subseteq Nat /\ IsFiniteSet(free)
    /\ todo \subseteq Nat /\ IsFiniteSet(todo)
    /\ Cardinality(todo) <= Cardinality(free)

\* There is a free row for each VLAN without a queue: the rows with a queue
\* hold as many VLANs, all of them active.
LEMMA RowsSuffice ==
    ASSUME NEW active \in SUBSET Vids, NEW rows \in [VlanLocs -> Row], FilterFits(active),
           NEW free, free = FreeRows(rows),
           NEW todo, todo = active \ {rows[l].vid : l \in VlanLocs \ free},
           \A l \in VlanLocs \ free : rows[l].vid \in active,
           \A l, m \in VlanLocs \ free : rows[l].vid = rows[m].vid => l = m
    PROVE  Roomy(free, todo)
<1> DEFINE used == VlanLocs \ free
           vids == {rows[l].vid : l \in used}
<1>1. VlanLocs \subseteq Nat /\ IsFiniteSet(VlanLocs) /\ Cardinality(VlanLocs) = NV
  <2>1. NV \in Nat /\ NV > 0
    BY FilterAssumption
  <2>2. /\ IsFiniteSet(0 .. NV - 1)
        /\ Cardinality(0 .. NV - 1) = IF 0 > NV - 1 THEN 0 ELSE (NV - 1) - 0 + 1
    BY <2>1, FS_Interval
  <2> QED BY <2>1, <2>2 DEF VlanLocs
<1>2. active \subseteq Nat /\ IsFiniteSet(active) /\ Cardinality(active) <= NV
  BY FilterAssumption, FS_Subset DEF FilterFits
<1>3. free \in SUBSET VlanLocs /\ used \in SUBSET VlanLocs
  BY DEF FreeRows
<1>4. vids \in SUBSET active /\ todo = active \ vids /\ todo \in SUBSET active
  OBVIOUS
<1>5. IsFiniteSet(free) /\ IsFiniteSet(used) /\ IsFiniteSet(vids) /\ IsFiniteSet(todo)
  BY <1>1, <1>2, <1>3, <1>4, FS_Subset
<1>6. Cardinality(vids) = Cardinality(used)
  <2> DEFINE f == [l \in used |-> rows[l].vid]
  <2>1. f \in [used -> vids] /\ \A l, m \in used : f[l] = f[m] => l = m
    OBVIOUS
  <2>2. \A v \in vids : \E l \in used : f[l] = v
    OBVIOUS
  <2> HIDE DEF f, used, vids
  <2>3. f \in Bijection(used, vids)
    BY <2>1, <2>2, Fun_IsBij
  <2>4. ExistsBijection(used, vids)
    BY <2>3 DEF ExistsBijection
  <2> QED BY <1>5, <2>4, FS_Bijection
<1>7. Cardinality(free) = NV - Cardinality(used)
  <2>1. free = VlanLocs \ used /\ VlanLocs \cap used = used
    BY <1>3
  <2> HIDE DEF used
  <2>2. Cardinality(VlanLocs \ used) = Cardinality(VlanLocs) - Cardinality(VlanLocs \cap used)
    BY <1>1, FS_Difference
  <2> QED BY <1>1, <2>1, <2>2
<1>8. Cardinality(todo) = Cardinality(active) - Cardinality(vids)
  <2>1. active \cap vids = vids
    BY <1>4
  <2> HIDE DEF vids
  <2>2. Cardinality(active \ vids) = Cardinality(active) - Cardinality(active \cap vids)
    BY <1>2, FS_Difference
  <2> QED BY <1>4, <2>1, <2>2
<1>9. /\ Cardinality(used) \in Nat /\ Cardinality(vids) \in Nat /\ Cardinality(active) \in Nat
      /\ NV \in Nat
  BY <1>2, <1>5, FS_CardinalityType, FilterAssumption
<1>10. Cardinality(todo) <= Cardinality(free)
  <2> HIDE DEF used, vids
  <2> QED BY <1>2, <1>6, <1>7, <1>8, <1>9
<1> QED BY <1>1, <1>2, <1>3, <1>4, <1>5, <1>10 DEF Roomy

\* After aq_filters_vlans_update every VLAN passes.
LEMMA Covers ==
    ASSUME NEW t, Sound(t), VlanRules(t), Rebuilt(t)
    PROVE  Passing(t)
<1> SUFFICES ASSUME ~t.hw.prom, NEW v \in t.nic.active
             PROVE  \E l \in VlanLocs : t.hw.vlans[l].enable /\ t.hw.vlans[l].vid = v
  BY DEF Passing
<1> DEFINE active == t.nic.active
<1>1. PICK x \in [VlanLocs -> Row] : t.nic.vlans = aq_fvlan_rebuild(active, x)
  BY DEF Rebuilt
<1>2. active \in SUBSET Vids /\ FilterFits(active)
  BY DEF Sound, Typed, NicType, Rebuilt
<1> DEFINE free == FreeRows(x)
           todo == active \ {x[l].vid : l \in VlanLocs \ free}
<1>3. \A l \in VlanLocs : l \in free <=> ~HasQueue(x[l])
  BY DEF FreeRows, HasQueue, Row
<1>4. \A l \in VlanLocs \ free : HasQueue(x[l]) /\ t.nic.vlans[l] = x[l]
  BY <1>1, <1>2, <1>3, Rebuild
<1>5. \A l \in VlanLocs \ free :
         /\ t.nic.list[l] # NoRule /\ x[l].vid = t.nic.list[l].tci
         /\ x[l].enable
  <2> SUFFICES ASSUME NEW l \in VlanLocs \ free
               PROVE  /\ t.nic.list[l] # NoRule /\ x[l].vid = t.nic.list[l].tci
                      /\ x[l].enable
    OBVIOUS
  <2>1. l \in VlanLocs /\ HasQueue(t.nic.vlans[l]) /\ t.nic.vlans[l] = x[l]
    BY <1>4
  <2>2. t.nic.list[l] # NoRule /\ x[l] = RowOf(t.nic.list[l])
    BY <2>1 DEF Sound, RowsOfRules
  <2> QED BY <2>2 DEF RowOf
<1>6. /\ \A l \in VlanLocs \ free : x[l].vid \in active
      /\ \A l, m \in VlanLocs \ free : x[l].vid = x[m].vid => l = m
  BY <1>5 DEF VlanRules
<1>7. /\ free \subseteq Nat /\ IsFiniteSet(free)
      /\ todo \subseteq Nat /\ IsFiniteSet(todo)
      /\ Cardinality(todo) <= Cardinality(free)
  <2>1. free = FreeRows(x) /\ todo = active \ {x[l].vid : l \in VlanLocs \ free}
    OBVIOUS
  <2> HIDE DEF free, todo
  <2>2. Roomy(free, todo)
    BY <1>2, <1>6, <2>1, RowsSuffice
  <2> QED BY <2>2 DEF Roomy
<1>8. SUFFICES \E l \in VlanLocs : t.nic.vlans[l].enable /\ t.nic.vlans[l].vid = v
  BY DEF Rebuilt, Written
<1>9. CASE v \notin todo
  <2>1. PICK l \in VlanLocs \ free : x[l].vid = v
    BY <1>9
  <2> QED BY <1>4, <1>5, <2>1
<1>10. CASE v \in todo
  <2> DEFINE k == Rank(v, todo)
  <2> HIDE DEF free, todo
  <2>1. /\ k \in 0 .. Cardinality(todo) - 1 /\ Ranked(k, todo) = v
        /\ Cardinality(todo) \in Nat /\ Cardinality(free) \in Nat
    BY <1>7, <1>10, Ranks, RankedIs
  <2> HIDE DEF k
  <2>2. k \in 0 .. Cardinality(free) - 1 /\ k < Cardinality(todo)
    BY <1>7, <2>1
  <2>3. PICK l \in free : Rank(l, free) = k
    BY <1>7, <2>2, Ranks
  <2>4. l \in VlanLocs
    BY DEF free, FreeRows
  <2>5. t.nic.vlans[l] = [enable |-> TRUE, vid |-> v, queue |-> NoQueue]
    BY <1>1, <2>1, <2>2, <2>3, <2>4 DEF aq_fvlan_rebuild, free, todo
  <2> QED BY <2>4, <2>5
<1> QED BY <1>9, <1>10

-----------------------------------------------------------------------------
(* The operations. *)

\* The fields of a rule that the check for duplicates compares are determined
\* by its VLAN.  Without this the VLAN theorems are false: two rules for one
\* VLAN with different flow types pass the check and share a row.
OneFlowPerVlan ==
    \A r, q \in Specs : Type(r) = "vlan" /\ Type(q) = "vlan" /\ r.tci = q.tci
                        => r.flow = q.flow /\ r.key = q.key

Neat(s) == VlanRules(s) /\ Passing(s)

\* What a step makes of a sound pair.
Moved(s, t) ==
    /\ Sound(t)
    /\ OneFlowPerVlan /\ Neat(s) => Neat(t) /\ Effect(s, t)

\* The rules and the registers that hold them are as before.
SameRules(s, t) ==
    /\ t.nic.list = s.nic.list /\ t.nic.vlans = s.nic.vlans
    /\ t.nic.is_ipv6 = s.nic.is_ipv6
    /\ t.nic.active_ipv4 = s.nic.active_ipv4 /\ t.nic.active_ipv6 = s.nic.active_ipv6
    /\ t.hw.vlans = s.hw.vlans /\ t.hw.slots = s.hw.slots

\* A step that leaves the list and the registers alone.
LEMMA StaysSound ==
    ASSUME NEW s, NEW t, Sound(s), Typed(t), SameRules(s, t)
    PROVE  Sound(t) /\ Effect(s, t)
<1>1. Placement(t) /\ Families(t) /\ RowsOfRules(t) /\ RowsWritten(t)
  BY DEF Sound, SameRules, Placement, Families, RowsOfRules, RowsWritten
<1>2. SlotsOfRules(t)
  BY DEF Sound, SameRules, SlotsOfRules
<1>3. Effect(s, t)
  BY DEF Effect, AtWork, SameRules
<1> QED BY <1>1, <1>2, <1>3 DEF Sound

\* A VLAN more or less in the active ones.
LEMMA SetActive ==
    ASSUME NEW n, NEW h, Sound(State(n, h)), NEW A \in SUBSET Vids,
           NEW t, t = State([n EXCEPT !.active = A], h)
    PROVE  /\ Sound(t) /\ Effect(State(n, h), t) /\ SameRules(State(n, h), t)
           /\ t.nic.active = A /\ t.hw = h
<1>1. n \in NicType /\ h \in HwType
  BY DEF Sound, Typed, State
<1>2. [n EXCEPT !.active = A] \in NicType
  BY <1>1 DEF NicType
<1>3. Typed(t)
  BY <1>1, <1>2 DEF Typed, State
<1>4. SameRules(State(n, h), t) /\ t.nic.active = A /\ t.hw = h
  BY <1>1 DEF SameRules, State, NicType
<1> QED BY <1>3, <1>4, StaysSound

\* Turning VLAN promiscuous mode on or off changes no rule.
LEMMA SetProm ==
    ASSUME NEW s, Sound(s), NEW p \in BOOLEAN, NEW t, t = [s EXCEPT !.hw.prom = p]
    PROVE  /\ Sound(t) /\ Effect(s, t) /\ SameRules(s, t)
           /\ t.nic = s.nic /\ t.hw.prom = p
<1>1. Typed(s)
  BY DEF Sound
<1>2. Typed(t) /\ SameRules(s, t) /\ t.nic = s.nic /\ t.hw.prom = p
  BY <1>1 DEF Typed, HwType, SameRules
<1> QED BY <1>2, StaysSound

\* aq_filters_vlans_update by itself.
LEMMA UpdateSound ==
    ASSUME NEW s, Sound(s), NEW t, t = aq_filters_vlans_update(s)
    PROVE  /\ Sound(t) /\ Effect(s, t) /\ Rebuilt(t) /\ BesideVlans(s, t)
<1>1. Updated(s, t)
  BY Update DEF Sound
<1>2. /\ Typed(t) /\ BesideVlans(s, t) /\ Rebuilt(t) /\ Written(t)
      /\ \A l \in VlanLocs : IF HasQueue(s.nic.vlans[l]) THEN t.nic.vlans[l] = s.nic.vlans[l]
                             ELSE ~HasQueue(t.nic.vlans[l])
  BY <1>1 DEF Updated, Rebuilt
<1>3. Placement(t) /\ Families(t)
  BY <1>2 DEF Sound, Placement, Families, BesideVlans
<1>4. RowsOfRules(t)
  BY <1>2 DEF Sound, RowsOfRules, BesideVlans
<1>5. RowsWritten(t)
  BY <1>2, WrittenOnly
<1>6. SlotsOfRules(t)
  BY <1>2 DEF Sound, SlotsOfRules, BesideVlans
<1>7. Effect(s, t)
  <2> SUFFICES ASSUME NEW m \in Locs, s.nic.list[m] # NoRule, AtWork(s.nic.list[m], s.hw)
               PROVE  AtWork(s.nic.list[m], t.hw)
    BY <1>2 DEF Effect, BesideVlans
  <2> DEFINE q == s.nic.list[m]
  <2>1. q \in Specs /\ q.loc = m /\ (Type(q) = "vlan" => IsVlanRule(q))
    BY OfList DEF Sound
  <2> HIDE DEF q
  <2>2. CASE Type(q) # "vlan"
    BY <1>2, <2>2 DEF AtWork, q, BesideVlans
  <2>3. CASE Type(q) = "vlan"
    <3>1. m \in VlanLocs /\ s.hw.vlans[m] = RowOf(q)
      BY <2>1, <2>3 DEF AtWork, IsVlanRule, q
    <3>2. HasQueue(RowOf(q)) /\ RowOf(q).enable
      <4>1. q.queue # NoQueue
        BY <2>1, <2>3, FilterAssumption DEF IsVlanRule, Queues
      <4> QED BY <4>1 DEF HasQueue, RowOf
    <3>3. s.nic.vlans[m] = RowOf(q)
      BY <3>1, <3>2 DEF Sound, RowsWritten
    <3>4. t.hw.vlans[m] = RowOf(q)
      BY <1>2, <3>1, <3>2, <3>3 DEF Written
    <3> QED BY <2>1, <2>3, <3>4 DEF AtWork, q
  <2> QED BY <2>2, <2>3
<1> QED BY <1>2, <1>3, <1>4, <1>5, <1>6, <1>7 DEF Sound

\* Every VLAN still passes if the table was rebuilt, or left alone with no
\* VLAN more than before.
LEMMA StillPassing ==
    ASSUME NEW s, NEW t, Sound(t), VlanRules(t), Passing(s), t.nic.active \subseteq s.nic.active,
           Rebuilt(t) \/ (t.hw.vlans = s.hw.vlans /\ t.hw.prom = s.hw.prom)
    PROVE  Passing(t)
<1>1. CASE Rebuilt(t)
  BY <1>1, Covers
<1>2. CASE t.hw.vlans = s.hw.vlans /\ t.hw.prom = s.hw.prom
  BY <1>2 DEF Passing
<1> QED BY <1>1, <1>2

\* The locations of VLAN rules hold nothing else.
LEMMA OnlyVlanRules ==
    ASSUME NEW s, Sound(s), NEW l \in VlanLocs, s.nic.list[l] # NoRule
    PROVE  s.nic.list[l] \in Specs /\ Type(s.nic.list[l]) = "vlan"
<1>1. l \in Locs /\ l \notin EtherLocs /\ l \notin L3L4Locs
  BY Places DEF Slots
<1>2. s.nic.list[l] \in Specs /\ Placed(s.nic.list[l], l)
  BY <1>1, OfList DEF Sound
<1> QED BY <1>1, <1>2, RuleSorts DEF Placed

\* aq_add_rxnfc_rule as a step.
LEMMA AddMoves ==
    ASSUME NEW s, s = State(nic, hw), Sound(s), NEW r \in Specs, NEW t, t = Outcome(r)
    PROVE  Moved(s, t) /\ t.nic.active = s.nic.active
<1>0. s.nic = nic /\ s.hw = hw /\ nic.is_ipv6 \in BOOLEAN
  BY DEF State, Sound, Typed, NicType
<1>1. /\ Done(s, t) /\ t.nic.active = s.nic.active
      /\ (aq_check_rule(nic, r) => AloneIn(s, r)) => Effect(s, t)
      /\ ListAfter(s, t, r)
  BY AddOutcome
<1>2. Sound(t)
  BY <1>1 DEF Done
<1>3. ASSUME OneFlowPerVlan, Neat(s) PROVE Neat(t) /\ Effect(s, t)
  <2>1. ASSUME aq_check_rule(nic, r) PROVE AloneIn(s, r)
    <3> SUFFICES ASSUME Type(r) = "vlan", NEW m \in VlanLocs \ {r.loc},
                        s.nic.list[m] # NoRule, s.nic.list[m].tci = r.tci
                 PROVE  FALSE
      BY DEF AloneIn
    <3> DEFINE q == s.nic.list[m]
    <3>1. q \in Specs /\ Type(q) = "vlan" /\ m \in Locs
      BY OnlyVlanRules, Places
    <3>2. q.flow = r.flow /\ q.key = r.key /\ q.mask = r.mask
      BY <1>3, <3>1, RuleSorts DEF OneFlowPerVlan
    <3>3. aq_match_filter(q, r)
      BY <3>2 DEF aq_match_filter
    <3> QED BY <1>0, <2>1, <3>1, <3>3 DEF aq_check_rule, aq_rule_already_exists
  <2>2. VlanRules(t)
    <3>1. CASE t.nic.list = s.nic.list
      BY <1>1, <1>3, <3>1 DEF Neat, VlanRules
    <3>2. CASE /\ r.loc \in Locs /\ aq_check_rule(s.nic, r)
               /\ t.nic.list[r.loc] \in {r, NoRule}
               /\ \A m \in Locs \ {r.loc} : t.nic.list[m] = s.nic.list[m]
      <4>1. AloneIn(s, r)
        BY <1>0, <2>1, <3>2
      <4>2. Type(r) = "vlan" => r.tci \in s.nic.active
        BY <1>0, <3>2, Checked DEF aq_check_rule
      <4>3. r.loc \in VlanLocs /\ t.nic.list[r.loc] # NoRule
            => t.nic.list[r.loc] = r /\ Type(r) = "vlan"
        BY <1>2, <3>2, OnlyVlanRules
      <4>4. \A m \in VlanLocs : m \in Locs
        BY Places
      <4> QED BY <1>1, <1>3, <3>2, <4>1, <4>2, <4>3, <4>4 DEF Neat, VlanRules, AloneIn
    <3> QED BY <1>1, <3>1, <3>2 DEF ListAfter
  <2>3. Passing(t)
    BY <1>1, <1>2, <1>3, <2>2, StillPassing DEF Neat, Done
  <2> QED BY <1>1, <2>1, <2>2, <2>3 DEF Neat
<1> QED BY <1>1, <1>2, <1>3 DEF Moved

\* A deletion by the user, or of the flush.
LEMMA DeleteMoves ==
    ASSUME NEW s, Sound(s), NEW l \in Locs, s.nic.list[l] # NoRule, NEW t, t = Delete(s, l)
    PROVE  Moved(s, t) /\ t.nic.active = s.nic.active
<1>1. Deleted(s, t, l)
  BY DeleteSound
<1>2. Sound(t) /\ Effect(s, t) /\ t.nic.active = s.nic.active
  BY <1>1 DEF Deleted
<1>3. ASSUME Neat(s) PROVE Neat(t)
  <2>1. \A m \in VlanLocs : m \in Locs
    BY Places
  <2>2. VlanRules(t)
    BY <1>1, <1>3, <2>1 DEF Deleted, Neat, VlanRules
  <2>3. Passing(t)
    BY <1>1, <1>2, <1>3, <2>2, StillPassing DEF Deleted, Neat, VlansKept
  <2> QED BY <2>2, <2>3 DEF Neat
<1> QED BY <1>2, <1>3 DEF Moved

\* VLAN rules leave the list, and VLANs without a rule the active ones.
LEMMA FewerVlanRules ==
    ASSUME NEW s, NEW t, VlanRules(s),
           \A m \in VlanLocs : t.nic.list[m] # NoRule =>
               t.nic.list[m] = s.nic.list[m] /\ t.nic.list[m].tci \in t.nic.active
    PROVE  VlanRules(t)
<1> SUFFICES ASSUME NEW l \in VlanLocs, t.nic.list[l] # NoRule,
                    NEW m \in VlanLocs, t.nic.list[m] # NoRule,
                    t.nic.list[m].tci = t.nic.list[l].tci
             PROVE  m = l
  BY DEF VlanRules
<1>1. t.nic.list[l] = s.nic.list[l] /\ t.nic.list[m] = s.nic.list[m]
  OBVIOUS
<1> QED BY <1>1 DEF VlanRules

\* Adding a VLAN: it gets a row, or the filter is opened for all VLANs.
LEMMA AddVidMoves ==
    ASSUME NEW s, s = State(nic, hw), Sound(s), NEW v \in Vids,
           NEW t, t = aq_filters_vlans_update(State([nic EXCEPT !.active = @ \cup {v}], hw))
    PROVE  Moved(s, t)
<1> DEFINE A == nic.active \cup {v}
           p == State([nic EXCEPT !.active = A], hw)
<1>1. s.nic = nic /\ s.hw = hw /\ A \in SUBSET Vids
  BY DEF State, Sound, Typed, NicType
<1>2. t = aq_filters_vlans_update(p) /\ p = State([nic EXCEPT !.active = A], hw)
  OBVIOUS
<1> HIDE DEF A, p
<1>3. Sound(p) /\ Effect(s, p) /\ SameRules(s, p) /\ p.nic.active = A
  BY <1>1, <1>2, SetActive
<1>4. Sound(t) /\ Effect(p, t) /\ Rebuilt(t) /\ BesideVlans(p, t)
  BY <1>2, <1>3, UpdateSound
<1>5. Effect(s, t)
  BY <1>3, <1>4, EffectChains
<1>6. ASSUME Neat(s) PROVE Neat(t)
  <2>1. t.nic.list = s.nic.list /\ s.nic.active \subseteq t.nic.active
    BY <1>1, <1>3, <1>4 DEF SameRules, BesideVlans, A
  <2>2. \A m \in VlanLocs : s.nic.list[m] # NoRule => s.nic.list[m].tci \in s.nic.active
    BY <1>6 DEF Neat, VlanRules
  <2>3. VlanRules(t)
    BY <1>6, <2>1, <2>2, FewerVlanRules DEF Neat
  <2> QED BY <1>4, <2>3, Covers DEF Neat
<1> QED BY <1>4, <1>5, <1>6 DEF Moved

\* Killing a VLAN takes its rule along: the first with its tci is the VLAN
\* rule, if there is one, as VLAN rules come first.
LEMMA KillVidMoves ==
    ASSUME NEW s, s = State(nic, hw), Sound(s), NEW v \in Vids,
           NEW p, p = State([nic EXCEPT !.active = @ \ {v}], hw),
           NEW t, t = IF WithTci(v) = {} THEN aq_filters_vlans_update(p)
                      ELSE Delete(p, Ranked(0, WithTci(v)))
    PROVE  Moved(s, t) /\ t.nic.active \subseteq s.nic.active
<1> DEFINE A == nic.active \ {v}
<1>1. s.nic = nic /\ s.hw = hw /\ A \in SUBSET Vids
  BY DEF State, Sound, Typed, NicType
<1>2. p = State([nic EXCEPT !.active = A], hw)
  OBVIOUS
<1> HIDE DEF A
<1>3. Sound(p) /\ Effect(s, p) /\ SameRules(s, p) /\ p.nic.active = A /\ p.hw = hw
  BY <1>1, <1>2, SetActive
<1>4. p.nic.list = s.nic.list
  BY <1>3 DEF SameRules
<1>5. CASE WithTci(v) = {}
  <2>1. Sound(t) /\ Effect(p, t) /\ Rebuilt(t) /\ BesideVlans(p, t)
    BY <1>3, <1>5, UpdateSound
  <2>2. t.nic.list = s.nic.list /\ t.nic.active = s.nic.active \ {v}
    BY <1>1, <1>3, <1>4, <2>1 DEF BesideVlans, A
  <2>3. Effect(s, t)
    BY <1>3, <2>1, EffectChains
  <2>4. ASSUME Neat(s) PROVE Neat(t)
    <3>1. \A m \in VlanLocs : s.nic.list[m] # NoRule => s.nic.list[m].tci # v
      BY <1>1, <1>5, Places DEF WithTci
    <3>2. \A m \in VlanLocs : s.nic.list[m] # NoRule => s.nic.list[m].tci \in s.nic.active
      BY <2>4 DEF Neat, VlanRules
    <3>3. \A m \in VlanLocs : s.nic.list[m] # NoRule => s.nic.list[m].tci \in t.nic.active
      BY <2>2, <3>1, <3>2
    <3>4. VlanRules(t)
      BY <2>2, <2>4, <3>3, FewerVlanRules DEF Neat
    <3> QED BY <2>1, <3>4, Covers DEF Neat
  <2> QED BY <2>1, <2>2, <2>3, <2>4 DEF Moved
<1>6. CASE WithTci(v) # {}
  <2> DEFINE l == Ranked(0, WithTci(v))
  <2>1. WithTci(v) \subseteq Locs /\ Locs \subseteq Nat
    BY Places DEF WithTci
  <2>2. l \in WithTci(v) /\ \A x \in WithTci(v) : l <= x
    BY <1>6, <2>1, RankedFirst
  <2>3. t = Delete(p, l)
    BY <1>6
  <2> HIDE DEF l
  <2>4. l \in Locs /\ s.nic.list[l] # NoRule /\ s.nic.list[l].tci = v
    BY <1>1, <2>2 DEF WithTci
  <2>5. Deleted(p, t, l)
    BY <1>3, <1>4, <2>3, <2>4, DeleteSound
  <2>6. /\ Sound(t) /\ t.nic.active = s.nic.active \ {v}
        /\ t.nic.list[l] = NoRule
        /\ \A m \in Locs \ {l} : t.nic.list[m] = s.nic.list[m]
        /\ Rebuilt(t) \/ (t.hw.vlans = s.hw.vlans /\ t.hw.prom = s.hw.prom)
    <3>1. /\ Sound(t) /\ t.nic.active = A /\ t.nic.list[l] = NoRule
          /\ \A m \in Locs \ {l} : t.nic.list[m] = p.nic.list[m]
      BY <1>3, <2>5 DEF Deleted
    <3>2. Rebuilt(t) \/ (t.hw.vlans = hw.vlans /\ t.hw.prom = hw.prom)
      BY <1>3, <2>5 DEF Deleted, VlansKept
    <3>3. A = s.nic.active \ {v}
      BY <1>1 DEF A
    <3> QED BY <1>1, <1>4, <3>1, <3>2, <3>3
  <2>7. Effect(s, t)
    BY <1>3, <2>5, EffectChains DEF Deleted
  <2>8. ASSUME Neat(s) PROVE Neat(t)
    <3>1. ASSUME NEW m \in VlanLocs \ {l}, s.nic.list[m] # NoRule PROVE s.nic.list[m].tci # v
      <4> SUFFICES ASSUME s.nic.list[m].tci = v PROVE FALSE
        OBVIOUS
      <4>1. m \in WithTci(v)
        BY <1>1, <3>1, Places DEF WithTci
      <4>2. l \in VlanLocs
        BY <2>1, <2>2, <2>4, <4>1, FilterAssumption DEF VlanLocs
      <4> QED BY <2>4, <2>8, <3>1, <4>2 DEF Neat, VlanRules
    <3>2. \A m \in VlanLocs : m \in Locs
      BY Places
    <3>3. \A m \in VlanLocs : t.nic.list[m] # NoRule => m # l /\ t.nic.list[m] = s.nic.list[m]
      BY <2>6, <3>2
    <3>4. ASSUME NEW m \in VlanLocs, t.nic.list[m] # NoRule
          PROVE  t.nic.list[m] = s.nic.list[m] /\ t.nic.list[m].tci \in t.nic.active
      <4>1. m # l /\ t.nic.list[m] = s.nic.list[m]
        BY <3>3, <3>4
      <4>2. s.nic.list[m].tci \in s.nic.active
        BY <2>8, <3>4, <4>1 DEF Neat, VlanRules
      <4>3. s.nic.list[m].tci # v
        BY <3>1, <3>4, <4>1
      <4> QED BY <2>6, <4>1, <4>2, <4>3
    <3>5. VlanRules(t)
      BY <2>8, <3>4, FewerVlanRules DEF Neat
    <3>6. Passing(t)
      <4>1. t.nic.active \subseteq s.nic.active
        BY <2>6
      <4> QED BY <2>6, <2>8, <3>5, <4>1, StillPassing DEF Neat
    <3> QED BY <3>5, <3>6 DEF Neat
  <2> QED BY <2>6, <2>7, <2>8 DEF Moved
<1> QED BY <1>5, <1>6

\* Turning the VLAN filter on: no VLAN is active.
LEMMA OnMoves ==
    ASSUME NEW s, s = State(nic, hw), Sound(s), s.nic.active = {},
           NEW t, t = aq_filters_vlans_on(s)
    PROVE  Moved(s, t)
<1> DEFINE p == [s EXCEPT !.nic.active = {}]
           u == aq_filters_vlans_update(p)
<1>1. p = s
  BY DEF Sound, Typed, NicType
<1>2. u = aq_filters_vlans_update(s) /\ t = [u EXCEPT !.hw.prom = FALSE]
  BY <1>1 DEF aq_filters_vlans_on
<1> HIDE DEF u
<1>3. Sound(u) /\ Effect(s, u) /\ BesideVlans(s, u)
  BY <1>2, UpdateSound
<1>4. Sound(t) /\ Effect(u, t) /\ t.nic = u.nic
  BY <1>2, <1>3, SetProm
<1>5. t.nic.list = s.nic.list /\ t.nic.active = {}
  BY <1>3, <1>4 DEF BesideVlans
<1>6. ASSUME Neat(s) PROVE Neat(t)
  BY <1>5, <1>6 DEF Neat, VlanRules, Passing
<1> QED BY <1>3, <1>4, <1>6, EffectChains DEF Moved

\* Turning it off: the VLAN rules and their rows go together.
LEMMA OffMoves ==
    ASSUME NEW s, s = State(nic, hw), Sound(s), NEW t, t = aq_filters_vlans_off(s)
    PROVE  Moved(s, t) /\ t.nic.active = {}
<1> DEFINE list == [l \in Locs |-> IF s.nic.list[l] # NoRule /\ Type(s.nic.list[l]) = "vlan"
                                   THEN NoRule ELSE s.nic.list[l]]
           rows == [l \in VlanLocs |-> ZeroRow]
           p == [s EXCEPT !.nic.list = list, !.nic.active = {}, !.nic.vlans = rows]
           u == aq_filters_vlans_update(p)
<1>1. Typed(s) /\ s.nic \in NicType /\ s.hw \in HwType /\ s.nic.list \in [Locs -> Rules]
  BY DEF Sound, Typed, NicType
<1>2. list \in [Locs -> Rules] /\ rows \in [VlanLocs -> Row]
  BY <1>1 DEF Rules, ZeroRow, Row
<1>3. t = [u EXCEPT !.hw.prom = TRUE]
  BY DEF aq_filters_vlans_off
<1>4. /\ \A l \in Locs : list[l] # NoRule => list[l] = s.nic.list[l] /\ Type(list[l]) # "vlan"
      /\ \A l \in Locs : s.nic.list[l] # NoRule /\ Type(s.nic.list[l]) # "vlan"
                         => list[l] = s.nic.list[l]
      /\ \A l \in VlanLocs : ~HasQueue(rows[l])
  BY DEF HasQueue, ZeroRow
<1> HIDE DEF list, rows
<1>5. /\ Typed(p) /\ p.nic.list = list /\ p.nic.active = {} /\ p.nic.vlans = rows
      /\ p.nic.is_ipv6 = s.nic.is_ipv6
      /\ p.nic.active_ipv4 = s.nic.active_ipv4 /\ p.nic.active_ipv6 = s.nic.active_ipv6
      /\ p.hw = s.hw
  BY <1>1, <1>2 DEF Typed, NicType
<1> HIDE DEF p
<1>6. Updated(p, u)
  BY <1>5, Update
<1> HIDE DEF u
<1>7. /\ Typed(u) /\ u.nic.list = list /\ u.nic.active = {}
      /\ u.nic.is_ipv6 = s.nic.is_ipv6
      /\ u.nic.active_ipv4 = s.nic.active_ipv4 /\ u.nic.active_ipv6 = s.nic.active_ipv6
      /\ u.hw.slots = s.hw.slots /\ Written(u)
      /\ \A l \in VlanLocs : ~HasQueue(u.nic.vlans[l])
  BY <1>4, <1>5, <1>6 DEF Updated, BesideVlans, Rebuilt
<1>8. Placement(u)
  BY <1>4, <1>7 DEF Sound, Placement
<1>9. Families(u)
  BY <1>4, <1>7 DEF Sound, Families
<1>10. RowsOfRules(u) /\ RowsWritten(u)
  BY <1>7, WrittenOnly DEF RowsOfRules
<1>11. SlotsOfRules(u)
  <2> SUFFICES ASSUME NEW m \in Slots, s.hw.slots[m] # NoRule
               PROVE  list[s.hw.slots[m].loc] = s.hw.slots[m]
    BY <1>7 DEF Sound, SlotsOfRules
  <2> QED BY <1>4 DEF Sound, SlotsOfRules
<1>12. Sound(u)
  BY <1>7, <1>8, <1>9, <1>10, <1>11 DEF Sound
<1>13. Effect(s, u)
  <2> SUFFICES ASSUME NEW m \in Locs, list[m] # NoRule, AtWork(s.nic.list[m], s.hw)
               PROVE  AtWork(s.nic.list[m], u.hw)
    BY <1>4, <1>7 DEF Effect
  <2> QED BY <1>4, <1>7 DEF AtWork
<1>14. Sound(t) /\ Effect(u, t) /\ t.nic = u.nic /\ t.hw.prom = TRUE
  BY <1>3, <1>12, SetProm
<1>15. ASSUME NEW l \in VlanLocs PROVE t.nic.list[l] = NoRule
  <2> SUFFICES ASSUME t.nic.list[l] # NoRule PROVE FALSE
    OBVIOUS
  <2>1. Type(t.nic.list[l]) = "vlan"
    BY <1>14, OnlyVlanRules
  <2> QED BY <1>4, <1>7, <1>14, <2>1, Places
<1>16. Neat(t)
  BY <1>14, <1>15 DEF Neat, VlanRules, Passing
<1> QED BY <1>7, <1>13, <1>14, <1>16, EffectChains DEF Moved

\* A reset clears the registers behind the list.
LEMMA ResetSound ==
    ASSUME NEW s, s = State(nic, hw), Sound(s),
           NEW t, t = State(nic, [vlans |-> [l \in VlanLocs |-> ZeroRow],
                                  slots |-> [l \in DOMAIN hw.slots |-> NoRule],
                                  prom  |-> TRUE])
    PROVE  Sound(t) /\ (Neat(s) => Neat(t))
<1>1. s.nic = nic /\ s.hw = hw /\ nic \in NicType /\ hw.slots \in [Slots -> Rules]
  BY DEF State, Sound, Typed, HwType
<1> DEFINE vl == [l \in VlanLocs |-> ZeroRow]
           sl == [l \in Slots |-> NoRule]
<1>2. t = [nic |-> nic, hw |-> [vlans |-> vl, slots |-> sl, prom |-> TRUE]]
  BY <1>1 DEF State
<1>3. /\ vl \in [VlanLocs -> Row] /\ sl \in [Slots -> Rules]
      /\ \A l \in VlanLocs : ~HasQueue(vl[l])
      /\ \A l \in Slots : sl[l] = NoRule
  BY DEF ZeroRow, Row, Rules, HasQueue
<1> HIDE DEF vl, sl
<1> DEFINE h == [vlans |-> vl, slots |-> sl, prom |-> TRUE]
<1>a. h \in HwType /\ h.vlans = vl /\ h.slots = sl /\ h.prom
  BY <1>3 DEF HwType
<1> HIDE DEF h
<1>b. t = [nic |-> nic, hw |-> h]
  BY <1>2 DEF h
<1>c. t.nic = s.nic /\ t.hw = h
  BY <1>1, <1>b
<1>4. Typed(t) /\ t.hw.vlans = vl /\ t.hw.slots = sl /\ t.hw.prom
  BY <1>1, <1>a, <1>b, <1>c DEF Typed
<1>5. Placement(t) /\ Families(t)
  BY <1>c DEF Sound, Placement, Families
<1>6. RowsOfRules(t) /\ RowsWritten(t) /\ SlotsOfRules(t)
  <2>1. RowsOfRules(t)
    BY <1>c DEF Sound, RowsOfRules
  <2>2. RowsWritten(t)
    BY <1>3, <1>4 DEF RowsWritten
  <2>3. SlotsOfRules(t)
    BY <1>3, <1>4 DEF SlotsOfRules
  <2> QED BY <2>1, <2>2, <2>3
<1>7. Neat(s) => Neat(t)
  <2>1. ASSUME VlanRules(s) PROVE VlanRules(t)
    <3>1. \A m \in VlanLocs : s.nic.list[m] # NoRule => s.nic.list[m].tci \in s.nic.active
      BY <2>1 DEF VlanRules
    <3> QED BY <1>c, <2>1, <3>1, FewerVlanRules
  <2>2. Passing(t)
    BY <1>4 DEF Passing
  <2> QED BY <2>1, <2>2 DEF Neat
<1> QED BY <1>4, <1>5, <1>6, <1>7 DEF Sound

-----------------------------------------------------------------------------
(* The theorems. *)

Now == State(nic, hw)

\* With the VLAN filter off no VLAN is active, so that turning it on finds no
\* VLAN rule.
SoundInv ==
    /\ Flags /\ Sound(Now)
    /\ ~vlan => nic.active = {}

\* Nothing is listed and nothing written at first.
LEMMA SoundInit == Init => SoundInv /\ Neat(Now)
<1> SUFFICES ASSUME Init PROVE SoundInv /\ Neat(Now)
  OBVIOUS
<1> USE DEF Init
<1> DEFINE vl == [l \in VlanLocs |-> ZeroRow]
           sl == [l \in Slots |-> NoRule]
           li == [l \in Locs |-> NoRule]
<1>1. /\ nic = [list |-> li, vlans |-> vl, active |-> {}, is_ipv6 |-> FALSE,
                active_ipv4 |-> {}, active_ipv6 |-> {}]
      /\ hw = [vlans |-> vl, slots |-> sl, prom |-> TRUE]
  BY DEF Slots
<1>2. /\ vl \in [VlanLocs -> Row] /\ sl \in [Slots -> Rules] /\ li \in [Locs -> Rules]
      /\ \A l \in VlanLocs : ~HasQueue(vl[l])
      /\ \A l \in Slots : sl[l] = NoRule
      /\ \A l \in Locs : li[l] = NoRule
  BY DEF ZeroRow, Row, Rules, HasQueue
<1> HIDE DEF vl, sl, li
<1>3. /\ nic \in NicType /\ hw \in HwType
      /\ nic.list = li /\ nic.vlans = vl /\ nic.active = {}
      /\ nic.active_ipv4 = {} /\ nic.active_ipv6 = {}
      /\ hw.vlans = vl /\ hw.slots = sl /\ hw.prom
  BY <1>1, <1>2 DEF NicType, HwType
<1>4. Now.nic = nic /\ Now.hw = hw /\ Typed(Now)
  BY <1>3 DEF Now, State, Typed
<1> HIDE DEF Init
<1>5. Placement(Now) /\ Families(Now) /\ RowsOfRules(Now) /\ RowsWritten(Now)
  BY <1>2, <1>3, <1>4 DEF Placement, Families, RowsOfRules, RowsWritten
<1>6. SlotsOfRules(Now)
  BY <1>2, <1>3, <1>4 DEF SlotsOfRules
<1>7. Neat(Now)
  BY <1>2, <1>3, <1>4, Places DEF Neat, VlanRules, Passing
<1>8. Flags
  BY DEF Flags, Init
<1> QED BY <1>3, <1>4, <1>5, <1>6, <1>7, <1>8 DEF SoundInv, Sound

\* Become makes a pair the state.
LEMMA Becomes ==
    ASSUME NEW t, Typed(t), Become(t)
    PROVE  Now' = t
  BY DEF Become, Now, State, Typed

\* A step, and what it makes of the pair.
LEMMA Steps ==
    ASSUME SoundInv, Next
    PROVE  /\ Flags'
           /\ (~vlan => nic.active = {})'
           /\ Sound(Now')
           /\ OneFlowPerVlan /\ Neat(Now) => Neat(Now') /\ (aq_nic_init \/ Effect(Now, Now'))
<1>1. /\ Now = State(nic, hw) /\ Now.nic = nic /\ Now.hw = hw
      /\ Flags /\ Sound(Now) /\ (~vlan => nic.active = {})
  BY DEF SoundInv, Now, State
<1> DEFINE Goal == /\ Flags'
                   /\ (~vlan => nic.active = {})'
                   /\ Sound(Now')
                   /\ OneFlowPerVlan /\ Neat(Now)
                      => Neat(Now') /\ (aq_nic_init \/ Effect(Now, Now'))
<1>2. ASSUME NEW t, Moved(Now, t), Become(t)
      PROVE  /\ Sound(Now') /\ nic' = t.nic
             /\ OneFlowPerVlan /\ Neat(Now) => Neat(Now') /\ Effect(Now, Now')
  <2>1. Now' = t
    BY <1>2, Becomes DEF Moved, Sound
  <2> QED BY <1>2, <2>1 DEF Moved, Become
<1>3. ASSUME NEW r \in Specs, aq_add_rxnfc_rule(r) PROVE Goal
  <2> DEFINE t == Outcome(r)
  <2>1. Become(t) /\ UNCHANGED <<ntuple, vlan, want>>
    BY <1>3 DEF aq_add_rxnfc_rule, Outcome
  <2> HIDE DEF t
  <2>2. Moved(Now, t) /\ t.nic.active = nic.active
    BY <1>1, AddMoves DEF t
  <2> QED BY <1>1, <1>2, <2>1, <2>2 DEF Flags
<1>4. ASSUME NEW l \in Locs, aq_del_rxnfc_rule(l) PROVE Goal
  <2> DEFINE t == Delete(Now, l)
  <2>1. Become(t) /\ UNCHANGED <<ntuple, vlan, want>> /\ nic.list[l] # NoRule
    BY <1>1, <1>4 DEF aq_del_rxnfc_rule
  <2>2. Moved(Now, t) /\ t.nic.active = nic.active
    BY <1>1, <2>1, DeleteMoves
  <2> HIDE DEF t
  <2> QED BY <1>1, <1>2, <2>1, <2>2 DEF Flags
<1>5. ASSUME NEW v \in Vids, aq_ndo_vlan_rx_add_vid(v) PROVE Goal
  <2> DEFINE t == aq_filters_vlans_update(State([nic EXCEPT !.active = @ \cup {v}], hw))
  <2>1. Become(t) /\ UNCHANGED <<ntuple, vlan, want>> /\ vlan
    BY <1>5 DEF aq_ndo_vlan_rx_add_vid
  <2>2. Moved(Now, t)
    BY <1>1, AddVidMoves
  <2> HIDE DEF t
  <2> QED BY <1>1, <1>2, <2>1, <2>2 DEF Flags
<1>6. ASSUME NEW v \in Vids, aq_ndo_vlan_rx_kill_vid(v) PROVE Goal
  <2> DEFINE p == State([nic EXCEPT !.active = @ \ {v}], hw)
             t == IF WithTci(v) = {} THEN aq_filters_vlans_update(p)
                  ELSE Delete(p, Ranked(0, WithTci(v)))
  <2>1. Become(t) /\ UNCHANGED <<ntuple, vlan, want>> /\ vlan
    BY <1>6 DEF aq_ndo_vlan_rx_kill_vid
  <2>2. Moved(Now, t)
    BY <1>1, KillVidMoves
  <2> HIDE DEF t
  <2> QED BY <1>1, <1>2, <2>1, <2>2 DEF Flags
<1>7. ASSUME NEW nt \in BOOLEAN, NEW vl \in BOOLEAN, SetFeatures(nt, vl) PROVE Goal
  <2>1. nic' = nic /\ hw' = hw /\ ntuple' = ntuple /\ vlan' = vlan /\ want' = {<<nt, vl>>}
    BY <1>7 DEF SetFeatures
  <2>2. Now' = Now
    BY <2>1 DEF Now
  <2>3. Effect(Now, Now)
    BY DEF Effect
  <2> QED BY <1>1, <2>1, <2>2, <2>3 DEF Flags
<1>8. ASSUME aq_clear_rxnfc_all_rules PROVE Goal
  <2> DEFINE l == Ranked(0, Listed)
             t == Delete(Now, l)
  <2>1. Become(t) /\ UNCHANGED <<ntuple, vlan, want>> /\ Listed # {}
    BY <1>1, <1>8 DEF aq_clear_rxnfc_all_rules, Flushing
  <2>2. l \in Locs /\ nic.list[l] # NoRule
    <3>1. Listed \subseteq Nat
      BY Places DEF Listed
    <3>2. l \in Listed
      BY <2>1, <3>1, RankedFirst
    <3> QED BY <3>2 DEF Listed
  <2> HIDE DEF l
  <2>3. Moved(Now, t) /\ t.nic.active = nic.active
    BY <1>1, <2>2, DeleteMoves
  <2> HIDE DEF t
  <2> QED BY <1>1, <1>2, <2>1, <2>3 DEF Flags
<1>9. ASSUME FeaturesSet PROVE Goal
  <2>1. PICK w \in want :
           /\ Become(IF w[2] = vlan THEN Now
                     ELSE IF w[2] THEN aq_filters_vlans_on(Now)
                     ELSE aq_filters_vlans_off(Now))
           /\ ntuple' = w[1] /\ vlan' = w[2] /\ want' = {}
    BY <1>1, <1>9 DEF FeaturesSet
  <2>2. w[1] \in BOOLEAN /\ w[2] \in BOOLEAN /\ vlan \in BOOLEAN
    BY <1>1 DEF Flags
  <2>3. Flags'
    BY <2>1, <2>2 DEF Flags
  <2>4. CASE w[2] = vlan
    <3>1. Become(Now) /\ vlan' = vlan
      BY <2>1, <2>4
    <3>2. Moved(Now, Now)
      BY <1>1 DEF Moved, Effect
    <3> QED BY <1>1, <1>2, <2>3, <3>1, <3>2
  <2>5. CASE w[2] # vlan /\ w[2]
    <3> DEFINE t == aq_filters_vlans_on(Now)
    <3>1. Become(t) /\ vlan' /\ nic.active = {}
      BY <1>1, <2>1, <2>2, <2>5
    <3>2. Moved(Now, t)
      BY <1>1, <3>1, OnMoves
    <3> HIDE DEF t
    <3> QED BY <1>2, <2>3, <3>1, <3>2
  <2>6. CASE w[2] # vlan /\ ~w[2]
    <3> DEFINE t == aq_filters_vlans_off(Now)
    <3>1. Become(t)
      BY <2>1, <2>6
    <3>2. Moved(Now, t) /\ t.nic.active = {}
      BY <1>1, OffMoves
    <3> HIDE DEF t
    <3> QED BY <1>2, <2>3, <3>1, <3>2
  <2> QED BY <2>4, <2>5, <2>6
<1>10. ASSUME aq_nic_init PROVE Goal
  <2> DEFINE t == State(nic, [vlans |-> [l \in VlanLocs |-> ZeroRow],
                              slots |-> [l \in DOMAIN hw.slots |-> NoRule],
                              prom  |-> TRUE])
  <2>1. /\ nic' = nic /\ Now' = t /\ UNCHANGED <<ntuple, vlan, want>>
    BY <1>10 DEF aq_nic_init, Now
  <2>2. Sound(t) /\ (Neat(Now) => Neat(t))
    BY <1>1, ResetSound
  <2> HIDE DEF t
  <2> QED BY <1>1, <1>10, <2>1, <2>2 DEF Flags
<1> QED BY <1>3, <1>4, <1>5, <1>6, <1>7, <1>8, <1>9, <1>10 DEF Next

\* Every step keeps the pair sound.
LEMMA SoundNext == SoundInv /\ [Next]_vars => SoundInv'
<1> SUFFICES ASSUME SoundInv, [Next]_vars PROVE SoundInv'
  OBVIOUS
<1>1. CASE Next
  BY <1>1, Steps DEF SoundInv
<1>2. CASE UNCHANGED vars
  BY <1>2 DEF vars, SoundInv, Flags, Now
<1> QED BY <1>1, <1>2

(***************************************************************************)
(* The values of the list, the table and the registers are of their types, *)
(* the VLAN ids that aq_fvlan_rebuild picks by rank included.              *)
(***************************************************************************)
THEOREM TypeCorrect == Spec => []TypeOK
<1>1. SoundInv => TypeOK
  BY DEF SoundInv, Sound, Typed, Now, State, Flags, TypeOK, NicType, HwType, Slots
<1> QED BY <1>1, SoundInit, SoundNext, PTL DEF Spec

(***************************************************************************)
(* No filter is at work that is not in the list (NoGhostFilter), whatever  *)
(* rules are added, replaced, refused half-way, deleted with their VLAN or *)
(* flushed, and however often the device is reset: for any locations,      *)
(* VLANs and flow specs.                                                   *)
(***************************************************************************)
THEOREM NoGhosts == Spec => []NoGhostFilter
<1>1. ASSUME SoundInv PROVE NoGhostFilter
  <2>1. Now.nic = nic /\ Now.hw = hw /\ Sound(Now) /\ Typed(Now)
    BY <1>1 DEF SoundInv, Now, State, Sound
  <2>2. ASSUME NEW l \in VlanLocs, hw.vlans[l].enable, hw.vlans[l].queue # NoQueue
        PROVE  \E r \in TheRules : Type(r) = "vlan" /\ r.loc = l /\ InForce(r)
    <3> DEFINE r == nic.list[l]
    <3>1. l \in Locs /\ hw.vlans[l] = nic.vlans[l] /\ HasQueue(nic.vlans[l])
      BY <2>1, <2>2, Places DEF Sound, RowsWritten, HasQueue
    <3>2. r # NoRule /\ Type(r) = "vlan" /\ hw.vlans[l] = RowOf(r)
      BY <2>1, <2>2, <3>1 DEF Sound, RowsOfRules
    <3>3. r \in TheRules
      BY <3>1, <3>2 DEF TheRules, Listed
    <3>4. r.loc = l
      BY <2>1, <3>1, <3>2, OfList DEF Sound
    <3>5. InForce(r)
      BY <3>2, <3>4 DEF InForce, RowOf
    <3> QED BY <3>2, <3>3, <3>4, <3>5
  <2>3. ASSUME NEW l \in DOMAIN hw.slots, hw.slots[l] # NoRule PROVE hw.slots[l] \in TheRules
    <3>1. l \in Slots
      BY <2>1 DEF Typed, HwType
    <3> QED BY <2>1, <2>3, <3>1 DEF Sound, SlotsOfRules, TheRules, Listed
  <2> QED BY <2>2, <2>3 DEF NoGhostFilter
<1> QED BY <1>1, SoundInit, SoundNext, PTL DEF Spec

NeatInv == SoundInv /\ Neat(Now)

\* With one flow per VLAN, every step also keeps the VLAN rules neat.
LEMMA NeatNext ==
    ASSUME OneFlowPerVlan
    PROVE  NeatInv /\ [Next]_vars => NeatInv'
<1> SUFFICES ASSUME NeatInv, [Next]_vars PROVE NeatInv'
  OBVIOUS
<1>1. SoundInv'
  BY SoundNext DEF NeatInv
<1>2. CASE Next
  BY <1>1, <1>2, Steps DEF NeatInv
<1>3. CASE UNCHANGED vars
  <2>1. Now' = Now
    BY <1>3 DEF vars, Now
  <2> QED BY <1>1, <2>1 DEF NeatInv
<1> QED BY <1>2, <1>3

(***************************************************************************)
(* While the device filters VLANs, each VLAN of the kernel has a row       *)
(* (VlanPasses): the rows that rules hold and those that aq_fvlan_rebuild  *)
(* fills suffice, or aq_filters_vlans_update keeps the device promiscuous. *)
(***************************************************************************)
THEOREM VlansPass ==
    ASSUME OneFlowPerVlan
    PROVE  Spec => []VlanPasses
<1>1. NeatInv => VlanPasses
  BY DEF NeatInv, Neat, Passing, Now, State, VlanPasses
<1>2. Init => NeatInv
  BY SoundInit DEF NeatInv
<1>3. NeatInv /\ [Next]_vars => NeatInv'
  BY NeatNext
<1> QED BY <1>1, <1>2, <1>3, PTL DEF Spec

(***************************************************************************)
(* No operation but a reset disturbs the registers of a rule that stays in *)
(* the list, and a rule that enters it is in force (RulesTakeEffect).      *)
(***************************************************************************)
THEOREM RulesAreInForce ==
    ASSUME OneFlowPerVlan
    PROVE  Spec => RulesTakeEffect
<1> DEFINE Undisturbed ==
              aq_nic_init \/ \A r \in TheRules' : InForce(r)' \/ (r \in TheRules /\ ~InForce(r))
<1>1. ASSUME NeatInv, Next PROVE Undisturbed
  <2>1. aq_nic_init \/ Effect(Now, Now')
    BY <1>1, Steps DEF NeatInv
  <2>2. ASSUME Effect(Now, Now'), NEW r \in TheRules'
        PROVE  InForce(r)' \/ (r \in TheRules /\ ~InForce(r))
    <3>1. PICK l \in Locs : nic'.list[l] # NoRule /\ nic'.list[l] = r
      BY DEF TheRules, Listed
    <3>2. AtWork(r, hw') \/ (nic.list[l] = r /\ ~AtWork(r, hw))
      BY <2>2, <3>1 DEF Effect, Now, State
    <3>3. (AtWork(r, hw') => InForce(r)') /\ (~AtWork(r, hw) => ~InForce(r))
      BY DEF AtWork, InForce, RowOf, IsV6
    <3>4. nic.list[l] = r => r \in TheRules
      BY <3>1 DEF TheRules, Listed
    <3> QED BY <3>2, <3>3, <3>4
  <2> QED BY <2>1, <2>2
<1>2. Init => NeatInv
  BY SoundInit DEF NeatInv
<1>3. NeatInv /\ [Next]_vars => NeatInv'
  BY NeatNext
<1>4. NeatInv /\ [Next]_vars => [Undisturbed]_vars
  BY <1>1
<1>5. Spec => [][Undisturbed]_vars
  BY <1>2, <1>3, <1>4, PTL DEF Spec
<1> QED BY <1>5 DEF RulesTakeEffect

=============================================================================

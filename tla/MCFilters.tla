----------------------------- MODULE MCFilters -----------------------------
(* A small instance of Filters for TLC. *)
EXTENDS Filters

Ask(flow, mask, tci, key, queue, loc) ==
    [flow |-> flow, mask |-> mask, tci |-> tci, key |-> key, queue |-> queue, loc |-> loc]

\* VLAN rules (one of them at a location, one to a queue that is refused),
\* EtherType rules with and without a priority, and L3/L4 rules of either
\* family, also at a location of another type.
MCSpecs ==
    {Ask("v4", "vid", v, "a", 0, l) : v \in Vids, l \in 0 .. NV}
    \cup {Ask("v4", "vid", 1, "a", q, 0) : q \in 1 .. NumRss + 1}
    \cup {Ask("ether", "none", 0, "a", Disc, NV), Ask("ether", "prio", 0, "a", 0, NV)}
    \cup {Ask("v4", "none", 0, k, 0, l) : k \in {"a", "b"}, l \in L3L4Locs \cup {0}}
    \cup {Ask("v6", "none", 0, k, 0, l) : k \in {"a", "b"}, l \in L3L4Locs}
    \cup {Ask("ip4", "none", 0, "a", 0, l) : l \in {NV + NE, NV + NE + 1}}
=============================================================================

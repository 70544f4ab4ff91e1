---------------------------- MODULE MCNicConfig ----------------------------
(* NicConfig for TLC. *)
EXTENDS NicConfig

CONSTANTS m1, m2, u1, u2, u3, g1, g2, k1, k2

Nothing ==
    [macs |-> {m1}, keys |-> {k1}, tables |-> {}, pause |-> {}, coalesce |-> {},
     itr |-> "off", links |-> {}, features |-> {Features, Features \ {"lro"}},
     wanted |-> {}]

\* The stack's lists and restarts: two filters for up to three unicast and two
\* multicast addresses.
Lists ==
    [Nothing EXCEPT
      !.wanted = [uc : {{}, {u1}, {u1, u2, u3}}, mc : {{}, {g1}, {g1, g2}},
                  flags : {{"multicast"}}]
                 \cup [uc : {{u2}}, mc : {{}}, flags : {{"promisc"}}]]

\* The address, RSS and the offloads.  16 entries take 3 words of the
\* indirection table: the whole pattern in which entries of 3 bits straddle
\* words of 16.
Settings ==
    [Nothing EXCEPT
      !.macs = {m1, m2}, !.keys = {k1, k2}, !.features = SUBSET Features,
      !.tables = {[i \in 0 .. RssSize - 1 |-> (RssQueues - 1) - (i % RssQueues)]}]

\* The link, flow control and moderation, from each mode it may start in.
Moderation(itr) ==
    [Nothing EXCEPT
      !.itr = itr, !.pause = BOOLEAN,
      !.links = {[mbps |-> 0, fc |-> FALSE]} \cup [mbps : {1000, 2500}, fc : BOOLEAN],
      !.coalesce = {[rx |-> 0, rxf |-> 1, tx |-> UsecMax, txf |-> 0],
                    [rx |-> 70, rxf |-> 0, tx |-> 9, txf |-> 0]}]

MCSetups == {Lists, Settings} \cup {Moderation(itr) : itr \in {"off", "on", "auto"}}

=============================================================================

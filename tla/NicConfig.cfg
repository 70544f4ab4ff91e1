SPECIFICATION Spec
CONSTANTS
    Setups <- MCSetups
    m1 = m1  m2 = m2  u1 = u1  u2 = u2  u3 = u3  g1 = g1  g2 = g2  k1 = k1  k2 = k2
    Macs = {m1, m2}
    Unicast = {u1, u2, u3}
    Multicast = {g1, g2}
    Keys = {k1, k2}
    NoAddr = NoAddr
    NoKey = NoKey
    ListMax = 2
    RssSize = 16
    RssQueues = 8
INVARIANTS InForce RxCovers

SPECIFICATION Spec
CONSTANTS
    g = g
    b = b
    m1 = m1
    m2 = m2
    d1 = d1
    d2 = d2
    Groups = {g}
    Peers = {b}
    Messages = {m1, m2, d1, d2}
    KeyOf <- GroupAndPeer
    Earlier = {m1, d1}
    MaxPasses = 2
    MaxInits = 1
    MaxArrivals = 2
INVARIANTS NothingMissed PendingStaysDark

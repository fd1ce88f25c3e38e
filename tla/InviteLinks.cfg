SPECIFICATION FairSpec
CONSTANTS
    p = p
    q = q
    g = g
    NoLink = NoLink
    b1 = b1
    b2 = b2
    Nonces = {p, q}
    Groups = {g}
    GroupOf <- OneGroup
    Bells = {b1, b2}
    Stored <- OldStore
    Backup <- OldBackup
    Day = 1
    FirstClock = 1
    MaxClock = 2
    MaxApprovals = 1
    MaxDeeds = 1
INVARIANTS StoreIsAtomic RingsOnce
PROPERTIES BadgeSettles

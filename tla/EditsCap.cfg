SPECIFICATION Spec
CONSTANTS
    o = o
    q = q
    x = x
    g = g
    h = h
    ann = ann
    bob = bob
    Ids <- TwoIds
    Originals <- TwoOriginals
    Pubkeys = {ann, bob}
    Threads <- TwoThreads
    ThreadOf <- TwoThreadOf
    AuthorOf <- TwoAuthorOf
    Signals <- CapSignals
    Cap = 1
    TTL = 1
    MaxClock = 2
    MaxCrashes = 1
INVARIANTS OnlyItsAuthorChangesARow
PROPERTIES ExpiredDeleteIsPersisted MarkersStand

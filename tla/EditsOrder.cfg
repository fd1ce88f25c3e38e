SPECIFICATION FairSpec
CONSTANTS
    o = o
    q = q
    x = x
    g = g
    h = h
    ann = ann
    bob = bob
    Ids <- OneIds
    Originals <- OneOriginals
    Pubkeys = {ann, bob}
    Threads <- OneThreads
    ThreadOf <- OneThreadOf
    AuthorOf <- OneAuthorOf
    Signals <- OrderSignals
    Cap = 8
    TTL = 1
    MaxClock = 0
    MaxCrashes = 1
INVARIANTS SignalsPrevail
PROPERTIES RowsOnlyAdvance HoldsTheStrongest BufferedIsApplied

SPECIFICATION FairSpec
CONSTANTS
    a = a
    b = b
    m = m
    u = u
    v = v
    Commits = {a, b}
    Messages = {m, u, v}
    Parent <- ChainParent
    At <- ChainAt
    Needs <- ChainNeeds
    Created <- ChainCreated
    IdRank <- ChainRank
    MaxBuffer = 4
    MaxRepeats = 1
    MaxTeardowns = 0
CHECK_DEADLOCK FALSE
INVARIANTS NoReadableLeftBehind
PROPERTIES EventuallyRead

SPECIFICATION Spec
CONSTANTS
    a = a
    b = b
    m = m
    u = u
    v = v
    Commits = {a, b}
    Messages = {m, u, v}
    Parent <- ForkParent
    At <- ForkAt
    Needs <- NeedsNone
    Created <- ForkCreated
    IdRank <- ForkRank
    MaxBuffer = 2
    MaxRepeats = 1
    MaxTeardowns = 1
CHECK_DEADLOCK FALSE
INVARIANTS TypeOK NoEventLost
PROPERTIES ResolvesTheFork

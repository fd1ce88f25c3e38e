SPECIFICATION FairSpec
CONSTANTS
    desk = desk
    phone = phone
    tablet = tablet
    ann = ann
    bob = bob
    cid = cid
    NoLeg = NoLeg
    Nobody = Nobody
    Device = {desk, phone}
    Pubkey = {ann, bob}
    Groups = {}
    Targets <- JustBob
    OwnerOf <- PairOwners
    RankOf <- Ranks
    Callers = {desk}
    Leavers = {desk, phone}
    Unmounts = {phone}
    SecondClicks = FALSE
    MaxStarts = 1
    MaxAccepts = 1
    MaxContexts = 1
    MaxFailures = 2
CHECK_DEADLOCK FALSE
INVARIANTS TypeOK MicReleased StoreMatchesContext NothingBeforeTheClick
PROPERTIES WaitsEnd

SPECIFICATION Spec
CONSTANTS
    desk = desk
    phone = phone
    tablet = tablet
    ann = ann
    bob = bob
    cid = cid
    NoLeg = NoLeg
    Nobody = Nobody
    Device = {desk, phone, tablet}
    Pubkey = {ann, bob, cid}
    Groups <- OneGroup
    Targets <- TheOthers
    OwnerOf <- ThreeOwners
    RankOf <- Ranks
    Callers = {desk}
    Leavers = {}
    Unmounts = {}
    SecondClicks = FALSE
    MaxStarts = 1
    MaxAccepts = 1
    MaxContexts = 1
    MaxFailures = 0
CHECK_DEADLOCK FALSE
INVARIANTS MeshComplete

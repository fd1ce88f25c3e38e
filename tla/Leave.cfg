SPECIFICATION Spec
CONSTANTS
    ada = ada
    ben = ben
    lea = lea
    guest = guest
    Blank = Blank
    Nobody = Nobody
    Member = {ada, ben, lea, guest}
    Founders <- ABL
    FirstAdmins = {ada}
    Leavers = {lea}
    Reporters = {lea}
    Reported = {ben}
    Guests = {guest}
    Grantees = {ben}
    Removable = {}
    Namers = {}
    Clocks = {0}
    MaxReports = 1
    MaxCommits = 3
    Hitches = {"failed"}
    MaxHitches = 1
CHECK_DEADLOCK FALSE
INVARIANTS TypeOK NobodyIsDemoted NoDepartureForgotten
PROPERTIES OnlyTheAnnouncedAreRemoved

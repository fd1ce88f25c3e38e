SPECIFICATION Spec
CONSTANTS
    ada = ada
    ben = ben
    lea = lea
    guest = guest
    Blank = Blank
    Nobody = Nobody
    Member = {ada, ben, lea, guest}
    Founders <- ABL
    FirstAdmins = {ada}
    Leavers = {lea, ben}
    Reporters = {}
    Reported = {}
    Guests = {}
    Grantees = {ben}
    Removable = {lea}
    Namers = {ada}
    Clocks = {0}
    MaxReports = 0
    MaxCommits = 3
    Hitches = {"restarted", "torn"}
    MaxHitches = 1
CHECK_DEADLOCK FALSE
PROPERTIES DepartureFinished

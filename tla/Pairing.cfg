SPECIFICATION Spec
CONSTANTS
    ada = ada
    ben = ben
    Absent = Absent
    None = None
    Device = {ada, ben}
    Sharers = {ada}
    Scanners = {ben}
    Nameless = {ben}
    Blockers = {ada}
    TTL = 1
    Grace = 1
    LastShow = 1
    MaxClock = 3
    MaxCopies = 2
    MaxFailures = 1
    MaxRestarts = 1
    MaxCalls = 2
CHECK_DEADLOCK FALSE
INVARIANTS GraceKept
PROPERTIES AdmittedExactlyInTime DecisionSticks HeldUntilSettled

CONSTANTS
    Clients = {c1}
    Sweepers = {s1, s2}
    Values = {a}
    Null = Null
    StaleRetries = 2
    MaxAttempts = 2
    CasVers = {}
    NoCas = NoCas
    Modes = {"set"}
    Faults = {"sweep", "grace"}
    MaxCalls = 2
SPECIFICATION SFairSpec
CHECK_DEADLOCK FALSE
INVARIANTS
    SweepSpares
    SweptClean
PROPERTIES
    EventuallySwept

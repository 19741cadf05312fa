CONSTANTS
    Clients = {c1, c2}
    Values = {a, b}
    Null = Null
    StaleRetries = 2
    MaxAttempts = 2
    CasVers = {1}
    NoCas = NoCas
    Modes = {"keep", "set", "none"}
    Faults = {"giveup", "reply", "resend", "segment", "grace"}
    MaxCalls = 2
SPECIFICATION Spec
CHECK_DEADLOCK FALSE
SYMMETRY Symmetry
INVARIANTS
    IInv
    TypeOK
    NoMiss
    Registered
    ReceiptCoversRow
    NoLostUpdate
PROPERTY VersionsGrow

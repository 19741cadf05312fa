CONSTANTS
    Clients = {c1, c2}
    Leaders = {l1, l2}
    MaxPk = 2
    SyncMax = 1
    Batch = 1
    RowsPerTick = 1
    MaxOps = 2
    MaxFaults = 1
SPECIFICATION FairSpec
CONSTRAINT Unraced
CHECK_DEADLOCK FALSE
INVARIANTS
    NoLeak
    NoGhosts
PROPERTIES
    JobSpares
    JobEnds

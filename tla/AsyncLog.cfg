CONSTANTS
    Consumers = {i1, i2}
    Pks = {1, 2}
    Values = {a, b, e}
    None = None
    Empty = e
    Batch = 2
    LogCap = 2
    MaxVer = 3
    MaxWrites = 3
    MaxFaults = 1
SPECIFICATION FairSpec
CONSTRAINT Sound
CHECK_DEADLOCK FALSE
PROPERTIES
    ImplementsSync
    EventuallyIndexed

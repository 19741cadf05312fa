CONSTANTS
    Pks = {0, 1}
    Writers = {w1}
    Splitters = {s1}
    Ops = {"split", "merge"}
    NSub = 1
    Batch = 2
    MaxStepRetries = 2
    Timely = TRUE
    Faults = {"die", "crash"}
    MaxVer = 2
    MaxDeaths = 1
    MaxIdx = 3
    MaxBegins = 2
SPECIFICATION FairSpec
CHECK_DEADLOCK FALSE
INVARIANTS
    NoneLost
    NoOrphans
PROPERTIES
    Settles

CONSTANTS
    MaxPk = 2
    Values = {a, b}
    None = None
    Old = {2}
    Writers = {w1, w2}
    PageRows = 2
    BucketRows = 2
    MaxWrites = 2
    MaxDeaths = 1
SPECIFICATION FairSpec
CHECK_DEADLOCK FALSE
INVARIANTS
    ReportsTrue
PROPERTIES
    Reported
    Heals

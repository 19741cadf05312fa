CONSTANTS
    Pks = {1, 2}
    Initially = {1}
    Mortal = {1}
    Sessions = {q1}
    Covering = FALSE
    UseRowCache = TRUE
    K = 1
    PageRows = 1
    L2Max = 1
    L4Members = 1
    ColdTicks = 1
    ReadFaults = {"down"}
    MaxWrites = 1
    MaxDowns = 1
SPECIFICATION HSpec
CHECK_DEADLOCK FALSE
INVARIANTS
    ReadsSound
    ReadOnce
PROPERTY Found

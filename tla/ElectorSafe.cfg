CONSTANTS
    Nodes = {n1, n2}
    NoOne = NoOne
    Gone = Gone
    MaxOld = 1
    MaxFaults = 3
SPECIFICATION EFairSpec
INVARIANTS
    LeaseInv
    ActiveHoldsLock
PROPERTIES
    DeposedStops
    WorkResumes

CONSTANTS
    Gateways = {g1}
    Leaders = {l1, l2}
    MaxPk = 2
    Values = {a, b}
    None = None
    Batch = 1
    MaxWrites = 2
    MaxDdl = 2
SPECIFICATION Spec
CONSTRAINTS
    Bounded
    Promised
SYMMETRY Symmetry
CHECK_DEADLOCK FALSE
INVARIANTS
    IndexComplete

CONSTANTS
    Sessions = {c1, c2}
    MaxPk = 2
    Values = {a, b}
    None = None
    StaleRetries = 2
    Kinds = {"insert", "auto", "update", "delete"}
    VerifyMax = 1
    Faults = {"segment", "release", "reserve", "size", "px", "load"}
    Escaped = {}
    MaxStmts = 2
SPECIFICATION Spec
CHECK_DEADLOCK FALSE
SYMMETRY Symmetry
INVARIANTS
    UniqueHeld
    NoStrayReservation
PROPERTY InsertSpares

CONSTANTS
    RPks = {1, 2, 3}
    Scores = {2, 4, 6}
    Strings <- TheStrings
    Top = 3
    Null = Null
    RInitially <- RowsOnly
    Queries <- WholeQuery
    MoveBatch = 1
    ExecBatch = 2
    RefillPage = 1
    SplitBefore = TRUE
    Careful = TRUE
    Writes <- TheWrites
    MaxRWrites = 0
    MaxSteps = 3
    MaxScans = 1
SPECIFICATION RSpec
CHECK_DEADLOCK FALSE
INVARIANT Ordered
